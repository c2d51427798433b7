---------------------------- MODULE JobPipeline -----------------------------
(***************************************************************************)
(* What the workers of AIJobQueue do between claim and mark: score a job   *)
(* description and route it, or tailor a resume to it and store the result *)
(* (workers/job_queue.py, workers/tailor.py), next to the API endpoints    *)
(* that score in the request itself or deliver a resume from outside       *)
(* (api/evaluate.py).                                                      *)
(*                                                                         *)
(* There is one tailor job per job analysis, so an analysis is named by    *)
(* its tailor job.                                                         *)
(***************************************************************************)
EXTENDS AIJobQueue, FiniteSets

CONSTANTS
  AnalysisOf,     \* the analysis an evaluate job leads to
  CheckMayRaise,  \* the cancel check of a tailoring may raise
  MaxDeliveries   \* bound: resumes delivered by callback or revision

ASSUME PipelineAssumption ==
  /\ AnalysisOf \in [EvaluateJobs -> TailorJobs]
  /\ CheckMayRaise \in BOOLEAN
  /\ MaxDeliveries \in Nat

VARIABLES
  analysis,    \* job_analyses.status, "none" before there is a row
  canSubmit,   \* job_analyses.can_submit
  resumes,     \* generated_resumes
  files,       \* PDF files of generated resumes, by resume id
  minted,      \* resume ids given out so far, per analysis
  unreported,  \* history: drafts stored by an execution that ended in an error
  step,        \* where a worker is within its execution
  deliveries   \* resumes delivered so far by callback or revision

tables == <<analysis, canSubmit, resumes, files, minted, unreported>>
domainVars == <<tables, step, deliveries>>
pipelineVars == <<vars, domainVars>>

Routes == {"ready_to_submit", "needs_tailoring", "skip"}
StepNames ==
  {"none", "start", "llm", "generated", "written", "commit", "evaluated"}

AtStep(w, name) == worker[w].pc = "run" /\ step[w].at = name

Goes(w, name) == step' = [step EXCEPT ![w].at = name]

Rests(w) == step' = [step EXCEPT ![w] = [at |-> "none", n |-> 0]]

HasResume(a) == \E r \in resumes : r.of = a

\* The execution of worker w ends with the given outcome.
Ends(w, outcome) == Execute(w, outcome) /\ Rests(w)

\* _is_cancel_requested in a session of its own; in tailoring an error of the
\* check counts as "not cancelled".
CancelSeen(w) == row[worker[w].job].status = "cancel_requested"

MayPass(w) == ~CancelSeen(w) \/ CheckMayRaise

PipelineInit ==
  /\ Init
  /\ analysis = [a \in TailorJobs |-> "none"]
  /\ canSubmit = [a \in TailorJobs |-> FALSE]
  /\ resumes = {}
  /\ files = {}
  /\ minted = [a \in TailorJobs |-> 0]
  /\ unreported = {}
  /\ step = [w \in Workers |-> [at |-> "none", n |-> 0]]
  /\ deliveries = 0

----------------------------------------------------------------------------
(* Scoring.                                                                *)

\* A new analysis row, routed by its score; a cached one is left alone.
Scores(a, route) ==
  /\ analysis[a] = "none"
  /\ analysis' = [analysis EXCEPT ![a] = route]
  /\ canSubmit' = [canSubmit EXCEPT ![a] = (route = "ready_to_submit")]

EvaluateStart(w) ==
  /\ AtStep(w, "start")
  /\ worker[w].job \in EvaluateJobs
  /\ IF CancelSeen(w)
       THEN Ends(w, "err")
       ELSE Goes(w, "llm") /\ UNCHANGED vars
  /\ UNCHANGED <<tables, deliveries>>

\* evaluate_jd: a cache hit, a fresh score, or an error (the profile was
\* deleted, the LLM call or the commit failed).
EvaluateScore(w) ==
  LET a == AnalysisOf[worker[w].job] IN
  /\ AtStep(w, "llm")
  /\ worker[w].job \in EvaluateJobs
  /\ \/ /\ analysis[a] # "none"
        /\ Goes(w, "evaluated")
        /\ UNCHANGED <<vars, analysis, canSubmit>>
     \/ /\ \E route \in Routes : Scores(a, route)
        /\ Goes(w, "evaluated")
        /\ UNCHANGED vars
     \/ /\ Ends(w, "err")
        /\ UNCHANGED <<analysis, canSubmit>>
  /\ UNCHANGED <<resumes, files, minted, unreported, deliveries>>

\* Marks the evaluation done without queueing the tailor job first.
MutEvaluateRoute(w) ==
  /\ AtStep(w, "evaluated")
  /\ Ends(w, IF CancelSeen(w) THEN "err" ELSE "ok")
  /\ UNCHANGED <<tables, deliveries>>

\* The cancel check after scoring, and the hand-over to tailoring: the tailor
\* job is opened in a session of its own, or there is nothing to enqueue.  A
\* cancel seen, and an error of any of these calls, end the execution.
EvaluateRoute(w) ==
  LET a == AnalysisOf[worker[w].job]
      b == HasResume(a)
  IN
  /\ AtStep(w, "evaluated")
  /\ \/ Ends(w, "err")
     \/ /\ ~CancelSeen(w)
        /\ analysis[a] = "needs_tailoring"
        /\ Handoff(w, a, b)
        /\ UNCHANGED step
     \/ /\ ~CancelSeen(w)
        /\ analysis[a] = "needs_tailoring" =>
             b \/ row[a].status \in Active
        /\ Ends(w, "ok")
  /\ UNCHANGED <<tables, deliveries>>

\* The result is built once the tailor job is committed.
EvaluateReturn(w, outcome) ==
  /\ worker[w].pc = "handed"
  /\ Ends(w, outcome)
  /\ UNCHANGED <<tables, deliveries>>

----------------------------------------------------------------------------
(* Tailoring (run_tailoring).                                              *)

\* Guards: the analysis waits for tailoring, a profile exists (a deleted one
\* ends the execution), the job is not cancelled.
TailorStart(w) ==
  /\ AtStep(w, "start")
  /\ worker[w].job \in TailorJobs
  /\ \/ /\ analysis[worker[w].job] = "needs_tailoring"
        /\ MayPass(w)
        /\ Goes(w, "llm")
        /\ UNCHANGED vars
     \/ Ends(w, "err")
  /\ UNCHANGED <<tables, deliveries>>

TailorGenerate(w) ==
  /\ AtStep(w, "llm")
  /\ worker[w].job \in TailorJobs
  /\ \/ Goes(w, "generated") /\ UNCHANGED vars
     \/ Ends(w, "err")
  /\ UNCHANGED <<tables, deliveries>>

\* A PDF that could not be written is not noticed.
MutTailorWrite(w) ==
  LET a == worker[w].job
      n == minted[a] + 1
  IN
  /\ AtStep(w, "generated")
  /\ \/ /\ CancelSeen(w)
        /\ Ends(w, "err")
        /\ UNCHANGED <<files, minted>>
     \/ /\ MayPass(w)
        /\ minted' = [minted EXCEPT ![a] = n]
        /\ files' = files \/ files' = files \cup {<<a, n>>}
        /\ step' = [step EXCEPT ![w] = [at |-> "written", n |-> n]]
        /\ UNCHANGED vars
  /\ UNCHANGED <<analysis, canSubmit, resumes, unreported, deliveries>>

\* The checks after the LLM call; then the row is flushed, invisible to other
\* sessions, and its PDF is written.  An error rolls the row back.
TailorWrite(w) ==
  LET a == worker[w].job
      n == minted[a] + 1
  IN
  /\ AtStep(w, "generated")
  /\ \/ /\ CancelSeen(w)
        /\ Ends(w, "err")
        /\ UNCHANGED <<files, minted>>
     \/ /\ MayPass(w)
        /\ minted' = [minted EXCEPT ![a] = n]
        /\ \/ /\ files' = files \cup {<<a, n>>}
              /\ step' = [step EXCEPT ![w] = [at |-> "written", n |-> n]]
              /\ UNCHANGED vars
           \/ files' = files /\ Ends(w, "err")
  /\ UNCHANGED <<analysis, canSubmit, resumes, unreported, deliveries>>

\* Forgets to look again after the PDF is written.
MutTailorLastCheck(w) ==
  /\ AtStep(w, "written")
  /\ Goes(w, "commit")
  /\ UNCHANGED <<vars, tables, deliveries>>

\* The last check: a cancel rolls the row back and leaves the file behind.
TailorLastCheck(w) ==
  /\ AtStep(w, "written")
  /\ \/ CancelSeen(w) /\ Ends(w, "err")
     \/ MayPass(w) /\ Goes(w, "commit") /\ UNCHANGED vars
  /\ UNCHANGED <<tables, deliveries>>

\* A resume row of analysis a, committed together with can_submit.
Stores(a, n, by, pdf) ==
  /\ resumes' = resumes \cup {[of |-> a, n |-> n, by |-> by, pdf |-> pdf]}
  /\ canSubmit' = [canSubmit EXCEPT ![a] = TRUE]

\* Reports success before the commit is known to have succeeded.
MutTailorCommit(w) ==
  LET a == worker[w].job IN
  /\ AtStep(w, "commit")
  /\ \/ Stores(a, step[w].n, "worker", "local")
     \/ UNCHANGED <<resumes, canSubmit>>
  /\ Ends(w, "ok")
  /\ UNCHANGED <<analysis, files, minted, unreported, deliveries>>

\* The commit of the row and of can_submit, or its failure and rollback.  What
\* follows the commit may raise all the same: the refresh, inside the try, and
\* the audit behind it, which reads the profile again and prices the token counts
\* of the model (LLMCalls).  The execution then ends in an error, with its draft
\* stored.
TailorCommit(w) ==
  LET a == worker[w].job
      n == step[w].n
  IN
  /\ AtStep(w, "commit")
  /\ \/ Stores(a, n, "worker", "local") /\ Ends(w, "ok") /\ UNCHANGED unreported
     \/ UNCHANGED <<resumes, canSubmit, unreported>> /\ Ends(w, "err")
     \/ /\ Stores(a, n, "worker", "local")
        /\ Ends(w, "err")
        /\ unreported' = unreported \cup {<<a, n>>}
  /\ UNCHANGED <<analysis, files, minted, deliveries>>

----------------------------------------------------------------------------
(* The API endpoints beside the queue.                                     *)

\* POST /evaluate scores in the request; its enqueue is a Submit.
ApiEvaluate(a) ==
  /\ \E route \in Routes : Scores(a, route)
  /\ UNCHANGED <<vars, resumes, files, minted, unreported, step, deliveries>>

\* Requeues a job whatever its status.
MutApiSubmit(s, j) ==
  /\ CountsRequest
  /\ Opens(s, j, IF row[j].status = "absent" THEN "insert" ELSE "requeue")
  /\ UNCHANGED <<row, due, worker, locked, crashes, lost, domainVars>>

\* Does not look for a resume before a tailor job is put back.
MutApiRevive(s, j) ==
  /\ j \in TailorJobs => analysis[j] = "needs_tailoring"
  /\ Submit(s, j, FALSE)
  /\ UNCHANGED domainVars

\* Only an analysis routed to tailoring is enqueued for it.
ApiSubmit(s, j) ==
  /\ IF j \in TailorJobs
       THEN analysis[j] = "needs_tailoring" /\ Submit(s, j, HasResume(j))
       ELSE Submit(s, j, FALSE)
  /\ UNCHANGED domainVars

\* Delivers the resume but leaves can_submit to the scoring.
MutDeliver(a, pdf) ==
  LET n == minted[a] + 1 IN
  /\ analysis[a] # "none"
  /\ deliveries < MaxDeliveries
  /\ deliveries' = deliveries + 1
  /\ minted' = [minted EXCEPT ![a] = n]
  /\ files' = IF pdf = "local" THEN files \cup {<<a, n>>} ELSE files
  /\ resumes' = resumes \cup {[of |-> a, n |-> n, by |-> "user", pdf |-> pdf]}
  /\ UNCHANGED <<vars, analysis, unreported, step, canSubmit>>

\* A resume delivered from outside (/callback, whose pdf may be hosted
\* elsewhere) or edited by the user (/revisions of an existing resume).
Deliver(a, pdf) ==
  LET n == minted[a] + 1 IN
  /\ analysis[a] # "none"
  /\ deliveries < MaxDeliveries
  /\ deliveries' = deliveries + 1
  /\ minted' = [minted EXCEPT ![a] = n]
  /\ files' = IF pdf = "local" THEN files \cup {<<a, n>>} ELSE files
  /\ Stores(a, n, "user", pdf)
  /\ UNCHANGED <<vars, analysis, unreported, step>>

\* A download renders a PDF that is not there and makes it the resume's own.
Download(r) ==
  /\ files' = files \cup {<<r.of, r.n>>}
  /\ resumes' = (resumes \ {r}) \cup {[r EXCEPT !.pdf = "local"]}
  /\ UNCHANGED <<vars, analysis, canSubmit, minted, unreported, step, deliveries>>

----------------------------------------------------------------------------

\* Claiming begins an execution; the other queue steps leave the domain alone.
PipelineClaim(w) ==
  \/ ClaimSelect(w) /\ UNCHANGED domainVars
  \/ /\ ClaimCommit(w)
     /\ Goes(w, "start")
     /\ UNCHANGED <<tables, deliveries>>

PipelineMark(w) ==
  /\ MarkRead(w) \/ SucceedCommit(w) \/ FailCommit(w)
  /\ UNCHANGED domainVars

PipelineCrash(w) ==
  /\ Crash(w)
  /\ Rests(w)
  /\ UNCHANGED <<tables, deliveries>>

PipelineWork(w) ==
  \/ EvaluateStart(w) \/ EvaluateScore(w) \/ EvaluateRoute(w)
  \/ \E outcome \in {"ok", "err"} : EvaluateReturn(w, outcome)
  \/ TailorStart(w) \/ TailorGenerate(w) \/ TailorWrite(w)
  \/ TailorLastCheck(w) \/ TailorCommit(w)

PipelineWorker(w) == PipelineClaim(w) \/ PipelineWork(w) \/ PipelineMark(w)

PipelineCommit(s) == CommitStep(s) /\ UNCHANGED domainVars

PipelineBackoff(j) == BackoffElapses(j) /\ UNCHANGED domainVars

PipelineClient ==
  \/ \E s \in Submitters, j \in Jobs : ApiSubmit(s, j)
  \/ \E s \in Cancellers, j \in Jobs : Cancel(s, j) /\ UNCHANGED domainVars
  \/ \E a \in TailorJobs : ApiEvaluate(a)
  \/ \E a \in TailorJobs, pdf \in {"local", "external"} : Deliver(a, pdf)
  \/ \E r \in resumes : Download(r)

PipelineNext ==
  \/ PipelineClient
  \/ \E s \in Sessions : PipelineCommit(s)
  \/ \E w \in Workers : PipelineWorker(w)
  \/ \E j \in Jobs : PipelineBackoff(j)
  \/ \E w \in Workers : PipelineCrash(w)

PipelineSpec == PipelineInit /\ [][PipelineNext]_pipelineVars

PipelineFairSpec ==
  /\ PipelineSpec
  /\ \A s \in Sessions : WF_pipelineVars(PipelineCommit(s))
  /\ \A w \in Workers : WF_pipelineVars(PipelineWorker(w))
  /\ \A j \in Jobs : WF_pipelineVars(PipelineBackoff(j))

----------------------------------------------------------------------------
(* Properties.                                                             *)

ResumeRow ==
  [of : TailorJobs, n : Nat, by : {"worker", "user"}, pdf : {"local", "external"}]

\* The type invariant of the tables and files the pipeline writes.
PipelineTypeOK ==
  /\ analysis \in [TailorJobs -> Routes \cup {"none"}]
  /\ canSubmit \in [TailorJobs -> BOOLEAN]
  /\ resumes \subseteq ResumeRow
  /\ files \subseteq TailorJobs \X Nat
  /\ minted \in [TailorJobs -> Nat]
  /\ unreported \subseteq TailorJobs \X Nat
  /\ step \in [Workers -> [at : StepNames, n : Nat]]
  /\ deliveries \in 0..MaxDeliveries

\* The pipeline only adds to the queue: every behaviour of it is one of
\* AIJobQueue, with Execute in place of the handlers.
QueueKept == Spec

\* A tailor job is never marked succeeded before its resume is stored, even
\* when updates of its row are lost.
SucceededHasResume ==
  \A t \in TailorJobs : row[t].status = "succeeded" => HasResume(t)

\* can_submit and the documents behind it move together: a submittable
\* analysis is ready as it is or has a resume, and a stored resume always makes
\* its analysis submittable (GET /submittable lists nothing without a document
\* and hides no resume).
SubmittableIffDocument ==
  \A a \in TailorJobs :
    canSubmit[a] <=> (analysis[a] = "ready_to_submit" \/ HasResume(a))

\* Every stored resume whose pdf_url is local has its file: a crash or rollback
\* may leave a file without a row, never a row without its file.
PdfBeforeRow ==
  \A r \in resumes : r.pdf = "local" => <<r.of, r.n>> \in files

Drafts(t) == {r \in resumes : r.of = t /\ r.by = "worker"}

Reported(t) == {r \in Drafts(t) : <<t, r.n>> \notin unreported}

\* The workers store a second draft of an analysis only after one whose execution
\* ended in an error behind its commit: a draft that was reported is the last
\* one, a job that is waiting, failed or cancelled has no reported one, and every
\* draft has cost an attempt; through cancels, retries, requeues and crashes, unless
\* an update of the job's row was lost.
OneDraft ==
  \A t \in TailorJobs \ lost :
    /\ \A r \in Reported(t), q \in Drafts(t) : q = r \/ q.n < r.n
    /\ row[t].status \in {"absent", "queued", "retry_wait", "failed", "cancelled"}
         => Reported(t) = {}
    /\ Cardinality(Drafts(t)) <= row[t].attempts

\* An evaluation routed to tailoring is not marked succeeded before the tailor
\* job exists or a resume makes it needless.
EvaluateHandsOver ==
  \A e \in EvaluateJobs :
    row[e].status = "succeeded" /\ analysis[AnalysisOf[e]] = "needs_tailoring"
      => row[AnalysisOf[e]].status # "absent" \/ HasResume(AnalysisOf[e])

BeforeLastCheck(w) ==
  \/ worker[w].pc = "run" /\ step[w].at \in {"start", "llm", "generated", "written"}
     /\ worker[w].job \in TailorJobs

\* A cancel request that finds the tailoring before its last check is honoured:
\* the job ends cancelled, not succeeded and not retried.
CancelHonoured ==
  \A t \in TailorJobs :
    (/\ row[t].status = "cancel_requested"
     /\ \E w \in Workers : worker[w].job = t /\ BeforeLastCheck(w))
      ~> (row[t].status = "cancelled" \/ t \in lost)
=============================================================================
