---------------------------- MODULE EvaluatePage -----------------------------
(***************************************************************************)
(* The evaluate page in the browser (static/features/evaluate.js,          *)
(* static/features/resume-modal.js, the globals of static/app.js).         *)
(*                                                                         *)
(* One global timer polls the server every two seconds without waiting for *)
(* the previous answer; answers arrive in any order, and whatever a        *)
(* handler does with the globals - stop the timer, enable the button, set  *)
(* the current resume - it does for the evaluation of the answer, which    *)
(* need not be the one the page is showing by then.  A handler runs to     *)
(* its next await without interruption: one action.                        *)
(*                                                                         *)
(* Evaluations are numbered in the order of the clicks; 0 is none.         *)
(***************************************************************************)
EXTENDS Naturals, FiniteSets

CONSTANTS
  MaxEvaluations,  \* bound: clicks of "Evaluate"
  MaxErrors,       \* bound: requests that fail
  MaxSaves,        \* bound: saved revisions
  Slots            \* bound: requests in flight at the same time

ASSUME EvaluatePageAssumption ==
  /\ MaxEvaluations \in Nat \ {0} /\ MaxErrors \in Nat /\ MaxSaves \in Nat
  /\ IsFiniteSet(Slots)

VARIABLES
  job,        \* the server: the evaluation of each click
  draft,      \* the server: the tailoring of each evaluation
  clicks,     \* evaluations asked for
  errors,     \* failed requests so far
  button,     \* "Evaluate" is enabled
  result,     \* the evaluation whose result is displayed
  mark,       \* what the tailoring block below it displays
  timer,      \* pollTimer
  intervals,  \* the intervals that have not been cleared
  flight,     \* the requests whose answer has not been handled
  current,    \* the evaluation currentResumeId belongs to
  editor,     \* the evaluation the text in the editor was taken from
  saved,      \* history: revisions <<evaluation edited, evaluation revised>>
  late,       \* history: an answer was handled for something else than what
              \* the page was waiting for by then
  switched    \* history: the current resume changed under the open editor

server == <<job, draft>>
polls == <<timer, intervals>>
shown == <<button, result, mark>>
resume == <<current, editor, saved, switched>>
vars == <<server, clicks, errors, shown, polls, flight, resume, late>>

Evaluations == 1..MaxEvaluations
NoTimer == [kind |-> "none", of |-> 0]
Timers == [kind : {"evaluate", "tailoring", "history"}, of : Evaluations]
Idle == [kind |-> "idle", of |-> 0, sent |-> "none", by |-> NoTimer, text |-> 0]

Init ==
  /\ job = [e \in Evaluations |-> "none"]
  /\ draft = [e \in Evaluations |-> "none"]
  /\ clicks = 0 /\ errors = 0
  /\ button = TRUE /\ result = 0 /\ mark = "none"
  /\ timer = NoTimer /\ intervals = {}
  /\ flight = [s \in Slots |-> Idle]
  /\ current = 0 /\ editor = 0 /\ saved = {}
  /\ late = FALSE /\ switched = FALSE

----------------------------------------------------------------------------
(* The server, as far as a page can see it.                                 *)

Scored(e) == job[e] = "succeeded"

\* An evaluation ends; it routes to tailoring or not.
Evaluates(e) ==
  /\ job[e] = "active"
  /\ \/ job' = [job EXCEPT ![e] = "failed"] /\ UNCHANGED draft
     \/ /\ job' = [job EXCEPT ![e] = "succeeded"]
        /\ \E d \in {"none", "active"} : draft' = [draft EXCEPT ![e] = d]
  /\ UNCHANGED <<clicks, errors, shown, polls, flight, resume, late>>

Tailors(e) ==
  /\ draft[e] = "active"
  /\ \E d \in {"succeeded", "failed"} : draft' = [draft EXCEPT ![e] = d]
  /\ UNCHANGED <<job, clicks, errors, shown, polls, flight, resume, late>>

\* What a request reads on the server.
Status(kind, e) == IF kind \in {"score", "submit", "evaluate"} THEN job[e] ELSE draft[e]

\* An answer is as old as the request, or as new as its receipt.
Answers(r) == {r.sent, Status(r.kind, r.of)}

----------------------------------------------------------------------------
(* The timer.                                                               *)

Request(kind, e, by) ==
  [kind |-> kind, of |-> e, sent |-> Status(kind, e), by |-> by, text |-> 0]

Sends(s, r) == flight' = [flight EXCEPT ![s] = r]
Handled(s) == Sends(s, Idle)

StopPoll == timer' = NoTimer /\ intervals' = intervals \ {timer}

\* A timer that is started beside the one that is running.
MutStartsPoll(s, t) ==
  /\ timer' = t /\ intervals' = intervals \cup {t}
  /\ Sends(s, [kind |-> t.kind, of |-> t.of, sent |-> Status(t.kind, t.of),
               by |-> t, text |-> 0])

\* The timer is replaced and its first request is sent at once, in the slot of
\* the answer that started it.
StartsPoll(s, t) ==
  /\ timer' = t /\ intervals' = (intervals \ {timer}) \cup {t}
  /\ Sends(s, [kind |-> t.kind, of |-> t.of, sent |-> Status(t.kind, t.of),
               by |-> t, text |-> 0])

Tick(s, t) ==
  /\ t \in intervals /\ flight[s] = Idle
  /\ Sends(s, Request(t.kind, t.of, t))
  /\ UNCHANGED <<server, clicks, errors, shown, polls, resume, late>>

\* The answer of a poll the page has gone on from.
IsLate(r) == timer # r.by /\ ~(timer = NoTimer /\ result = r.of)
Notes(r) == late' = (late \/ IsLate(r))

----------------------------------------------------------------------------
(* runEvaluate.                                                             *)

\* The result is hidden, the timer stopped, and the description is posted.
RunEvaluate(s, kind) ==
  /\ button /\ clicks < MaxEvaluations /\ flight[s] = Idle
  /\ clicks' = clicks + 1
  /\ job' = [job EXCEPT ![clicks + 1] = "active"]
  /\ button' = FALSE /\ result' = 0
  /\ StopPoll
  /\ Sends(s, [Request(kind, clicks + 1, NoTimer) EXCEPT !.sent = "active"])
  /\ UNCHANGED <<draft, errors, mark, resume, late>>

\* The result replaces the one displayed, its tailoring block is cleared, and
\* a tailoring is polled: by its job or, without one, by the history.
RenderEvalResult(s, e) ==
  /\ result' = e
  /\ IF draft[e] = "none"
     THEN mark' = "none" /\ Handled(s) /\ UNCHANGED polls
     ELSE /\ mark' = "spinner"
          /\ \E kind \in {"tailoring", "history"} :
               StartsPoll(s, [kind |-> kind, of |-> e])

\* The request fails: the network, or an answer that is not a success.
Errs == errors < MaxErrors /\ errors' = errors + 1

\* runSyncEvaluate: the answer comes when the evaluation has ended.
ScoreAnswer(s) ==
  LET e == flight[s].of IN
  /\ flight[s].kind = "score"
  /\ button' = TRUE
  /\ \/ /\ job[e] = "failed" /\ Handled(s)
        /\ UNCHANGED <<errors, result, mark, polls>>
     \/ /\ Errs /\ Handled(s)
        /\ UNCHANGED <<result, mark, polls>>
     \/ /\ Scored(e) /\ RenderEvalResult(s, e)
        /\ UNCHANGED errors
  /\ UNCHANGED <<server, clicks, resume, late>>

\* An answer without a job that leaves the button disabled.
MutSubmitAnswer(s) ==
  /\ flight[s].kind = "submit"
  /\ \/ /\ Errs /\ Handled(s)
        /\ UNCHANGED <<button, polls>>
     \/ /\ StartsPoll(s, [kind |-> "evaluate", of |-> flight[s].of])
        /\ UNCHANGED <<errors, button>>
  /\ UNCHANGED <<server, clicks, result, mark, resume, late>>

\* runAsyncEvaluate: the job is polled and the button stays disabled.
SubmitAnswer(s) ==
  /\ flight[s].kind = "submit"
  /\ \/ /\ Errs /\ button' = TRUE /\ Handled(s)
        /\ UNCHANGED polls
     \/ /\ StartsPoll(s, [kind |-> "evaluate", of |-> flight[s].of])
        /\ UNCHANGED <<errors, button>>
  /\ UNCHANGED <<server, clicks, result, mark, resume, late>>

----------------------------------------------------------------------------
(* pollEvaluateJob.                                                         *)

EvaluateRuns(s) ==
  /\ flight[s].kind = "evaluate" /\ "active" \in Answers(flight[s])
  /\ Handled(s)
  /\ UNCHANGED <<server, clicks, errors, shown, polls, resume, late>>

\* The job has failed, or the poll has.
EvaluateStops(s) ==
  /\ flight[s].kind = "evaluate"
  /\ \/ "failed" \in Answers(flight[s]) /\ UNCHANGED errors
     \/ Errs
  /\ StopPoll /\ button' = TRUE /\ Handled(s)
  /\ Notes(flight[s])
  /\ UNCHANGED <<server, clicks, result, mark, resume>>

EvaluateEnds(s) ==
  /\ flight[s].kind = "evaluate" /\ "succeeded" \in Answers(flight[s])
  /\ button' = TRUE
  /\ IF draft[flight[s].of] = "none"
     THEN /\ StopPoll /\ Handled(s)
          /\ result' = flight[s].of /\ mark' = "none"
     ELSE RenderEvalResult(s, flight[s].of)
  /\ Notes(flight[s])
  /\ UNCHANGED <<server, clicks, errors, resume>>

----------------------------------------------------------------------------
(* pollTailoringJob and pollTailoringHistory.                               *)

\* Still running, or a failure of the request, which is ignored.
TailoringRuns(s) ==
  /\ flight[s].kind \in {"tailoring", "history"}
  /\ \/ "active" \in Answers(flight[s]) /\ UNCHANGED errors
     \/ Errs
  /\ Handled(s)
  /\ UNCHANGED <<server, clicks, shown, polls, resume, late>>

TailoringFails(s) ==
  /\ flight[s].kind \in {"tailoring", "history"}
  /\ "failed" \in Answers(flight[s])
  /\ StopPoll /\ mark' = "none" /\ Handled(s)
  /\ Notes(flight[s])
  /\ UNCHANGED <<server, clicks, errors, button, result, resume>>

\* The job has succeeded: its handler goes on to read the history.
TailoringSucceeds(s) ==
  /\ flight[s].kind = "tailoring" /\ "succeeded" \in Answers(flight[s])
  /\ Sends(s, Request("history", flight[s].of, flight[s].by))
  /\ UNCHANGED <<server, clicks, errors, shown, polls, resume, late>>

\* The globals of the resume are replaced, and the open editor keeps its text.
Switches(e) ==
  /\ current' = e
  /\ switched' = (switched \/ (editor # 0 /\ e # editor)
                           \/ \E s \in Slots : flight[s].kind = "revise" /\ flight[s].of # e)

\* A draft that is announced before it can be submitted.
MutApplyTailoringHistory(s) ==
  /\ flight[s].kind = "history" /\ "active" \in Answers(flight[s])
  /\ StopPoll /\ mark' = "done" /\ Handled(s)
  /\ Switches(flight[s].of)
  /\ Notes(flight[s])
  /\ UNCHANGED <<server, clicks, errors, button, result, editor, saved>>

ApplyTailoringHistory(s) ==
  /\ flight[s].kind = "history" /\ "succeeded" \in Answers(flight[s])
  /\ StopPoll /\ mark' = "done" /\ Handled(s)
  /\ Switches(flight[s].of)
  /\ Notes(flight[s])
  /\ UNCHANGED <<server, clicks, errors, button, result, editor, saved>>

----------------------------------------------------------------------------
(* The resume modal.                                                        *)

\* fetchAndOpenModal, from the history or the submittable list.
Fetch(s, e) ==
  /\ flight[s] = Idle /\ Scored(e)
  /\ Sends(s, Request("open", e, NoTimer))
  /\ UNCHANGED <<server, clicks, errors, shown, polls, resume, late>>

\* A modal that opens with the editor as it was.
MutOpens(s) ==
  LET e == flight[s].of IN
  /\ flight[s].kind = "open"
  /\ current' = IF draft[e] = "succeeded" THEN e ELSE 0
  /\ Handled(s)
  /\ switched' = (switched \/ \E t \in Slots : flight[t].kind = "revise")
  /\ UNCHANGED <<server, clicks, errors, shown, polls, editor, saved, late>>

\* openModal closes the editor.  Without a draft there is no current resume.
Opens(s) ==
  LET e == flight[s].of IN
  /\ flight[s].kind = "open"
  /\ \E d \in Answers(flight[s]) : current' = IF d = "succeeded" THEN e ELSE 0
  /\ editor' = 0 /\ Handled(s)
  /\ switched' = (switched \/ \E t \in Slots : flight[t].kind = "revise")
  /\ UNCHANGED <<server, clicks, errors, shown, polls, saved, late>>

FetchFails(s) ==
  /\ flight[s].kind = "open" /\ Errs /\ Handled(s)
  /\ UNCHANGED <<server, clicks, shown, polls, resume, late>>

\* "View Resume": the modal opens on the current resume, whichever that is.
OpenModal ==
  /\ result # 0 /\ mark = "done" /\ editor # 0
  /\ editor' = 0
  /\ UNCHANGED <<server, clicks, errors, shown, polls, flight, current, saved,
                 switched, late>>

\* The text of the current resume is copied into the editor.
ToggleResumeEditor ==
  /\ current # 0
  /\ editor' = IF editor = 0 THEN current ELSE 0
  /\ UNCHANGED <<server, clicks, errors, shown, polls, flight, current, saved,
                 switched, late>>

\* The text is posted as a revision of the resume that is current by now.
SaveResumeRevision(s) ==
  /\ flight[s] = Idle /\ editor # 0 /\ current # 0
  /\ Cardinality(saved) < MaxSaves
  /\ \A t \in Slots : flight[t].kind # "revise"
  /\ Sends(s, [Request("revise", current, NoTimer) EXCEPT !.text = editor])
  /\ UNCHANGED <<server, clicks, errors, shown, polls, resume, late>>

\* The revision becomes the current resume.
Revised(s) ==
  LET r == flight[s] IN
  /\ r.kind = "revise" /\ Handled(s)
  /\ \/ Errs /\ UNCHANGED <<current, editor, saved>>
     \/ /\ saved' = saved \cup {<<r.text, r.of>>}
        /\ current' = r.of /\ editor' = 0
        /\ UNCHANGED errors
  /\ UNCHANGED <<server, clicks, shown, polls, switched, late>>

----------------------------------------------------------------------------
Ends(s) ==
  \/ ScoreAnswer(s) \/ SubmitAnswer(s)
  \/ EvaluateRuns(s) \/ EvaluateStops(s) \/ EvaluateEnds(s)
  \/ TailoringRuns(s) \/ TailoringFails(s) \/ TailoringSucceeds(s)
  \/ ApplyTailoringHistory(s)
  \/ Opens(s) \/ FetchFails(s) \/ Revised(s)

Next ==
  \/ \E e \in Evaluations : Evaluates(e) \/ Tailors(e)
  \/ \E s \in Slots, kind \in {"score", "submit"} : RunEvaluate(s, kind)
  \/ \E s \in Slots : Ends(s)
  \/ \E s \in Slots, t \in Timers : Tick(s, t)
  \/ \E s \in Slots, e \in Evaluations : Fetch(s, e)
  \/ OpenModal \/ ToggleResumeEditor
  \/ \E s \in Slots : SaveResumeRevision(s)

\* The server goes on with its jobs, every request is answered, and the interval
\* keeps firing: a slot that other requests take again and again is no reason
\* not to.
Fairness ==
  /\ WF_vars(\E e \in Evaluations : Evaluates(e) \/ Tailors(e))
  /\ \A s \in Slots : WF_vars(Ends(s))
  /\ SF_vars(\E s \in Slots, t \in Timers : Tick(s, t))

Spec == Init /\ [][Next]_vars /\ Fairness

----------------------------------------------------------------------------
(* Properties.                                                              *)

Requests ==
  [kind : {"idle", "score", "submit", "evaluate", "tailoring", "history", "open", "revise"},
   of : 0..MaxEvaluations, sent : {"none", "active", "succeeded", "failed"},
   by : Timers \cup {NoTimer}, text : 0..MaxEvaluations]

\* Everything is of its type, and a request is about an evaluation.
TypeOK ==
  /\ job \in [Evaluations -> {"none", "active", "succeeded", "failed"}]
  /\ draft \in [Evaluations -> {"none", "active", "succeeded", "failed"}]
  /\ clicks \in 0..MaxEvaluations /\ errors \in 0..MaxErrors
  /\ button \in BOOLEAN /\ result \in 0..MaxEvaluations
  /\ mark \in {"none", "spinner", "done"}
  /\ timer \in Timers \cup {NoTimer} /\ intervals \subseteq Timers
  /\ flight \in [Slots -> Requests]
  /\ \A s \in Slots : /\ flight[s].kind # "idle" => flight[s].of # 0
                      /\ flight[s].kind = "revise" => flight[s].text # 0
  /\ current \in 0..MaxEvaluations /\ editor \in 0..MaxEvaluations
  /\ saved \subseteq Evaluations \X Evaluations
  /\ late \in BOOLEAN /\ switched \in BOOLEAN

\* Overlapping answers apply a result twice and start the poll twice, and still
\* no interval is left that stopPoll cannot clear.
OneInterval == intervals \subseteq {timer}

\* Unless an answer came late, a tailoring that is displayed as running is
\* being polled, and one displayed as ready has succeeded.
TailoringWatched ==
  result # 0 /\ ~late =>
    /\ mark = "spinner" => timer.of = result /\ timer.kind # "evaluate"
    /\ mark = "done" => draft[result] = "succeeded"

\* A revision holds the text of the resume it revises, unless the current
\* resume changed while the editor was open or the revision was being saved.
SavedWhereEdited == switched \/ \A r \in saved : r[1] = r[2]

\* The button that an evaluation has disabled is enabled again, and a tailoring
\* is not displayed as running for ever, unless a late answer has stopped the
\* poll.
PageSettles ==
  /\ ~button ~> (button \/ late)
  /\ (result # 0 /\ mark = "spinner") ~> (result = 0 \/ mark # "spinner" \/ late)

\* The page polls until the job has ended
\* (specs/current-product-spec.md:241-243).
PollsUntilEnd ==
  result # 0 /\ mark = "spinner" => timer # NoTimer

=============================================================================
