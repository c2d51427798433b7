------------------------------ MODULE LLMCalls -------------------------------
(***************************************************************************)
(* The four calls of the LLM, from the answer of the model to the stored   *)
(* result, its files and its audit row: scoring (services/evaluator_v2.py),*)
(* tailoring (workers/tailor.py), extraction (api/profile.py) and          *)
(* beautification (api/beautify.py), through the clients                   *)
(* (services/llm/anthropic.py, claude_cli.py), the contracts and           *)
(* services/llm/audit.py.  The row of a result and its audit row are       *)
(* committed one after the other: a call can stop between them.            *)
(***************************************************************************)
EXTENDS Contracts, Naturals, FiniteSets

CONSTANTS
  MaxCalls,    \* bound: calls
  MaxCrashes   \* bound: restarts of the process

ASSUME LLMCallsAssumption == MaxCalls \in Nat \ {0} /\ MaxCrashes \in Nat

VARIABLES
  call,      \* each call: its step, its client, where it is, the value in hand
             \* and what its caller is told
  stored,    \* calls whose result is committed
  audit,     \* llm_audit_logs: the status of the row of each call
  html,      \* beautified HTML on disk, by call
  pdf,       \* PDFs on disk: tailored and beautified
  linked,    \* beautifications whose row has the path of the PDF
  profile,   \* the profile these calls work for exists
  crashes    \* restarts so far

disk == <<html, pdf, linked>>
vars == <<call, stored, audit, disk, profile, crashes>>

Calls == 1..MaxCalls
Clients == {"anthropic", "claude_cli"}
Nothing == Answer("none", "object", FALSE, <<>>)
New == [pc |-> "new", step |-> "none", client |-> "none", value |-> Nothing,
        told |-> "none"]

Init ==
  /\ call = [c \in Calls |-> New]
  /\ stored = {} /\ audit = [c \in Calls |-> "none"]
  /\ html = {} /\ pdf = {} /\ linked = {}
  /\ profile = TRUE /\ crashes = 0

Goes(c, pc) == call' = [call EXCEPT ![c].pc = pc]
Ends(c, told) == call' = [call EXCEPT ![c].pc = "ended", ![c].told = told]
At(c, pc, step) == call[c].pc = pc /\ call[c].step = step

\* The profile is read and the LLM is called.
Start(c, step, client) ==
  /\ call[c].pc = "new" /\ profile
  /\ \A d \in 1..(c - 1) : call[d].pc # "new"
  /\ call' = [call EXCEPT ![c] = [New EXCEPT !.pc = "llm", !.step = step,
                                             !.client = client]]
  /\ UNCHANGED <<stored, audit, disk, profile, crashes>>

\* The row of a failed call.  It names the profile, except for a resume, and is
\* lost when the profile is gone.
Audits(c, status) ==
  audit' = IF profile \/ call[c].step = "beautify"
           THEN [audit EXCEPT ![c] = status] ELSE audit

\* A failed call ends with its audit row.
Fails(c) ==
  /\ Audits(c, "failed") /\ Ends(c, "failed")
  /\ UNCHANGED <<stored, disk, profile, crashes>>

\* No answer: the command is missing, fails or runs out of time; the API
\* refuses, or answers without content.
Unavailable(c) == call[c].pc = "llm" /\ Fails(c)

\* The second check of a value that is not the one the first has accepted.
MutAnswered(c, a) ==
  /\ call[c].pc = "llm"
  /\ IF Parses(a) /\ CallerAccepts(call[c].step, a)
     THEN /\ call' = [call EXCEPT ![c].pc = "store", ![c].value = a]
          /\ UNCHANGED <<stored, audit, disk, profile, crashes>>
     ELSE Fails(c)

\* The client checks the answer, and the caller the value it is handed.  An API
\* client overrides the token counts the model has put in its answer.
Answered(c, a) ==
  LET step == call[c].step
      v == IF step = "tailor" /\ call[c].client = "anthropic"
           THEN [Normal(a) EXCEPT !.fields.tokens = "ok"] ELSE Normal(a)
  IN
  /\ call[c].pc = "llm"
  /\ IF ClientAccepts(step, a) /\ CallerAccepts(step, v)
     THEN /\ call' = [call EXCEPT ![c].pc = "store", ![c].value = v]
          /\ UNCHANGED <<stored, audit, disk, profile, crashes>>
     ELSE Fails(c)

----------------------------------------------------------------------------
(* Storing the result.                                                      *)

Stores(c) == stored' = stored \cup {c} /\ Goes(c, "audit")

\* The row is committed and the refresh that reads it back raises: the caller
\* gets an error, a tailoring tailor_persist_failed, and nothing is audited.
Unread(c) == stored' = stored \cup {c} /\ Ends(c, "unread")

\* The commit fails.
Loses(c, told) == UNCHANGED stored /\ Ends(c, told)

\* The audit row is written when the LLM has answered.
MutStoreRow(c) ==
  /\ At(c, "store", "evaluate") \/ At(c, "store", "extract")
  /\ audit' = [audit EXCEPT ![c] = "succeeded"]
  /\ \/ profile /\ (Stores(c) \/ Unread(c))
     \/ Loses(c, "raised")
  /\ UNCHANGED <<disk, profile, crashes>>

\* The score refers to the profile, the extraction updates it: both lose the
\* row, and raise, when it is gone.
StoreRow(c) ==
  /\ At(c, "store", "evaluate") \/ At(c, "store", "extract")
  /\ \/ profile /\ (Stores(c) \/ Unread(c))
     \/ Loses(c, "raised")
  /\ UNCHANGED <<audit, disk, profile, crashes>>

\* A tailored resume is not stored when its job was cancelled in the meantime.
Cancelled(c) ==
  /\ At(c, "store", "tailor") \/ At(c, "commit", "tailor")
  /\ Ends(c, "cancelled")
  /\ UNCHANGED <<stored, audit, disk, profile, crashes>>

\* Its PDF is written before the commit; an error rolls the row back.
WriteResume(c) ==
  /\ At(c, "store", "tailor")
  /\ \/ pdf' = pdf \cup {c} /\ Goes(c, "commit")
     \/ UNCHANGED pdf /\ Ends(c, "unsaved")
  /\ UNCHANGED <<stored, audit, html, linked, profile, crashes>>

\* The cancellation is looked up after the commit.
MutStoreResume(c) ==
  /\ At(c, "commit", "tailor")
  /\ \/ Stores(c) \/ Unread(c) \/ Loses(c, "unsaved")
     \/ stored' = stored \cup {c} /\ Ends(c, "cancelled")
  /\ UNCHANGED <<audit, disk, profile, crashes>>

\* The commit and the refresh are in one try: an error of either is told as
\* tailor_persist_failed, also when the resume is stored.
StoreResume(c) ==
  /\ At(c, "commit", "tailor")
  /\ Stores(c) \/ Unread(c) \/ Loses(c, "unsaved")
  /\ UNCHANGED <<audit, disk, profile, crashes>>

\* write_beautified_artifacts: the HTML, ...
WriteHtml(c) ==
  /\ At(c, "store", "beautify")
  /\ html' = html \cup {c} /\ Goes(c, "render")
  /\ UNCHANGED <<stored, audit, pdf, linked, profile, crashes>>

\* The row is committed with the path of a PDF that was not rendered.
MutRender(c) ==
  /\ At(c, "render", "beautify")
  /\ linked' = linked \cup {c} /\ Goes(c, "commit")
  /\ \/ pdf' = pdf \cup {c}
     \/ UNCHANGED pdf
  /\ UNCHANGED <<stored, audit, html, profile, crashes>>

\* ... then the PDF.  A missing renderer is a RuntimeError, and the row is
\* committed without the path; any other error ends the request, without a row.
Render(c) ==
  /\ At(c, "render", "beautify")
  /\ \/ pdf' = pdf \cup {c} /\ linked' = linked \cup {c} /\ Goes(c, "commit")
     \/ UNCHANGED <<pdf, linked>> /\ Goes(c, "commit")
     \/ UNCHANGED <<pdf, linked>> /\ Ends(c, "raised")
  /\ UNCHANGED <<stored, audit, html, profile, crashes>>

StoreBeautified(c) ==
  /\ At(c, "commit", "beautify")
  /\ Stores(c) \/ Unread(c) \/ Loses(c, "raised")
  /\ UNCHANGED <<audit, disk, profile, crashes>>

\* The model has put words into its answer where token counts go.
MadeUp(c) == call[c].step = "tailor" /\ call[c].value.fields.tokens = "wrong"

\* The answer of a call that has stored its result.
Told(c) == IF call[c].step = "beautify" /\ c \notin linked THEN "no_pdf" ELSE "succeeded"

\* The row of a call that succeeded.  Tailoring and extraction read the profile
\* again, which raises when it is gone, and the token counts a model has made up
\* raise when they are priced, or lose the row.
AuditSuccess(c) ==
  LET gone == ~profile /\ call[c].step \in {"tailor", "extract"} IN
  /\ call[c].pc = "audit"
  /\ \/ ~gone /\ ~MadeUp(c) /\ Audits(c, "succeeded") /\ Ends(c, Told(c))
     \/ ~gone /\ MadeUp(c) /\ UNCHANGED audit /\ Ends(c, Told(c))
     \/ (gone \/ MadeUp(c)) /\ UNCHANGED audit /\ Ends(c, "raised")
  /\ UNCHANGED <<stored, disk, profile, crashes>>

----------------------------------------------------------------------------

DeleteProfile ==
  /\ profile /\ profile' = FALSE
  /\ UNCHANGED <<call, stored, audit, disk, crashes>>

\* The process stops: the calls at work are cut off.
Crash ==
  /\ crashes < MaxCrashes
  /\ crashes' = crashes + 1
  /\ call' = [c \in Calls |-> IF call[c].pc \in {"new", "ended"} THEN call[c]
                              ELSE [call[c] EXCEPT !.pc = "ended", !.told = "cut"]]
  /\ UNCHANGED <<stored, audit, disk, profile>>

Step(c) ==
  \/ Unavailable(c)
  \/ \E step \in Steps : call[c].step = step /\ \E a \in Answers(step) : Answered(c, a)
  \/ StoreRow(c) \/ Cancelled(c) \/ WriteResume(c) \/ StoreResume(c)
  \/ WriteHtml(c) \/ Render(c) \/ StoreBeautified(c)
  \/ AuditSuccess(c)

Next ==
  \/ \E c \in Calls : Step(c) \/ \E step \in Steps, client \in Clients : Start(c, step, client)
  \/ DeleteProfile
  \/ Crash

Spec == Init /\ [][Next]_vars

----------------------------------------------------------------------------
(* Properties.                                                              *)

\* The values the tables can hold: only calls that have ended are audited, and
\* only beautifications have HTML.
TypeOK ==
  /\ \A c \in Calls :
       /\ call[c].pc \in {"new", "llm", "store", "render", "commit", "audit", "ended"}
       /\ call[c].step \in Steps \cup {"none"}
       /\ call[c].told \in {"none", "failed", "succeeded", "no_pdf", "raised",
                            "cancelled", "unsaved", "unread", "cut"}
       /\ (call[c].told = "none") = (call[c].pc # "ended")
       /\ audit[c] # "none" => call[c].pc = "ended"
  /\ audit \in [Calls -> {"none", "failed", "succeeded"}]
  /\ \A c \in html : call[c].step = "beautify"
  /\ \A c \in pdf : call[c].step \in {"tailor", "beautify"}

\* What is stored needs no further cleaning: its texts and lists are within
\* bounds and without blanks at their ends, a score and a document are there,
\* and an extraction says something.
StoredClean ==
  \A c \in stored :
    LET p == call[c].value.fields IN
    /\ \A f \in DOMAIN p \ {"tokens"} : p[f] \in {"ok", "none", "absent", "invented"}
    /\ \A f \in DOMAIN p \cap {"score", "doc"} : p[f] \in {"ok", "invented"}
    /\ \E f \in DOMAIN p \ {"tokens"} : p[f] \notin {"absent", "none"}
    /\ call[c].step = "beautify" => p.doc = "ok"

\* The audit log tells the truth about the tables and the callers: a row that
\* says succeeded is about a stored result, one that says failed about one that
\* is not, and a call whose caller has an answer is audited with the same
\* status, while the profile is there and the model has not made up token
\* counts.  Calls that raise, are cancelled or are cut off may leave nothing.
AuditTrue ==
  \A c \in Calls :
    /\ audit[c] = "succeeded" => c \in stored
    /\ audit[c] = "failed" => c \notin stored
    /\ profile /\ ~(c \in stored /\ MadeUp(c)) =>
         /\ call[c].told = "failed" => audit[c] = "failed"
         /\ call[c].told \in {"succeeded", "no_pdf"} => audit[c] = "succeeded"

\* Rows and files: a stored resume has its PDF, a stored beautification its HTML
\* and, when the row names it, its PDF; and files without a row come only from a
\* call that was cancelled, failed to save, raised or was cut off.
FilesAccounted ==
  /\ \A c \in stored :
       /\ call[c].step = "tailor" => c \in pdf
       /\ call[c].step = "beautify" => c \in html /\ (c \in linked => c \in pdf)
  /\ \A c \in (html \cup pdf) \ stored :
       call[c].pc \in {"render", "commit"}
         \/ call[c].told \in {"cancelled", "unsaved", "raised", "cut"}

\* A result that is stored and reported as an error is one that could not be
\* read back after its commit, or whose audit broke off: the profile went, the
\* model made up token counts, or the process stopped.
StoredIsReported ==
  \A c \in stored :
    call[c].pc = "ended" =>
      \/ call[c].told \in {"succeeded", "no_pdf"}
      \/ call[c].step \in {"tailor", "extract"} /\ ~profile
      \/ MadeUp(c)
      \/ call[c].told \in {"unread", "cut"}
=============================================================================
