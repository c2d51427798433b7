------------------------- MODULE EvaluatePageProofs ---------------------------
(***************************************************************************)
(* Theorems about the evaluate page, for every number of evaluations, of   *)
(* failing requests, of saved revisions and of requests in flight.         *)
(***************************************************************************)
EXTENDS EvaluatePage, TLAPS

----------------------------------------------------------------------------
(* Requests in flight.                                                     *)

Kinds == {"idle", "score", "submit", "evaluate", "tailoring", "history", "open", "revise"}
States == {"none", "active", "succeeded", "failed"}

\* A request that is about an evaluation.
Sound(r) ==
  /\ r \in Requests
  /\ r.kind # "idle" => r.of # 0
  /\ r.kind = "revise" => r.text # 0

LEMMA IdleIsSound == Sound(Idle) /\ Idle.kind = "idle"
BY EvaluatePageAssumption DEF Sound, Idle, Requests, NoTimer

LEMMA StatusType ==
  ASSUME TypeOK, NEW e \in Evaluations, NEW kind
  PROVE  Status(kind, e) \in States
BY DEF Status, TypeOK, States

\* What the page sends.
LEMMA RequestIsSound ==
  ASSUME TypeOK, NEW kind \in Kinds, NEW e \in Evaluations,
         NEW by \in Timers \cup {NoTimer}, kind # "revise"
  PROVE  LET r == Request(kind, e, by) IN
         /\ Sound(r)
         /\ r.kind = kind /\ r.of = e /\ r.by = by /\ r.sent = Status(kind, e)
<1>1. Status(kind, e) \in States
  BY StatusType
<1>. QED
  BY <1>1, EvaluatePageAssumption
  DEF Request, Sound, Requests, Kinds, States, Evaluations

LEMMA SubmissionIsSound ==
  ASSUME TypeOK, NEW kind \in {"score", "submit"}, NEW e \in Evaluations
  PROVE  LET r == [Request(kind, e, NoTimer) EXCEPT !.sent = "active"] IN
         Sound(r) /\ r.kind = kind /\ r.of = e
BY EvaluatePageAssumption DEF Request, Sound, Requests, Kinds, States, Evaluations

LEMMA RevisionIsSound ==
  ASSUME TypeOK, current # 0, editor # 0
  PROVE  LET r == [Request("revise", current, NoTimer) EXCEPT !.text = editor] IN
         Sound(r) /\ r.kind = "revise" /\ r.of = current /\ r.text = editor
<1>1. current \in Evaluations /\ editor \in Evaluations
  BY EvaluatePageAssumption DEF TypeOK, Evaluations
<1>2. Status("revise", current) \in States
  BY <1>1, StatusType
<1>. QED
  BY <1>1, <1>2, EvaluatePageAssumption
  DEF Request, Sound, Requests, Kinds, States, Evaluations

\* The request that a poll starts with.
LEMMA PollIsSound ==
  ASSUME TypeOK, NEW t \in Timers
  PROVE  LET r == [kind |-> t.kind, of |-> t.of, sent |-> Status(t.kind, t.of),
                   by |-> t, text |-> 0] IN
         /\ Sound(r)
         /\ r.kind = t.kind /\ r.of = t.of /\ r.by = t /\ r.sent = Status(t.kind, t.of)
<1>1. t.of \in Evaluations /\ t.kind \in {"evaluate", "tailoring", "history"}
  BY DEF Timers
<1>2. Status(t.kind, t.of) \in States
  BY <1>1, StatusType
<1>. QED
  BY <1>1, <1>2, EvaluatePageAssumption DEF Sound, Requests, States, Evaluations

\* The answer that starts a poll leaves the first request of the poll.
LEMMA PollStarts ==
  ASSUME TypeOK, NEW s \in Slots, NEW t \in Timers, StartsPoll(s, t)
  PROVE  /\ timer' = t /\ intervals' = (intervals \ {timer}) \cup {t}
         /\ \E r : /\ Sends(s, r) /\ Sound(r)
                   /\ r.kind = t.kind /\ r.of = t.of /\ r.by = t
                   /\ r.sent = Status(t.kind, t.of)
<1>1. Sends(s, [kind |-> t.kind, of |-> t.of, sent |-> Status(t.kind, t.of),
                by |-> t, text |-> 0])
  BY DEF StartsPoll
<1>. QED BY <1>1, PollIsSound DEF StartsPoll

LEMMA TimerRecords ==
  ASSUME NEW e \in Evaluations, NEW kind \in {"evaluate", "tailoring", "history"}
  PROVE  LET t == [kind |-> kind, of |-> e] IN
         t \in Timers /\ t.kind = kind /\ t.of = e /\ t # NoTimer
BY DEF Timers, NoTimer

\* The slot of a request is the only one that changes.
LEMMA SlotChanges ==
  ASSUME TypeOK, NEW s \in Slots, NEW r, Sends(s, r)
  PROVE  /\ \A t \in Slots : flight'[t] = IF t = s THEN r ELSE flight[t]
         /\ Sound(r) =>
              /\ flight' \in [Slots -> Requests]
              /\ \A t \in Slots : /\ flight'[t].kind # "idle" => flight'[t].of # 0
                                  /\ flight'[t].kind = "revise" => flight'[t].text # 0
<1>1. flight \in [Slots -> Requests] /\ flight' = [flight EXCEPT ![s] = r]
  BY DEF Sends, TypeOK
<1>2. \A t \in Slots : flight'[t] = IF t = s THEN r ELSE flight[t]
  BY <1>1
<1>3. ASSUME Sound(r)
      PROVE  flight' \in [Slots -> Requests]
  BY <1>1, <1>3 DEF Sound
<1>4. \A t \in Slots : /\ flight[t].kind # "idle" => flight[t].of # 0
                       /\ flight[t].kind = "revise" => flight[t].text # 0
  BY DEF TypeOK
<1>. QED BY <1>2, <1>3, <1>4 DEF Sound

\* A request in flight is sound.
LEMMA InFlight ==
  ASSUME TypeOK, NEW s \in Slots
  PROVE  /\ Sound(flight[s]) /\ flight[s].kind \in Kinds
         /\ flight[s].kind # "idle" => flight[s].of \in Evaluations
         /\ flight[s].by \in Timers \cup {NoTimer}
<1>1. flight[s] \in Requests
  BY DEF TypeOK
<1>2. /\ flight[s].kind # "idle" => flight[s].of # 0
      /\ flight[s].kind = "revise" => flight[s].text # 0
  BY DEF TypeOK
<1>3. flight[s].kind \in Kinds /\ flight[s].of \in 0..MaxEvaluations
      /\ flight[s].by \in Timers \cup {NoTimer}
  BY <1>1 DEF Requests, Kinds
<1>. QED BY <1>1, <1>2, <1>3, EvaluatePageAssumption DEF Sound, Evaluations

----------------------------------------------------------------------------
(* Type correctness.                                                       *)

LEMMA InitTypeOK == Init => TypeOK
<1>1. Idle \in Requests /\ Idle.kind = "idle"
  BY IdleIsSound DEF Sound
<1>2. Init => flight \in [Slots -> Requests] /\ \A s \in Slots : flight[s].kind = "idle"
  BY <1>1 DEF Init
<1>3. Init => /\ job \in [Evaluations -> {"none", "active", "succeeded", "failed"}]
              /\ draft \in [Evaluations -> {"none", "active", "succeeded", "failed"}]
  BY DEF Init
<1>4. Init => button \in BOOLEAN /\ late \in BOOLEAN /\ switched \in BOOLEAN
  BY Zenon DEF Init
<1>5. Init => /\ clicks \in 0..MaxEvaluations /\ errors \in 0..MaxErrors
              /\ result \in 0..MaxEvaluations /\ mark = "none"
              /\ timer = NoTimer /\ intervals = {} /\ saved = {}
              /\ current \in 0..MaxEvaluations /\ editor \in 0..MaxEvaluations
  BY EvaluatePageAssumption DEF Init
<1>. QED BY <1>2, <1>3, <1>4, <1>5 DEF TypeOK

FlightOK ==
  /\ flight \in [Slots -> Requests]
  /\ \A s \in Slots : /\ flight[s].kind # "idle" => flight[s].of # 0
                      /\ flight[s].kind = "revise" => flight[s].text # 0

LEMMA Dispatch ==
  ASSUME TypeOK, NEW s \in Slots
  PROVE  /\ \A r : Sends(s, r) /\ Sound(r) => FlightOK'
         /\ Handled(s) => FlightOK'
         /\ \A t \in Timers : StartsPoll(s, t) =>
              FlightOK' /\ timer' \in Timers /\ intervals' \subseteq Timers
<1>1. ASSUME NEW r, Sends(s, r), Sound(r)
      PROVE  FlightOK'
  BY <1>1, SlotChanges DEF FlightOK
<1>2. Handled(s) => FlightOK'
  BY <1>1, IdleIsSound DEF Handled
<1>3. ASSUME NEW t \in Timers, StartsPoll(s, t)
      PROVE  FlightOK' /\ timer' \in Timers /\ intervals' \subseteq Timers
  <2>1. intervals \subseteq Timers
    BY DEF TypeOK
  <2>. QED BY <1>1, <1>3, <2>1, PollStarts
<1>. QED BY <1>1, <1>2, <1>3

LEMMA EndsTypeOK ==
  ASSUME TypeOK, NEW s \in Slots, Ends(s)
  PROVE  TypeOK'
<1>. DEFINE e == flight[s].of
<1>. USE EvaluatePageAssumption
<1>1. flight[s].kind # "idle" => e \in Evaluations /\ e \in 0..MaxEvaluations
  BY InFlight DEF Evaluations
<1>2. StopPoll => timer' \in Timers \cup {NoTimer} /\ intervals' \subseteq Timers
  BY DEF StopPoll, TypeOK
<1>3. Errs => errors' \in 0..MaxErrors
  BY DEF Errs, TypeOK
<1>4. ASSUME NEW r, Notes(r)
      PROVE  late' \in BOOLEAN
  BY <1>4 DEF Notes, IsLate, TypeOK
<1>5. ASSUME e \in Evaluations, RenderEvalResult(s, e)
      PROVE  /\ FlightOK' /\ result' = e /\ mark' \in {"none", "spinner"}
             /\ timer' \in Timers \cup {NoTimer} /\ intervals' \subseteq Timers
  <2>. HIDE DEF e
  <2>1. ASSUME NEW kind \in {"tailoring", "history"},
               StartsPoll(s, [kind |-> kind, of |-> e])
        PROVE  FlightOK' /\ timer' \in Timers /\ intervals' \subseteq Timers
    BY <1>5, <2>1, TimerRecords, Dispatch
  <2>2. CASE draft[e] = "none"
    BY <1>5, <2>2, Dispatch DEF RenderEvalResult, polls, TypeOK
  <2>3. CASE draft[e] # "none"
    BY <1>5, <2>1, <2>3 DEF RenderEvalResult
  <2>. QED BY <2>2, <2>3
<1>6. CASE ScoreAnswer(s)
  <2>1. e \in Evaluations
    BY <1>1, <1>6 DEF ScoreAnswer
  <2>2. FlightOK' /\ errors' \in 0..MaxErrors /\ button' \in BOOLEAN
    BY <1>3, <1>5, <1>6, <2>1, Dispatch DEF ScoreAnswer, TypeOK
  <2>3. /\ result' \in 0..MaxEvaluations /\ mark' \in {"none", "spinner", "done"}
        /\ timer' \in Timers \cup {NoTimer} /\ intervals' \subseteq Timers
    BY <1>1, <1>5, <1>6, <2>1 DEF ScoreAnswer, TypeOK, polls
  <2>. QED BY <1>6, <2>2, <2>3 DEF ScoreAnswer, TypeOK, FlightOK, server, resume
<1>7. CASE SubmitAnswer(s)
  <2>1. e \in Evaluations
    BY <1>1, <1>7 DEF SubmitAnswer
  <2>2. StartsPoll(s, [kind |-> "evaluate", of |-> e]) =>
          FlightOK' /\ timer' \in Timers /\ intervals' \subseteq Timers
    BY <2>1, TimerRecords, Dispatch
  <2>3. /\ FlightOK' /\ errors' \in 0..MaxErrors /\ button' \in BOOLEAN
        /\ timer' \in Timers \cup {NoTimer} /\ intervals' \subseteq Timers
    BY <1>3, <1>7, <2>2, Dispatch DEF SubmitAnswer, TypeOK, polls
  <2>. QED BY <1>7, <2>3 DEF SubmitAnswer, TypeOK, FlightOK, server, resume
<1>8. CASE EvaluateRuns(s)
  BY <1>8, Dispatch
  DEF EvaluateRuns, TypeOK, FlightOK, server, shown, polls, resume
<1>9. CASE EvaluateStops(s)
  <2>1. FlightOK' /\ errors' \in 0..MaxErrors /\ late' \in BOOLEAN
        /\ timer' \in Timers \cup {NoTimer} /\ intervals' \subseteq Timers
    BY <1>2, <1>3, <1>4, <1>9, Dispatch DEF EvaluateStops, TypeOK
  <2>. QED BY <1>9, <2>1 DEF EvaluateStops, TypeOK, FlightOK, server, resume
<1>10. CASE EvaluateEnds(s)
  <2>1. e \in Evaluations /\ e \in 0..MaxEvaluations
    BY <1>1, <1>10 DEF EvaluateEnds
  <2>2. /\ FlightOK' /\ late' \in BOOLEAN
        /\ result' = e /\ mark' \in {"none", "spinner"}
        /\ timer' \in Timers \cup {NoTimer} /\ intervals' \subseteq Timers
    BY <1>2, <1>4, <1>5, <1>10, <2>1, Dispatch DEF EvaluateEnds
  <2>. HIDE DEF e
  <2>. QED BY <1>10, <2>1, <2>2 DEF EvaluateEnds, TypeOK, FlightOK, server, resume
<1>11. CASE TailoringRuns(s)
  <2>1. FlightOK' /\ errors' \in 0..MaxErrors
    BY <1>3, <1>11, Dispatch DEF TailoringRuns, TypeOK
  <2>. QED BY <1>11, <2>1
       DEF TailoringRuns, TypeOK, FlightOK, server, shown, polls, resume
<1>12. CASE TailoringFails(s)
  <2>1. FlightOK' /\ late' \in BOOLEAN
        /\ timer' \in Timers \cup {NoTimer} /\ intervals' \subseteq Timers
    BY <1>2, <1>4, <1>12, Dispatch DEF TailoringFails
  <2>. QED BY <1>12, <2>1 DEF TailoringFails, TypeOK, FlightOK, server, resume
<1>13. CASE TailoringSucceeds(s)
  <2>1. e \in Evaluations /\ "history" \in Kinds /\ flight[s].by \in Timers \cup {NoTimer}
    BY <1>1, <1>13, InFlight DEF TailoringSucceeds, Kinds
  <2>2. Sound(Request("history", e, flight[s].by))
    BY <2>1, RequestIsSound
  <2>3. FlightOK'
    BY <1>13, <2>2, Dispatch DEF TailoringSucceeds
  <2>. QED BY <1>13, <2>3
       DEF TailoringSucceeds, TypeOK, FlightOK, server, shown, polls, resume
<1>14. CASE ApplyTailoringHistory(s)
  <2>1. FlightOK' /\ late' \in BOOLEAN
        /\ timer' \in Timers \cup {NoTimer} /\ intervals' \subseteq Timers
    BY <1>2, <1>4, <1>14, Dispatch DEF ApplyTailoringHistory
  <2>2. current' \in 0..MaxEvaluations /\ switched' \in BOOLEAN
    BY <1>1, <1>14 DEF ApplyTailoringHistory, Switches, TypeOK
  <2>. QED BY <1>14, <2>1, <2>2 DEF ApplyTailoringHistory, TypeOK, FlightOK, server
<1>15. CASE Opens(s)
  <2>1. current' \in 0..MaxEvaluations /\ switched' \in BOOLEAN /\ FlightOK'
    BY <1>1, <1>15, Dispatch DEF Opens, TypeOK
  <2>. QED BY <1>15, <2>1 DEF Opens, TypeOK, FlightOK, server, shown, polls
<1>16. CASE FetchFails(s)
  <2>1. FlightOK' /\ errors' \in 0..MaxErrors
    BY <1>3, <1>16, Dispatch DEF FetchFails
  <2>. QED BY <1>16, <2>1
       DEF FetchFails, TypeOK, FlightOK, server, shown, polls, resume
<1>17. CASE Revised(s)
  <2>1. e \in Evaluations /\ e \in 0..MaxEvaluations
    BY <1>1, <1>17 DEF Revised
  <2>2. flight[s].text \in Evaluations
    <3>1. flight[s] \in Requests /\ flight[s].text # 0
      BY <1>17, InFlight DEF Revised, Sound
    <3>. QED BY <3>1 DEF Requests, Evaluations
  <2>3. FlightOK' /\ errors' \in 0..MaxErrors
    BY <1>3, <1>17, Dispatch DEF Revised, TypeOK
  <2>4. /\ saved' \subseteq Evaluations \X Evaluations
        /\ current' \in 0..MaxEvaluations /\ editor' \in 0..MaxEvaluations
    BY <1>17, <2>1, <2>2 DEF Revised, TypeOK
  <2>. QED BY <1>17, <2>3, <2>4 DEF Revised, TypeOK, FlightOK, server, shown, polls
<1>. QED
  BY <1>6, <1>7, <1>8, <1>9, <1>10, <1>11, <1>12, <1>13, <1>14, <1>15, <1>16, <1>17
  DEF Ends

LEMMA NextTypeOK == TypeOK /\ [Next]_vars => TypeOK'
<1>. SUFFICES ASSUME TypeOK, [Next]_vars PROVE TypeOK'
  OBVIOUS
<1>. USE EvaluatePageAssumption
<1>1. ASSUME NEW e \in Evaluations, Evaluates(e) \/ Tailors(e)
      PROVE  TypeOK'
  <2>1. /\ job' \in [Evaluations -> States] /\ draft' \in [Evaluations -> States]
    BY <1>1 DEF Evaluates, Tailors, TypeOK, States
  <2>. QED BY <1>1, <2>1
       DEF Evaluates, Tailors, TypeOK, States, shown, polls, resume
<1>2. ASSUME NEW s \in Slots, NEW kind \in {"score", "submit"}, RunEvaluate(s, kind)
      PROVE  TypeOK'
  <2>1. clicks + 1 \in Evaluations /\ clicks' \in 0..MaxEvaluations
    BY <1>2 DEF RunEvaluate, TypeOK, Evaluations
  <2>2. FlightOK'
    BY <1>2, <2>1, SubmissionIsSound, Dispatch DEF RunEvaluate
  <2>3. job' \in [Evaluations -> States]
    BY <1>2 DEF RunEvaluate, TypeOK, States
  <2>4. timer' \in Timers \cup {NoTimer} /\ intervals' \subseteq Timers
    BY <1>2 DEF RunEvaluate, StopPoll, TypeOK
  <2>5. /\ draft' \in [Evaluations -> States] /\ errors' \in 0..MaxErrors
        /\ result' \in 0..MaxEvaluations /\ mark' \in {"none", "spinner", "done"}
    BY <1>2 DEF RunEvaluate, TypeOK, States
  <2>7. button' \in BOOLEAN /\ late' \in BOOLEAN
    BY <1>2, Zenon DEF RunEvaluate, TypeOK
  <2>6. /\ current' \in 0..MaxEvaluations /\ editor' \in 0..MaxEvaluations
        /\ saved' \subseteq Evaluations \X Evaluations /\ switched' \in BOOLEAN
    BY <1>2 DEF RunEvaluate, TypeOK, resume
  <2>. QED BY <2>1, <2>2, <2>3, <2>4, <2>5, <2>6, <2>7 DEF TypeOK, FlightOK, States
<1>3. ASSUME NEW s \in Slots, Ends(s)
      PROVE  TypeOK'
  BY <1>3, EndsTypeOK
<1>4. ASSUME NEW s \in Slots, NEW t \in Timers, Tick(s, t)
      PROVE  TypeOK'
  <2>1. t.kind \in Kinds /\ t.kind # "revise" /\ t.of \in Evaluations
    BY DEF Timers, Kinds
  <2>2. Sound(Request(t.kind, t.of, t))
    BY <2>1, RequestIsSound
  <2>3. FlightOK'
    BY <1>4, <2>2, Dispatch DEF Tick
  <2>. QED BY <1>4, <2>3 DEF Tick, TypeOK, FlightOK, server, shown, polls, resume
<1>5. ASSUME NEW s \in Slots, NEW e \in Evaluations, Fetch(s, e)
      PROVE  TypeOK'
  <2>1. Sound(Request("open", e, NoTimer))
    BY RequestIsSound DEF Kinds
  <2>2. FlightOK'
    BY <1>5, <2>1, Dispatch DEF Fetch
  <2>. QED BY <1>5, <2>2 DEF Fetch, TypeOK, FlightOK, server, shown, polls, resume
<1>6. CASE OpenModal
  BY <1>6 DEF OpenModal, TypeOK, server, shown, polls
<1>7. CASE ToggleResumeEditor
  BY <1>7 DEF ToggleResumeEditor, TypeOK, server, shown, polls
<1>8. ASSUME NEW s \in Slots, SaveResumeRevision(s)
      PROVE  TypeOK'
  <2>1. FlightOK'
    BY <1>8, RevisionIsSound, Dispatch DEF SaveResumeRevision
  <2>. QED BY <1>8, <2>1
       DEF SaveResumeRevision, TypeOK, FlightOK, server, shown, polls, resume
<1>9. CASE UNCHANGED vars
  BY <1>9 DEF vars, TypeOK, server, shown, polls, resume
<1>. QED BY <1>1, <1>2, <1>3, <1>4, <1>5, <1>6, <1>7, <1>8, <1>9 DEF Next

\* Everything the page keeps is of its type, and a request in flight is about
\* an evaluation.
THEOREM TypeCorrect == Spec => []TypeOK
BY InitTypeOK, NextTypeOK, PTL DEF Spec

----------------------------------------------------------------------------
(* One interval.                                                           *)

LEMMA NextOneInterval == OneInterval /\ [Next]_vars => OneInterval'
<1>. SUFFICES ASSUME OneInterval, [Next]_vars PROVE OneInterval'
  OBVIOUS
<1>1. StopPoll => OneInterval'
  BY DEF StopPoll, OneInterval
<1>2. UNCHANGED polls => OneInterval'
  BY DEF polls, OneInterval
<1>3. ASSUME NEW s, NEW t, StartsPoll(s, t)
      PROVE  OneInterval'
  BY <1>3 DEF StartsPoll, OneInterval
<1>4. ASSUME NEW s, NEW e, RenderEvalResult(s, e)
      PROVE  OneInterval'
  BY <1>2, <1>3, <1>4 DEF RenderEvalResult
<1>5. ASSUME NEW s \in Slots, Ends(s)
      PROVE  OneInterval'
  BY <1>1, <1>2, <1>3, <1>4, <1>5
  DEF Ends, ScoreAnswer, SubmitAnswer, EvaluateRuns, EvaluateStops, EvaluateEnds,
      TailoringRuns, TailoringFails, TailoringSucceeds, ApplyTailoringHistory, Opens,
      FetchFails, Revised
<1>6. ASSUME NEW s \in Slots, NEW kind \in {"score", "submit"}, RunEvaluate(s, kind)
      PROVE  OneInterval'
  BY <1>1, <1>6 DEF RunEvaluate
<1>7. CASE UNCHANGED vars
  BY <1>2, <1>7 DEF vars
<1>. QED
  BY <1>2, <1>5, <1>6, <1>7
  DEF Next, Evaluates, Tailors, Tick, Fetch, OpenModal, ToggleResumeEditor,
      SaveResumeRevision

\* Whatever the order of the answers, the page never polls from an interval that
\* its timer does not name, and that nothing could stop.
THEOREM OneIntervalOnly == Spec => []OneInterval
<1>1. Init => OneInterval
  BY DEF Init, OneInterval
<1>. QED BY <1>1, NextOneInterval, PTL DEF Spec

----------------------------------------------------------------------------
(* Where a revision is saved.                                              *)

\* While the current resume has not changed under the editor, the editor and
\* the revisions on their way hold its text.
EditorCurrent ==
  ~switched =>
    /\ editor # 0 => editor = current
    /\ \A s \in Slots : flight[s].kind = "revise" => flight[s].text = flight[s].of
    /\ \A r \in saved : r[1] = r[2]

\* Nothing the editor depends on changes, except that a request that is not a
\* revision is sent or handled.
LEMMA EditorUnmoved ==
  ASSUME TypeOK, EditorCurrent, UNCHANGED resume,
         \/ UNCHANGED flight
         \/ \E s \in Slots : \E r : Sends(s, r) /\ r.kind # "revise"
  PROVE  EditorCurrent'
<1>1. CASE UNCHANGED flight
  BY <1>1 DEF EditorCurrent, resume
<1>2. ASSUME NEW s \in Slots, NEW r, Sends(s, r), r.kind # "revise"
      PROVE  EditorCurrent'
  <2>1. \A t \in Slots : flight'[t] = IF t = s THEN r ELSE flight[t]
    BY <1>2, SlotChanges
  <2>. QED BY <1>2, <2>1 DEF EditorCurrent, resume
<1>. QED BY <1>1, <1>2

LEMMA NextEditorCurrent == TypeOK /\ EditorCurrent /\ [Next]_vars => EditorCurrent'
<1>. SUFFICES ASSUME TypeOK, EditorCurrent, [Next]_vars PROVE EditorCurrent'
  OBVIOUS
<1>1. \A s : Handled(s) => \E r : Sends(s, r) /\ r.kind # "revise"
  BY IdleIsSound DEF Handled
<1>2. ASSUME NEW s \in Slots, NEW t \in Timers, StartsPoll(s, t)
      PROVE  \E r : Sends(s, r) /\ r.kind # "revise"
  BY <1>2, PollStarts DEF Timers
<1>3. ASSUME NEW s \in Slots, NEW e \in Evaluations, RenderEvalResult(s, e)
      PROVE  \E r : Sends(s, r) /\ r.kind # "revise"
  <2>1. \A kind \in {"tailoring", "history"} :
          StartsPoll(s, [kind |-> kind, of |-> e]) =>
            \E r : Sends(s, r) /\ r.kind # "revise"
    BY <1>2, TimerRecords
  <2>. QED BY <1>1, <1>3, <2>1 DEF RenderEvalResult
<1>4. ASSUME NEW s \in Slots, Ends(s)
      PROVE  EditorCurrent'
  <2>. DEFINE e == flight[s].of
  <2>1. flight[s].kind # "idle" => e \in Evaluations
    BY InFlight
  <2>2. Handled(s) => \A t \in Slots : /\ flight'[t].kind = "revise" =>
                                             t # s /\ flight'[t] = flight[t]
    BY IdleIsSound, SlotChanges DEF Handled
  <2>3. CASE ApplyTailoringHistory(s)
    BY <2>2, <2>3 DEF ApplyTailoringHistory, Switches, EditorCurrent
  <2>4. CASE Opens(s)
    BY <2>2, <2>4 DEF Opens, EditorCurrent
  <2>5. CASE Revised(s)
    <3>1. CASE UNCHANGED <<current, editor, saved>>
      BY <2>2, <2>5, <3>1 DEF Revised, EditorCurrent
    <3>2. CASE /\ saved' = saved \cup {<<flight[s].text, flight[s].of>>}
               /\ current' = flight[s].of /\ editor' = 0
      BY <2>2, <2>5, <3>2 DEF Revised, EditorCurrent
    <3>. QED BY <2>5, <3>1, <3>2 DEF Revised
  <2>6. CASE SubmitAnswer(s)
    <3>1. [kind |-> "evaluate", of |-> e] \in Timers
      BY <2>1, <2>6, TimerRecords DEF SubmitAnswer
    <3>2. \E r : Sends(s, r) /\ r.kind # "revise"
      BY <1>1, <1>2, <2>6, <3>1 DEF SubmitAnswer
    <3>. QED BY <2>6, <3>2, EditorUnmoved DEF SubmitAnswer
  <2>7. CASE TailoringSucceeds(s)
    <3>1. Request("history", e, flight[s].by).kind # "revise"
      BY DEF Request
    <3>. QED BY <2>7, <3>1, EditorUnmoved DEF TailoringSucceeds
  <2>8. CASE ScoreAnswer(s) \/ EvaluateEnds(s)
    <3>1. e \in Evaluations
      BY <2>1, <2>8 DEF ScoreAnswer, EvaluateEnds
    <3>2. \E r : Sends(s, r) /\ r.kind # "revise"
      <4>. HIDE DEF e
      <4>1. Handled(s) \/ RenderEvalResult(s, e)
        BY <2>8 DEF e, ScoreAnswer, EvaluateEnds
      <4>. QED BY <1>1, <1>3, <3>1, <4>1
    <3>3. UNCHANGED resume
      BY <2>8 DEF ScoreAnswer, EvaluateEnds
    <3>. QED BY <3>2, <3>3, EditorUnmoved
  <2>9. CASE \/ EvaluateRuns(s) \/ EvaluateStops(s) \/ TailoringRuns(s)
             \/ TailoringFails(s) \/ FetchFails(s)
    <3>1. Handled(s) /\ UNCHANGED resume
      BY <2>9 DEF EvaluateRuns, EvaluateStops, TailoringRuns, TailoringFails, FetchFails
    <3>. QED BY <1>1, <3>1, EditorUnmoved
  <2>. QED BY <1>4, <2>3, <2>4, <2>5, <2>6, <2>7, <2>8, <2>9 DEF Ends
<1>5. ASSUME NEW s \in Slots, NEW kind \in {"score", "submit"}, RunEvaluate(s, kind)
      PROVE  EditorCurrent'
  <2>1. clicks + 1 \in Evaluations
    BY <1>5, EvaluatePageAssumption DEF RunEvaluate, TypeOK, Evaluations
  <2>2. \E r : Sends(s, r) /\ r.kind # "revise"
    BY <1>5, <2>1, SubmissionIsSound DEF RunEvaluate
  <2>. QED BY <1>5, <2>2, EditorUnmoved DEF RunEvaluate
<1>6. ASSUME NEW s \in Slots, NEW t \in Timers, Tick(s, t)
      PROVE  EditorCurrent'
  <2>1. Request(t.kind, t.of, t).kind # "revise"
    BY DEF Request, Timers
  <2>. QED BY <1>6, <2>1, EditorUnmoved DEF Tick
<1>7. ASSUME NEW s \in Slots, NEW e \in Evaluations, Fetch(s, e)
      PROVE  EditorCurrent'
  <2>1. Request("open", e, NoTimer).kind # "revise"
    BY DEF Request
  <2>. QED BY <1>7, <2>1, EditorUnmoved DEF Fetch
<1>8. CASE OpenModal \/ ToggleResumeEditor
  BY <1>8 DEF OpenModal, ToggleResumeEditor, EditorCurrent
<1>9. ASSUME NEW s \in Slots, SaveResumeRevision(s)
      PROVE  EditorCurrent'
  <2>. DEFINE r == [Request("revise", current, NoTimer) EXCEPT !.text = editor]
  <2>1. r.of = current /\ r.text = editor /\ Sends(s, r)
    BY <1>9, RevisionIsSound DEF SaveResumeRevision
  <2>2. \A t \in Slots : flight'[t] = IF t = s THEN r ELSE flight[t]
    BY <2>1, SlotChanges
  <2>. HIDE DEF r
  <2>. QED BY <1>9, <2>1, <2>2 DEF SaveResumeRevision, EditorCurrent, resume
<1>10. CASE \E e \in Evaluations : Evaluates(e) \/ Tailors(e)
  BY <1>10, EditorUnmoved DEF Evaluates, Tailors
<1>11. CASE UNCHANGED vars
  BY <1>11, EditorUnmoved DEF vars
<1>. QED
  BY <1>4, <1>5, <1>6, <1>7, <1>8, <1>9, <1>10, <1>11 DEF Next

\* A revision holds the text of the resume it revises, unless the current resume
\* changed under the open editor or under the request that saves it.
THEOREM SavedIsWhereEdited == Spec => []SavedWhereEdited
<1>1. Init => EditorCurrent
  BY IdleIsSound DEF Init, EditorCurrent
<1>2. EditorCurrent => SavedWhereEdited
  BY DEF EditorCurrent, SavedWhereEdited
<1>. QED BY <1>1, <1>2, NextEditorCurrent, TypeCorrect, PTL DEF Spec

----------------------------------------------------------------------------
(* The tailoring that is displayed.                                        *)

Polling == {"evaluate", "tailoring", "history"}
Submitting == {"score", "submit"}

\* A poll is about the evaluation of its timer.
Polled(r) ==
  r.kind \in Polling =>
    r.by \in Timers /\ r.by.of = r.of /\ (r.kind = "evaluate" <=> r.by.kind = "evaluate")

PollsKnown == \A s \in Slots : Polled(flight[s])

\* What a poll has read stays true: a draft that has succeeded is final, and an
\* evaluation that has not been asked for, or not ended, has no draft.
DraftsKnown ==
  /\ \A s \in Slots :
       flight[s].kind \in {"tailoring", "history"} /\ flight[s].sent = "succeeded" =>
         draft[flight[s].of] = "succeeded"
  /\ \A e \in Evaluations : /\ job[e] # "succeeded" => draft[e] = "none"
                            /\ e > clicks => job[e] = "none"

\* While a description is being posted, nothing is polled or displayed, and no
\* other one is posted.
OneSubmission ==
  ~late =>
    \A s \in Slots : flight[s].kind \in Submitting =>
      /\ ~button /\ timer = NoTimer /\ result = 0
      /\ \A t \in Slots : flight[t].kind \in Submitting => t = s

\* An evaluation is polled when no result is displayed, a tailoring when its
\* result is.
TimerOfResult ==
  ~late /\ timer # NoTimer =>
    IF timer.kind = "evaluate" THEN result = 0 ELSE timer.of = result

\* A step sends at most one poll, that of a timer, which reads the server.
LEMMA StepPolls ==
  ASSUME TypeOK, PollsKnown, [Next]_vars
  PROVE  \/ UNCHANGED flight
         \/ \E s \in Slots : \E r :
              /\ Sends(s, r) /\ Polled(r)
              /\ r.kind \in Polling => r.sent = Status(r.kind, r.of) /\ UNCHANGED draft
<1>. DEFINE Goal == \/ UNCHANGED flight
                    \/ \E s \in Slots : \E r :
                         /\ Sends(s, r) /\ Polled(r)
                         /\ r.kind \in Polling =>
                              r.sent = Status(r.kind, r.of) /\ UNCHANGED draft
<1>1. ASSUME NEW s \in Slots, NEW r, Sends(s, r), r.kind \notin Polling
      PROVE  Goal
  BY <1>1 DEF Polled
<1>2. ASSUME NEW s \in Slots, Handled(s)
      PROVE  Goal
  BY <1>1, <1>2, IdleIsSound DEF Handled, Polling
<1>3. ASSUME NEW s \in Slots, NEW t \in Timers, StartsPoll(s, t), UNCHANGED draft
      PROVE  Goal
  BY <1>3, PollStarts DEF Polled
<1>4. ASSUME NEW s \in Slots, Ends(s)
      PROVE  Goal
  <2>. DEFINE e == flight[s].of
  <2>1. flight[s].kind # "idle" => e \in Evaluations
    BY InFlight
  <2>2. UNCHANGED draft
    BY <1>4
    DEF Ends, ScoreAnswer, SubmitAnswer, EvaluateRuns, EvaluateStops, EvaluateEnds,
        TailoringRuns, TailoringFails, TailoringSucceeds, ApplyTailoringHistory, Opens,
        FetchFails, Revised, server
  <2>. HIDE DEF Goal
  <2>3. CASE SubmitAnswer(s)
    <3>1. [kind |-> "evaluate", of |-> e] \in Timers
      BY <2>1, <2>3, TimerRecords DEF SubmitAnswer
    <3>. QED BY <1>2, <1>3, <2>2, <2>3, <3>1 DEF SubmitAnswer
  <2>4. CASE ScoreAnswer(s) \/ EvaluateEnds(s)
    <3>1. e \in Evaluations
      BY <2>1, <2>4 DEF ScoreAnswer, EvaluateEnds
    <3>2. Handled(s) \/ RenderEvalResult(s, e)
      BY <2>4 DEF ScoreAnswer, EvaluateEnds
    <3>. HIDE DEF e
    <3>3. \A kind \in {"tailoring", "history"} : [kind |-> kind, of |-> e] \in Timers
      BY <3>1, TimerRecords
    <3>. QED BY <1>2, <1>3, <2>2, <3>2, <3>3 DEF RenderEvalResult
  <2>5. CASE TailoringSucceeds(s)
    <3>. DEFINE r == Request("history", e, flight[s].by)
    <3>1. e \in Evaluations /\ flight[s].by \in Timers \cup {NoTimer}
      BY <2>1, <2>5, InFlight DEF TailoringSucceeds
    <3>2. r.kind = "history" /\ r.of = e /\ r.by = flight[s].by /\ r.sent = Status("history", e)
      BY <3>1, RequestIsSound DEF Kinds
    <3>3. Sends(s, r)
      BY <2>5 DEF TailoringSucceeds
    <3>4. flight[s].by \in Timers /\ flight[s].by.of = e /\ flight[s].by.kind # "evaluate"
      BY <2>5 DEF TailoringSucceeds, PollsKnown, Polled, Polling
    <3>. HIDE DEF r
    <3>. QED BY <2>2, <3>2, <3>3, <3>4 DEF Goal, Polled, Polling
  <2>6. CASE Handled(s)
    BY <1>2, <2>6
  <2>. QED
    BY <1>4, <2>3, <2>4, <2>5, <2>6
    DEF Ends, EvaluateRuns, EvaluateStops, TailoringRuns, TailoringFails,
        ApplyTailoringHistory, Opens, FetchFails, Revised
<1>5. ASSUME NEW s \in Slots, NEW kind \in {"score", "submit"}, RunEvaluate(s, kind)
      PROVE  Goal
  <2>1. clicks + 1 \in Evaluations
    BY <1>5, EvaluatePageAssumption DEF RunEvaluate, TypeOK, Evaluations
  <2>. DEFINE r == [Request(kind, clicks + 1, NoTimer) EXCEPT !.sent = "active"]
  <2>2. Sends(s, r) /\ r.kind = kind
    BY <1>5, <2>1, SubmissionIsSound DEF RunEvaluate
  <2>. HIDE DEF r, Goal
  <2>. QED BY <1>1, <2>2 DEF Polling
<1>6. ASSUME NEW s \in Slots, NEW t \in Timers, Tick(s, t)
      PROVE  Goal
  <2>. DEFINE r == Request(t.kind, t.of, t)
  <2>1. t.kind \in Kinds /\ t.kind # "revise" /\ t.of \in Evaluations
    BY DEF Timers, Kinds
  <2>2. r.kind = t.kind /\ r.of = t.of /\ r.by = t /\ r.sent = Status(t.kind, t.of)
    BY <2>1, RequestIsSound
  <2>3. Sends(s, r) /\ UNCHANGED draft
    BY <1>6 DEF Tick, server
  <2>. HIDE DEF r
  <2>. QED BY <2>2, <2>3 DEF Polled
<1>7. ASSUME NEW s \in Slots, NEW e \in Evaluations, Fetch(s, e)
      PROVE  Goal
  <2>1. Request("open", e, NoTimer).kind = "open"
    BY DEF Request
  <2>. QED BY <1>1, <1>7, <2>1 DEF Fetch, Polling
<1>8. ASSUME NEW s \in Slots, SaveResumeRevision(s)
      PROVE  Goal
  <2>1. \E r : Sends(s, r) /\ r.kind = "revise"
    BY <1>8, RevisionIsSound DEF SaveResumeRevision
  <2>. QED BY <1>1, <2>1 DEF Polling
<1>9. CASE \/ \E e \in Evaluations : Evaluates(e) \/ Tailors(e)
           \/ OpenModal \/ ToggleResumeEditor \/ UNCHANGED vars
  BY <1>9 DEF Evaluates, Tailors, OpenModal, ToggleResumeEditor, vars
<1>10. CASE Next
  BY <1>4, <1>5, <1>6, <1>7, <1>8, <1>9, <1>10 DEF Next
<1>. QED BY <1>9, <1>10

LEMMA NextPollsKnown ==
  ASSUME TypeOK, PollsKnown, [Next]_vars
  PROVE  PollsKnown'
<1>1. CASE UNCHANGED flight
  BY <1>1 DEF PollsKnown
<1>2. ASSUME NEW s \in Slots, NEW r, Sends(s, r), Polled(r)
      PROVE  PollsKnown'
  BY <1>2, SlotChanges DEF PollsKnown
<1>. QED BY <1>1, <1>2, StepPolls

LEMMA NextDraftsKnown ==
  ASSUME TypeOK, PollsKnown, DraftsKnown, [Next]_vars
  PROVE  DraftsKnown'
<1>. USE EvaluatePageAssumption
<1>1. \A e \in Evaluations : draft[e] = "succeeded" => draft'[e] = "succeeded"
  <2>1. ASSUME NEW e \in Evaluations, Evaluates(e)
        PROVE  \A d \in Evaluations : draft[d] = "succeeded" => draft'[d] = "succeeded"
    BY <2>1 DEF Evaluates, DraftsKnown, TypeOK
  <2>2. ASSUME NEW e \in Evaluations, Tailors(e)
        PROVE  \A d \in Evaluations : draft[d] = "succeeded" => draft'[d] = "succeeded"
    BY <2>2 DEF Tailors, TypeOK
  <2>3. CASE UNCHANGED draft
    BY <2>3
  <2>. QED
    BY <2>1, <2>2, <2>3
    DEF Next, RunEvaluate, Ends, ScoreAnswer, SubmitAnswer, EvaluateRuns, EvaluateStops,
        EvaluateEnds, TailoringRuns, TailoringFails, TailoringSucceeds,
        ApplyTailoringHistory, Opens, FetchFails, Revised, Tick, Fetch, OpenModal,
        ToggleResumeEditor, SaveResumeRevision, server, vars
<1>2. \A s \in Slots :
        flight'[s].kind \in {"tailoring", "history"} /\ flight'[s].sent = "succeeded" =>
          draft'[flight'[s].of] = "succeeded"
  <2>1. \A s \in Slots : flight[s].kind \in {"tailoring", "history"} =>
                           flight[s].of \in Evaluations
    BY InFlight
  <2>2. CASE UNCHANGED flight
    BY <1>1, <2>1, <2>2 DEF DraftsKnown
  <2>3. ASSUME NEW s \in Slots, NEW r, Sends(s, r),
               r.kind \in Polling => r.sent = Status(r.kind, r.of) /\ UNCHANGED draft
        PROVE  \A t \in Slots :
                 flight'[t].kind \in {"tailoring", "history"} /\ flight'[t].sent = "succeeded" =>
                   draft'[flight'[t].of] = "succeeded"
    <3>1. \A t \in Slots : flight'[t] = IF t = s THEN r ELSE flight[t]
      BY <2>3, SlotChanges
    <3>2. r.kind \in {"tailoring", "history"} /\ r.sent = "succeeded" =>
            draft'[r.of] = "succeeded"
      BY <2>3 DEF Status, Polling
    <3>. QED BY <1>1, <2>1, <3>1, <3>2 DEF DraftsKnown
  <2>. QED BY <2>2, <2>3, StepPolls
<1>3. \A e \in Evaluations : /\ job'[e] # "succeeded" => draft'[e] = "none"
                             /\ e > clicks' => job'[e] = "none"
  <2>1. ASSUME NEW e \in Evaluations, Evaluates(e)
        PROVE  \A d \in Evaluations : /\ job'[d] # "succeeded" => draft'[d] = "none"
                                      /\ d > clicks' => job'[d] = "none"
    BY <2>1 DEF Evaluates, DraftsKnown, TypeOK
  <2>2. ASSUME NEW e \in Evaluations, Tailors(e)
        PROVE  \A d \in Evaluations : /\ job'[d] # "succeeded" => draft'[d] = "none"
                                      /\ d > clicks' => job'[d] = "none"
    BY <2>2 DEF Tailors, DraftsKnown, TypeOK
  <2>3. ASSUME NEW s \in Slots, NEW kind, RunEvaluate(s, kind)
        PROVE  \A d \in Evaluations : /\ job'[d] # "succeeded" => draft'[d] = "none"
                                      /\ d > clicks' => job'[d] = "none"
    <3>1. /\ job' = [job EXCEPT ![clicks + 1] = "active"] /\ clicks' = clicks + 1
          /\ draft' = draft /\ clicks \in Nat
      BY <2>3 DEF RunEvaluate, TypeOK
    <3>2. clicks + 1 \in Evaluations => draft[clicks + 1] = "none"
      BY <3>1 DEF DraftsKnown
    <3>. QED BY <3>1, <3>2 DEF DraftsKnown, TypeOK, Evaluations
  <2>4. CASE UNCHANGED server /\ UNCHANGED clicks
    BY <2>4 DEF server, DraftsKnown
  <2>. QED
    BY <2>1, <2>2, <2>3, <2>4
    DEF Next, Ends, ScoreAnswer, SubmitAnswer, EvaluateRuns, EvaluateStops,
        EvaluateEnds, TailoringRuns, TailoringFails, TailoringSucceeds,
        ApplyTailoringHistory, Opens, FetchFails, Revised, Tick, Fetch, OpenModal,
        ToggleResumeEditor, SaveResumeRevision, server, vars
<1>. QED BY <1>2, <1>3 DEF DraftsKnown

\* What the page displays, and when.
Displays == OneSubmission /\ TimerOfResult /\ TailoringWatched

\* A draft that has succeeded is never another one again.
LEMMA DraftsFinal ==
  ASSUME TypeOK, DraftsKnown, [Next]_vars, NEW d \in Evaluations, draft[d] = "succeeded"
  PROVE  draft'[d] = "succeeded"
<1>1. ASSUME NEW e \in Evaluations, Evaluates(e) \/ Tailors(e)
      PROVE  draft'[d] = "succeeded"
  BY <1>1 DEF Evaluates, Tailors, DraftsKnown, TypeOK
<1>2. CASE UNCHANGED draft
  BY <1>2
<1>. QED
  BY <1>1, <1>2
  DEF Next, RunEvaluate, Ends, ScoreAnswer, SubmitAnswer, EvaluateRuns, EvaluateStops,
      EvaluateEnds, TailoringRuns, TailoringFails, TailoringSucceeds,
      ApplyTailoringHistory, Opens, FetchFails, Revised, Tick, Fetch, OpenModal,
      ToggleResumeEditor, SaveResumeRevision, server, vars

\* A step that changes nothing of the display keeps it true.
LEMMA DisplayUnmoved ==
  ASSUME TypeOK, DraftsKnown, Displays, [Next]_vars, UNCHANGED <<shown, polls, late>>,
         \/ UNCHANGED flight
         \/ \E s \in Slots : \E r : Sends(s, r) /\ r.kind \notin Submitting
  PROVE  Displays'
<1>. USE EvaluatePageAssumption DEF shown, polls
<1>1. \A t \in Slots : flight'[t].kind \in Submitting => flight'[t] = flight[t]
  BY SlotChanges
<1>2. OneSubmission'
  BY <1>1 DEF Displays, OneSubmission
<1>3. TimerOfResult'
  BY DEF Displays, TimerOfResult
<1>4. result # 0 => result \in Evaluations
  BY DEF TypeOK, Evaluations
<1>5. TailoringWatched'
  BY <1>4, DraftsFinal DEF Displays, TailoringWatched
<1>. QED BY <1>2, <1>3, <1>5 DEF Displays

\* An answer that is not late is of the poll that is running, or of the one that
\* has just ended with the result displayed; no description is being posted.
LEMMA NotLate ==
  ASSUME TypeOK, PollsKnown, Displays, NEW s \in Slots, flight[s].kind \in Polling,
         Notes(flight[s]), ~late'
  PROVE  /\ ~late /\ \A t \in Slots : flight[t].kind \notin Submitting
         /\ \/ timer = flight[s].by
            \/ timer = NoTimer /\ result = flight[s].of
         /\ flight[s].by \in Timers /\ flight[s].by.of = flight[s].of
         /\ flight[s].kind = "evaluate" <=> flight[s].by.kind = "evaluate"
<1>1. /\ flight[s].by \in Timers /\ flight[s].by.of = flight[s].of
      /\ flight[s].kind = "evaluate" <=> flight[s].by.kind = "evaluate"
  BY DEF PollsKnown, Polled
<1>2. ~late /\ ~IsLate(flight[s])
  BY Zenon DEF Notes
<1>3. timer = flight[s].by \/ (timer = NoTimer /\ result = flight[s].of)
  BY <1>2 DEF IsLate
<1>4. flight[s].of # 0
  BY InFlight DEF Sound, Polling
<1>5. flight[s].by # NoTimer
  BY <1>1 DEF Timers, NoTimer
<1>6. \A t \in Slots : flight[t].kind \notin Submitting
  BY <1>2, <1>3, <1>4, <1>5 DEF Displays, OneSubmission
<1>. QED BY <1>1, <1>2, <1>3, <1>6

\* A result is displayed, with its tailoring.
LEMMA ResultDisplayed ==
  ASSUME TypeOK, NEW s \in Slots, NEW e \in Evaluations, RenderEvalResult(s, e),
         \A t \in Slots \ {s} : flight[t].kind \notin Submitting
  PROVE  /\ result' = e /\ \A t \in Slots : flight'[t].kind \notin Submitting
         /\ \/ draft[e] = "none" /\ mark' = "none" /\ UNCHANGED polls
            \/ /\ mark' = "spinner" /\ timer' # NoTimer
               /\ timer'.of = e /\ timer'.kind # "evaluate"
<1>1. CASE draft[e] = "none"
  <2>1. result' = e /\ mark' = "none" /\ UNCHANGED polls /\ Handled(s)
    BY <1>1 DEF RenderEvalResult
  <2>2. \A t \in Slots : flight'[t].kind \notin Submitting
    BY <2>1, SlotChanges, IdleIsSound DEF Handled, Submitting
  <2>. QED BY <1>1, <2>1, <2>2
<1>2. CASE draft[e] # "none"
  <2>1. PICK kind \in {"tailoring", "history"} : StartsPoll(s, [kind |-> kind, of |-> e])
    BY <1>2 DEF RenderEvalResult
  <2>. DEFINE t == [kind |-> kind, of |-> e]
  <2>2. t \in Timers /\ t.kind = kind /\ t.of = e /\ t # NoTimer /\ kind # "evaluate"
    BY TimerRecords
  <2>. HIDE DEF t
  <2>3. /\ timer' = t
        /\ \E r : Sends(s, r) /\ r.kind = kind
    BY <2>1, <2>2, PollStarts DEF t
  <2>4. \A u \in Slots : flight'[u].kind \notin Submitting
    BY <2>3, SlotChanges DEF Submitting
  <2>5. result' = e /\ mark' = "spinner"
    BY <1>2 DEF RenderEvalResult
  <2>6. timer' # NoTimer /\ timer'.of = e /\ timer'.kind # "evaluate"
    BY <2>2, <2>3
  <2>. QED BY <2>4, <2>5, <2>6
<1>. QED BY <1>1, <1>2

LEMMA EndsDisplays ==
  ASSUME TypeOK, PollsKnown, DraftsKnown, Displays, NEW s \in Slots, Ends(s)
  PROVE  Displays'
<1>. DEFINE e == flight[s].of
<1>. USE EvaluatePageAssumption
<1>1. flight[s].kind # "idle" => e \in Evaluations
  BY InFlight
<1>2. [Next]_vars
  BY DEF Next
<1>3. Handled(s) => \A t \in Slots : flight'[t].kind \in Submitting =>
                                        t # s /\ flight'[t] = flight[t]
  BY IdleIsSound, SlotChanges DEF Handled, Submitting
<1>4. CASE ScoreAnswer(s)
  <2>1. /\ e \in Evaluations /\ e # 0 /\ flight[s].kind \in Submitting
        /\ late' = late /\ draft' = draft
    BY <1>1, <1>4 DEF ScoreAnswer, Submitting, Evaluations, server
  <2>2. SUFFICES ASSUME ~late PROVE Displays'
    BY <2>1 DEF Displays, OneSubmission, TimerOfResult, TailoringWatched
  <2>3. /\ timer = NoTimer /\ result = 0
        /\ \A t \in Slots \ {s} : flight[t].kind \notin Submitting
    BY <2>1, <2>2 DEF Displays, OneSubmission
  <2>4. CASE Handled(s) /\ UNCHANGED <<result, mark, polls>>
    <3>1. \A t \in Slots : flight'[t].kind \notin Submitting
      BY <1>3, <2>3, <2>4
    <3>. QED BY <2>1, <2>3, <2>4, <3>1
         DEF Displays, OneSubmission, TimerOfResult, TailoringWatched, polls
  <2>5. CASE RenderEvalResult(s, e)
    <3>. HIDE DEF e
    <3>1. /\ result' = e /\ \A t \in Slots : flight'[t].kind \notin Submitting
          /\ \/ mark' = "none" /\ UNCHANGED polls
             \/ /\ mark' = "spinner" /\ timer' # NoTimer
                /\ timer'.of = e /\ timer'.kind # "evaluate"
      BY <2>1, <2>3, <2>5, ResultDisplayed
    <3>. QED BY <2>1, <2>3, <3>1
         DEF Displays, OneSubmission, TimerOfResult, TailoringWatched, polls
  <2>. QED BY <1>4, <2>4, <2>5 DEF ScoreAnswer
<1>5. CASE SubmitAnswer(s)
  <2>1. /\ e \in Evaluations /\ flight[s].kind \in Submitting
        /\ late' = late /\ draft' = draft /\ result' = result /\ mark' = mark
    BY <1>1, <1>5 DEF SubmitAnswer, Submitting, server
  <2>2. SUFFICES ASSUME ~late PROVE Displays'
    BY <2>1 DEF Displays, OneSubmission, TimerOfResult, TailoringWatched
  <2>3. /\ timer = NoTimer /\ result = 0
        /\ \A t \in Slots \ {s} : flight[t].kind \notin Submitting
    BY <2>1, <2>2 DEF Displays, OneSubmission
  <2>4. CASE Handled(s) /\ UNCHANGED polls
    <3>1. \A t \in Slots : flight'[t].kind \notin Submitting
      BY <1>3, <2>3, <2>4
    <3>. QED BY <2>1, <2>3, <2>4, <3>1
         DEF Displays, OneSubmission, TimerOfResult, TailoringWatched, polls
  <2>5. CASE StartsPoll(s, [kind |-> "evaluate", of |-> e])
    <3>. DEFINE t == [kind |-> "evaluate", of |-> e]
    <3>1. t \in Timers /\ t.kind = "evaluate" /\ t.of = e
      BY <2>1, TimerRecords
    <3>. HIDE DEF t, e
    <3>2. timer' = t /\ \E r : Sends(s, r) /\ r.kind = "evaluate"
      BY <2>5, <3>1, PollStarts DEF t
    <3>3. \A u \in Slots : flight'[u].kind \notin Submitting
      BY <2>3, <3>2, SlotChanges DEF Submitting
    <3>. QED BY <2>1, <2>3, <3>1, <3>2, <3>3
         DEF Displays, OneSubmission, TimerOfResult, TailoringWatched
  <2>. QED BY <1>5, <2>4, <2>5 DEF SubmitAnswer
<1>6. CASE EvaluateStops(s) \/ TailoringFails(s) \/ ApplyTailoringHistory(s)
  <2>1. /\ flight[s].kind \in Polling /\ Notes(flight[s]) /\ StopPoll /\ Handled(s)
        /\ result' = result /\ draft' = draft
    BY <1>6 DEF EvaluateStops, TailoringFails, ApplyTailoringHistory, Polling, server
  <2>2. SUFFICES ASSUME ~late' PROVE Displays'
    BY Zenon DEF Displays, OneSubmission, TimerOfResult, TailoringWatched
  <2>3. /\ ~late /\ \A t \in Slots : flight[t].kind \notin Submitting
        /\ \/ timer = flight[s].by
           \/ timer = NoTimer /\ result = e
        /\ flight[s].by \in Timers /\ flight[s].by.of = e
        /\ flight[s].kind = "evaluate" <=> flight[s].by.kind = "evaluate"
    BY <2>1, <2>2, NotLate
  <2>4. timer' = NoTimer /\ \A t \in Slots : flight'[t].kind \notin Submitting
    BY <1>3, <2>1, <2>3 DEF StopPoll
  <2>5. flight[s].by # NoTimer /\ e # 0 /\ NoTimer.of = 0
    BY <1>1, <2>1, <2>3 DEF NoTimer, Timers, Polling, Evaluations
  <2>6. CASE EvaluateStops(s)
    <3>1. flight[s].kind = "evaluate" /\ mark' = mark
      BY <2>6 DEF EvaluateStops
    <3>2. result # 0 => mark # "spinner"
      BY <2>3, <2>5, <3>1 DEF Displays, TimerOfResult, TailoringWatched
    <3>. QED BY <2>1, <2>3, <2>4, <3>1, <3>2
         DEF Displays, OneSubmission, TimerOfResult, TailoringWatched
  <2>7. CASE TailoringFails(s)
    <3>1. mark' = "none"
      BY <2>7 DEF TailoringFails
    <3>. QED BY <2>4, <3>1 DEF Displays, OneSubmission, TimerOfResult, TailoringWatched
  <2>8. CASE ApplyTailoringHistory(s)
    <3>1. /\ mark' = "done" /\ flight[s].kind = "history"
          /\ "succeeded" \in Answers(flight[s])
      BY <2>8 DEF ApplyTailoringHistory
    <3>2. draft[e] = "succeeded"
      BY <3>1 DEF Answers, Status, DraftsKnown
    <3>3. result # 0 => result = e
      BY <2>3, <2>5, <3>1 DEF Displays, TimerOfResult
    <3>. QED BY <2>1, <2>4, <3>1, <3>2, <3>3
         DEF Displays, OneSubmission, TimerOfResult, TailoringWatched
  <2>. QED BY <1>6, <2>6, <2>7, <2>8
<1>7. CASE EvaluateEnds(s)
  <2>1. /\ flight[s].kind \in Polling /\ Notes(flight[s]) /\ e \in Evaluations
        /\ flight[s].kind = "evaluate"
        /\ \/ StopPoll /\ Handled(s) /\ result' = e /\ mark' = "none"
           \/ draft[e] # "none" /\ RenderEvalResult(s, e)
    BY <1>1, <1>7 DEF EvaluateEnds, Polling
  <2>2. SUFFICES ASSUME ~late' PROVE Displays'
    BY Zenon DEF Displays, OneSubmission, TimerOfResult, TailoringWatched
  <2>3. \A t \in Slots : flight[t].kind \notin Submitting
    BY <2>1, <2>2, NotLate
  <2>4. CASE StopPoll /\ Handled(s) /\ result' = e /\ mark' = "none"
    <3>1. timer' = NoTimer /\ \A t \in Slots : flight'[t].kind \notin Submitting
      BY <1>3, <2>3, <2>4 DEF StopPoll
    <3>. QED BY <2>4, <3>1 DEF Displays, OneSubmission, TimerOfResult, TailoringWatched
  <2>5. CASE draft[e] # "none" /\ RenderEvalResult(s, e)
    <3>. HIDE DEF e
    <3>1. /\ result' = e /\ mark' = "spinner"
          /\ timer' # NoTimer /\ timer'.of = e /\ timer'.kind # "evaluate"
          /\ \A t \in Slots : flight'[t].kind \notin Submitting
      BY <2>1, <2>3, <2>5, ResultDisplayed
    <3>. QED BY <3>1 DEF Displays, OneSubmission, TimerOfResult, TailoringWatched
  <2>. QED BY <2>1, <2>4, <2>5
<1>8. CASE \/ EvaluateRuns(s) \/ TailoringRuns(s) \/ Opens(s) \/ FetchFails(s)
           \/ Revised(s)
  <2>1. Handled(s) /\ UNCHANGED <<shown, polls, late>>
    BY <1>8 DEF EvaluateRuns, TailoringRuns, Opens, FetchFails, Revised
  <2>2. \E r : Sends(s, r) /\ r.kind \notin Submitting
    BY <2>1, IdleIsSound DEF Handled, Submitting
  <2>. QED BY <1>2, <2>1, <2>2, DisplayUnmoved
<1>9. CASE TailoringSucceeds(s)
  <2>1. Request("history", e, flight[s].by).kind \notin Submitting
    BY DEF Request, Submitting
  <2>. QED BY <1>2, <1>9, <2>1, DisplayUnmoved DEF TailoringSucceeds
<1>. QED BY <1>4, <1>5, <1>6, <1>7, <1>8, <1>9 DEF Ends

LEMMA NextDisplays ==
  ASSUME TypeOK, PollsKnown, DraftsKnown, Displays, [Next]_vars
  PROVE  Displays'
<1>1. ASSUME NEW s \in Slots, NEW kind \in {"score", "submit"}, RunEvaluate(s, kind)
      PROVE  Displays'
  <2>1. clicks + 1 \in Evaluations
    BY <1>1, EvaluatePageAssumption DEF RunEvaluate, TypeOK, Evaluations
  <2>. DEFINE r == [Request(kind, clicks + 1, NoTimer) EXCEPT !.sent = "active"]
  <2>2. Sends(s, r) /\ r.kind = kind
    BY <1>1, <2>1, SubmissionIsSound DEF RunEvaluate
  <2>. HIDE DEF r
  <2>3. /\ button /\ button' = FALSE /\ result' = 0 /\ timer' = NoTimer /\ late' = late
    BY <1>1 DEF RunEvaluate, StopPoll
  <2>4. ~late => \A t \in Slots : flight[t].kind \notin Submitting
    BY <2>3 DEF Displays, OneSubmission
  <2>5. ~late => \A t \in Slots : flight'[t].kind \in Submitting => t = s
    BY <2>2, <2>4, SlotChanges
  <2>. QED BY <2>3, <2>5 DEF Displays, OneSubmission, TimerOfResult, TailoringWatched
<1>2. ASSUME NEW s \in Slots, NEW t \in Timers, Tick(s, t)
      PROVE  Displays'
  <2>1. Request(t.kind, t.of, t).kind \notin Submitting
    BY DEF Request, Timers, Submitting
  <2>. QED BY <1>2, <2>1, DisplayUnmoved DEF Tick
<1>3. ASSUME NEW s \in Slots, NEW e \in Evaluations, Fetch(s, e)
      PROVE  Displays'
  <2>1. Request("open", e, NoTimer).kind \notin Submitting
    BY DEF Request, Submitting
  <2>. QED BY <1>3, <2>1, DisplayUnmoved DEF Fetch
<1>4. ASSUME NEW s \in Slots, SaveResumeRevision(s)
      PROVE  Displays'
  <2>1. \E r : Sends(s, r) /\ r.kind \notin Submitting
    BY <1>4, RevisionIsSound DEF SaveResumeRevision, Submitting
  <2>. QED BY <1>4, <2>1, DisplayUnmoved DEF SaveResumeRevision
<1>5. CASE \/ \E e \in Evaluations : Evaluates(e) \/ Tailors(e)
           \/ OpenModal \/ ToggleResumeEditor \/ UNCHANGED vars
  <2>1. UNCHANGED <<shown, polls, late>> /\ UNCHANGED flight
    BY <1>5 DEF Evaluates, Tailors, OpenModal, ToggleResumeEditor, vars
  <2>. QED BY <2>1, DisplayUnmoved
<1>6. ASSUME NEW s \in Slots, Ends(s)
      PROVE  Displays'
  BY <1>6, EndsDisplays
<1>. QED BY <1>1, <1>2, <1>3, <1>4, <1>5, <1>6 DEF Next

\* Unless an answer came late, a tailoring displayed as running is polled, and
\* one displayed as ready has succeeded.
THEOREM TailoringIsWatched == Spec => []TailoringWatched
<1>1. Init => PollsKnown /\ DraftsKnown /\ Displays
  <2>. SUFFICES ASSUME Init PROVE PollsKnown /\ DraftsKnown /\ Displays
    OBVIOUS
  <2>1. \A s \in Slots : flight[s].kind = "idle"
    BY IdleIsSound DEF Init
  <2>2. PollsKnown
    BY <2>1 DEF PollsKnown, Polled, Polling
  <2>3. DraftsKnown
    BY <2>1 DEF DraftsKnown, Init
  <2>4. Displays
    BY <2>1 DEF Displays, OneSubmission, TimerOfResult, TailoringWatched, Init, Submitting
  <2>. QED BY <2>2, <2>3, <2>4
<1>2. Displays => TailoringWatched
  BY DEF Displays
<1>. QED
  BY <1>1, <1>2, NextPollsKnown, NextDraftsKnown, NextDisplays, TypeCorrect, PTL DEF Spec
=============================================================================
