--------------------------- MODULE LLMCallsProofs -----------------------------
(***************************************************************************)
(* Theorems about the calls of the LLM, for every number of calls and of   *)
(* restarts: what the audit log says, which files belong to a row, and     *)
(* what a caller is told.                                                  *)
(***************************************************************************)
EXTENDS LLMCalls, TLAPS

Places == {"new", "llm", "store", "render", "commit", "audit", "ended"}
Verdicts == {"failed", "succeeded", "no_pdf", "raised", "cancelled", "unsaved", "unread",
             "cut"}

\* A call is a record of its five fields.
Record(x) == x = [f \in {"pc", "step", "client", "value", "told"} |-> x[f]]

CallsOK ==
  /\ call = [c \in Calls |-> call[c]]
  /\ \A c \in Calls : Record(call[c])
  /\ audit = [c \in Calls |-> audit[c]]

----------------------------------------------------------------------------
(* Where a call is, and what it has left so far.                           *)

\* Before its result is stored a call has no row; it is audited as it ends.
Progress(c) ==
  /\ call[c].pc \in Places /\ call[c].step \in Steps \cup {"none"}
  /\ call[c].pc # "ended" => call[c].told = "none" /\ audit[c] = "none"
  /\ call[c].pc = "ended" => call[c].told \in Verdicts
  /\ call[c].pc \in {"new", "llm", "store", "render", "commit"} => c \notin stored
  /\ call[c].pc = "audit" => c \in stored

\* The audit row of a call that has ended, by what its caller is told.
Verdict(c) ==
  /\ call[c].told = "failed" =>
       /\ c \notin stored /\ audit[c] \in {"none", "failed"}
       /\ profile => audit[c] = "failed"
  /\ call[c].told \in {"succeeded", "no_pdf"} =>
       /\ c \in stored /\ audit[c] \in {"none", "succeeded"}
       /\ profile /\ ~MadeUp(c) => audit[c] = "succeeded"
  /\ call[c].told \in {"raised", "cancelled", "unsaved", "unread", "cut"} => audit[c] = "none"
  /\ call[c].told \in {"cancelled", "unsaved"} => c \notin stored
  /\ call[c].told = "unread" => c \in stored
  /\ call[c].told = "raised" /\ c \in stored =>
       MadeUp(c) \/ (call[c].step \in {"tailor", "extract"} /\ ~profile)

\* The files of a call, by where it is.
Files(c) ==
  /\ call[c].pc \in {"new", "llm", "store"} => c \notin html \cup pdf \cup linked
  /\ call[c].pc = "render" => call[c].step = "beautify" /\ c \in html
  /\ call[c].pc = "commit" =>
       (call[c].step = "tailor" /\ c \in pdf) \/ (call[c].step = "beautify" /\ c \in html)
  /\ c \in linked => c \in pdf
  /\ c \in stored => /\ call[c].step = "tailor" => c \in pdf
                     /\ call[c].step = "beautify" => c \in html
  /\ c \in html \cup pdf /\ c \notin stored =>
       call[c].pc \in {"render", "commit"}
         \/ call[c].told \in {"cancelled", "unsaved", "raised", "cut"}

Account(c) == Progress(c) /\ Verdict(c) /\ Files(c)
Accounted == CallsOK /\ \A c \in Calls : Account(c)

----------------------------------------------------------------------------
(* One call moves at a time.                                               *)

Still(d) ==
  /\ call'[d] = call[d] /\ audit'[d] = audit[d]
  /\ d \in stored' <=> d \in stored
  /\ d \in html' <=> d \in html
  /\ d \in pdf' <=> d \in pdf
  /\ d \in linked' <=> d \in linked

LEMMA StillAccounted ==
  ASSUME NEW d, Account(d), Still(d), profile' => profile
  PROVE  Account(d)'
<1>1. Progress(d)'
  BY DEF Account, Still, Progress
<1>2. Verdict(d)'
  BY DEF Account, Still, Verdict, MadeUp
<1>3. Files(d)'
  BY DEF Account, Still, Files
<1>. QED BY <1>1, <1>2, <1>3 DEF Account

LEMMA Gone ==
  ASSUME CallsOK, NEW c \in Calls, NEW pc, Goes(c, pc)
  PROVE  /\ call' = [d \in Calls |-> call'[d]] /\ \A d \in Calls : Record(call'[d])
         /\ \A d \in Calls \ {c} : call'[d] = call[d]
         /\ call'[c].pc = pc /\ call'[c].step = call[c].step
         /\ call'[c].told = call[c].told /\ call'[c].value = call[c].value
<1>1. /\ \A d \in Calls : call'[d] = IF d = c THEN [call[d] EXCEPT !.pc = pc] ELSE call[d]
      /\ call' = [d \in Calls |-> call'[d]]
  BY DEF Goes, CallsOK
<1>2. LET y == [call[c] EXCEPT !.pc = pc] IN
      /\ Record(y)
      /\ y.pc = pc /\ y.step = call[c].step /\ y.told = call[c].told
      /\ y.value = call[c].value
  BY DEF CallsOK, Record
<1>. QED BY <1>1, <1>2 DEF CallsOK, Record

LEMMA Ended ==
  ASSUME CallsOK, NEW c \in Calls, NEW told, Ends(c, told)
  PROVE  /\ call' = [d \in Calls |-> call'[d]] /\ \A d \in Calls : Record(call'[d])
         /\ \A d \in Calls \ {c} : call'[d] = call[d]
         /\ call'[c].pc = "ended" /\ call'[c].step = call[c].step
         /\ call'[c].told = told /\ call'[c].value = call[c].value
<1>1. /\ \A d \in Calls : call'[d] = IF d = c THEN [call[d] EXCEPT !.pc = "ended", !.told = told]
                                               ELSE call[d]
      /\ call' = [d \in Calls |-> call'[d]]
  BY DEF Ends, CallsOK
<1>2. LET y == [call[c] EXCEPT !.pc = "ended", !.told = told] IN
      /\ Record(y)
      /\ y.pc = "ended" /\ y.step = call[c].step /\ y.told = told
      /\ y.value = call[c].value
  BY DEF CallsOK, Record
<1>. QED BY <1>1, <1>2 DEF CallsOK, Record

LEMMA Audited ==
  ASSUME CallsOK, NEW c \in Calls, NEW status, Audits(c, status)
  PROVE  /\ audit' = [d \in Calls |-> audit'[d]]
         /\ \A d \in Calls \ {c} : audit'[d] = audit[d]
         /\ audit'[c] = IF profile \/ call[c].step = "beautify" THEN status ELSE audit[c]
BY DEF Audits, CallsOK

\* A step of one call keeps the accounts when it keeps those of that call.
LEMMA OneMoves ==
  ASSUME Accounted, NEW c \in Calls, CallsOK', profile' => profile,
         \A d \in Calls \ {c} : Still(d), Account(c)'
  PROVE  Accounted'
<1>1. \A d \in Calls \ {c} : Account(d)'
  BY StillAccounted DEF Accounted
<1>. QED BY <1>1 DEF Accounted

----------------------------------------------------------------------------
(* Every step keeps the accounts.                                          *)

LEMMA InitAccounted == Init => Accounted
<1>. SUFFICES ASSUME Init PROVE Accounted
  OBVIOUS
<1>1. Record(New) /\ New.pc = "new" /\ New.step = "none" /\ New.told = "none"
  BY DEF Record, New
<1>2. CallsOK
  BY <1>1 DEF Init, CallsOK
<1>3. ASSUME NEW c \in Calls
      PROVE  Account(c)
  <2>1. /\ call[c] = New /\ audit[c] = "none"
        /\ c \notin stored /\ c \notin html \cup pdf \cup linked
    BY DEF Init
  <2>. QED BY <1>1, <2>1 DEF Account, Progress, Places, Verdict, Files
<1>. QED BY <1>2, <1>3 DEF Accounted

\* The call has not been asked for yet.
LEMMA StartAccounted ==
  ASSUME Accounted, NEW c \in Calls, NEW step \in Steps, NEW client \in Clients,
         Start(c, step, client)
  PROVE  Accounted'
<1>. DEFINE x == [New EXCEPT !.pc = "llm", !.step = step, !.client = client]
<1>1. Record(x) /\ x.pc = "llm" /\ x.step = step /\ x.told = "none"
  BY DEF Record, New
<1>2. call' = [call EXCEPT ![c] = x] /\ call[c].pc = "new"
  BY DEF Start
<1>. HIDE DEF x
<1>3. /\ call'[c] = x /\ \A d \in Calls \ {c} : call'[d] = call[d]
      /\ CallsOK'
  BY <1>1, <1>2 DEF Accounted, CallsOK, Start
<1>4. UNCHANGED <<stored, audit, html, pdf, linked, profile>>
  BY DEF Start, disk
<1>5. \A d \in Calls \ {c} : Still(d)
  BY <1>3, <1>4 DEF Still
<1>6. Account(c)
  BY DEF Accounted
<1>7. Account(c)'
  BY <1>1, <1>2, <1>3, <1>4, <1>6 DEF Account, Progress, Places, Verdict, Files
<1>. QED BY <1>3, <1>4, <1>5, <1>7, OneMoves

LEMMA FailsAccounted ==
  ASSUME Accounted, NEW c \in Calls, call[c].pc = "llm", Fails(c)
  PROVE  Accounted'
<1>1. /\ Audits(c, "failed") /\ Ends(c, "failed")
      /\ UNCHANGED <<stored, html, pdf, linked, profile>>
  BY DEF Fails, disk
<1>2. CallsOK /\ Account(c)
  BY DEF Accounted
<1>3. CallsOK'
  BY <1>1, <1>2, Audited, Ended DEF CallsOK
<1>4. \A d \in Calls \ {c} : Still(d)
  BY <1>1, <1>2, Audited, Ended DEF Still
<1>5. /\ call'[c].pc = "ended" /\ call'[c].step = call[c].step /\ call'[c].told = "failed"
      /\ audit'[c] = IF profile \/ call[c].step = "beautify" THEN "failed" ELSE audit[c]
  BY <1>1, <1>2, Audited, Ended
<1>6. Account(c)'
  BY <1>1, <1>2, <1>5 DEF Account, Progress, Places, Verdicts, Verdict, Files
<1>. QED BY <1>1, <1>3, <1>4, <1>6, OneMoves

LEMMA AnsweredAccounted ==
  ASSUME Accounted, NEW c \in Calls, NEW a, Answered(c, a)
  PROVE  Accounted'
<1>1. CASE Fails(c)
  BY <1>1, FailsAccounted DEF Answered
<1>2. CASE ~Fails(c)
  <2>1. PICK v : call' = [call EXCEPT ![c].pc = "store", ![c].value = v]
    BY <1>2 DEF Answered
  <2>2. /\ call[c].pc = "llm" /\ UNCHANGED <<stored, audit, html, pdf, linked, profile>>
    BY <1>2 DEF Answered, disk
  <2>3. CallsOK /\ Account(c)
    BY DEF Accounted
  <2>. DEFINE x == [call[c] EXCEPT !.pc = "store", !.value = v]
  <2>4. /\ Record(x) /\ x.pc = "store" /\ x.step = call[c].step
        /\ x.told = call[c].told
    BY <2>3 DEF CallsOK, Record
  <2>5. /\ \A d \in Calls : call'[d] = IF d = c THEN x ELSE call[d]
        /\ call' = [d \in Calls |-> call'[d]]
    BY <2>1, <2>3 DEF CallsOK
  <2>. HIDE DEF x
  <2>6. CallsOK'
    BY <2>2, <2>3, <2>4, <2>5 DEF CallsOK
  <2>7. \A d \in Calls \ {c} : Still(d)
    BY <2>2, <2>5 DEF Still
  <2>8. Account(c)'
    BY <2>2, <2>3, <2>4, <2>5 DEF Account, Progress, Places, Verdict, Files
  <2>. QED BY <2>2, <2>6, <2>7, <2>8, OneMoves
<1>. QED BY <1>1, <1>2

\* The call ends without an audit row.
LEMMA EndsAccounted ==
  ASSUME Accounted, NEW c \in Calls, call[c].pc \notin {"new", "llm", "ended"},
         NEW told \in {"raised", "cancelled", "unsaved", "cut"}, Ends(c, told),
         UNCHANGED <<stored, audit, html, pdf, linked, profile>>,
         told \in {"cancelled", "unsaved"} => c \notin stored,
         told = "raised" /\ c \in stored =>
           MadeUp(c) \/ (call[c].step \in {"tailor", "extract"} /\ ~profile)
  PROVE  Accounted'
<1>1. CallsOK /\ Account(c)
  BY DEF Accounted
<1>2. CallsOK'
  BY <1>1, Ended DEF CallsOK
<1>3. \A d \in Calls \ {c} : Still(d)
  BY <1>1, Ended DEF Still
<1>4. /\ call'[c].pc = "ended" /\ call'[c].step = call[c].step /\ call'[c].told = told
      /\ call'[c].value = call[c].value
  BY <1>1, Ended
<1>5. Progress(c)'
  BY <1>1, <1>4 DEF Account, Progress, Places, Verdicts
<1>6. Verdict(c)'
  BY <1>1, <1>4 DEF Account, Progress, Places, Verdict, MadeUp
<1>7. Files(c)'
  BY <1>1, <1>4 DEF Account, Files
<1>. QED BY <1>2, <1>3, <1>5, <1>6, <1>7, OneMoves DEF Account

\* The row is committed, and cannot be read back.
LEMMA UnreadAccounted ==
  ASSUME Accounted, NEW c \in Calls, call[c].pc \in {"store", "commit"}, Unread(c),
         UNCHANGED <<audit, html, pdf, linked, profile>>,
         call[c].step = "tailor" => c \in pdf,
         call[c].step = "beautify" => c \in html
  PROVE  Accounted'
<1>1. CallsOK /\ Account(c) /\ Ends(c, "unread") /\ stored' = stored \cup {c}
  BY DEF Accounted, Unread
<1>2. CallsOK'
  BY <1>1, Ended DEF CallsOK
<1>3. \A d \in Calls \ {c} : Still(d)
  BY <1>1, Ended DEF Still
<1>4. /\ call'[c].pc = "ended" /\ call'[c].step = call[c].step /\ call'[c].told = "unread"
  BY <1>1, Ended
<1>5. Progress(c)'
  BY <1>1, <1>4 DEF Account, Progress, Places, Verdicts
<1>6. Verdict(c)'
  BY <1>1, <1>4 DEF Account, Progress, Verdict
<1>7. Files(c)'
  BY <1>1, <1>4 DEF Account, Files
<1>. QED BY <1>2, <1>3, <1>5, <1>6, <1>7, OneMoves DEF Account

\* The call goes on.
LEMMA GoesAccounted ==
  ASSUME Accounted, NEW c \in Calls, call[c].pc \in {"store", "render", "commit"},
         NEW pc \in {"render", "commit", "audit"}, Goes(c, pc),
         UNCHANGED <<audit, profile>>,
         \A d \in Calls \ {c} : /\ d \in stored' <=> d \in stored
                                /\ d \in html' <=> d \in html
                                /\ d \in pdf' <=> d \in pdf
                                /\ d \in linked' <=> d \in linked,
         c \in stored' <=> pc = "audit",
         c \in linked' => c \in pdf',
         pc = "render" => call[c].step = "beautify" /\ c \in html',
         pc = "commit" => \/ call[c].step = "tailor" /\ c \in pdf'
                          \/ call[c].step = "beautify" /\ c \in html',
         pc = "audit" => /\ call[c].step = "tailor" => c \in pdf'
                         /\ call[c].step = "beautify" => c \in html'
  PROVE  Accounted'
<1>1. CallsOK /\ Account(c)
  BY DEF Accounted
<1>2. CallsOK'
  BY <1>1, Gone DEF CallsOK
<1>3. \A d \in Calls \ {c} : Still(d)
  BY <1>1, Gone DEF Still
<1>4. /\ call'[c].pc = pc /\ call'[c].step = call[c].step /\ call'[c].told = call[c].told
      /\ call'[c].value = call[c].value
  BY <1>1, Gone
<1>5. Progress(c)'
  BY <1>1, <1>4 DEF Account, Progress, Places
<1>6. Verdict(c)'
  BY <1>1, <1>4 DEF Account, Progress, Verdict
<1>7. Files(c)'
  BY <1>1, <1>4 DEF Account, Files
<1>. QED BY <1>2, <1>3, <1>5, <1>6, <1>7, OneMoves DEF Account

LEMMA AuditAccounted ==
  ASSUME Accounted, NEW c \in Calls, AuditSuccess(c)
  PROVE  Accounted'
<1>. DEFINE gone == ~profile /\ call[c].step \in {"tailor", "extract"}
<1>1. CallsOK /\ Account(c) /\ call[c].pc = "audit"
  BY DEF Accounted, AuditSuccess
<1>2. UNCHANGED <<stored, html, pdf, linked, profile>>
  BY DEF AuditSuccess, disk
<1>3. c \in stored /\ audit[c] = "none"
  BY <1>1 DEF Account, Progress
<1>4. CASE (gone \/ MadeUp(c)) /\ UNCHANGED audit /\ Ends(c, "raised")
  BY <1>1, <1>2, <1>4, EndsAccounted
<1>5. ASSUME NEW told \in {"succeeded", "no_pdf"}, Ends(c, told),
             \A d \in Calls \ {c} : audit'[d] = audit[d],
             audit' = [d \in Calls |-> audit'[d]],
             audit'[c] \in {"none", "succeeded"},
             profile /\ ~MadeUp(c) => audit'[c] = "succeeded"
      PROVE  Accounted'
  <2>1. CallsOK'
    BY <1>1, <1>5, Ended DEF CallsOK
  <2>2. \A d \in Calls \ {c} : Still(d)
    BY <1>1, <1>2, <1>5, Ended DEF Still
  <2>3. /\ call'[c].pc = "ended" /\ call'[c].step = call[c].step
        /\ call'[c].told = told /\ call'[c].value = call[c].value
    BY <1>1, <1>5, Ended
  <2>4. Progress(c)'
    BY <1>1, <1>2, <2>3 DEF Account, Progress, Places, Verdicts
  <2>5. Verdict(c)'
    BY <1>2, <1>3, <1>5, <2>3 DEF Verdict, MadeUp
  <2>6. Files(c)'
    BY <1>1, <1>2, <1>3, <2>3 DEF Account, Files
  <2>. QED BY <1>2, <2>1, <2>2, <2>4, <2>5, <2>6, OneMoves DEF Account
<1>6. Told(c) \in {"succeeded", "no_pdf"}
  BY DEF Told
<1>7. CASE ~MadeUp(c) /\ Audits(c, "succeeded") /\ Ends(c, Told(c))
  BY <1>1, <1>3, <1>5, <1>6, <1>7, Audited
<1>8. CASE MadeUp(c) /\ UNCHANGED audit /\ Ends(c, Told(c))
  BY <1>1, <1>3, <1>5, <1>6, <1>8 DEF CallsOK
<1>. QED BY <1>4, <1>7, <1>8 DEF AuditSuccess

LEMMA CrashAccounted ==
  ASSUME Accounted, Crash
  PROVE  Accounted'
<1>1. ASSUME NEW c \in Calls
      PROVE  /\ Record(call'[c]) /\ Account(c)'
             /\ audit' = audit
  <2>. DEFINE x == [call[c] EXCEPT !.pc = "ended", !.told = "cut"]
  <2>1. CallsOK /\ Account(c)
    BY DEF Accounted
  <2>2. /\ Record(x) /\ x.pc = "ended" /\ x.told = "cut" /\ x.step = call[c].step
    BY <2>1 DEF CallsOK, Record
  <2>3. call'[c] = IF call[c].pc \in {"new", "ended"} THEN call[c] ELSE x
    BY DEF Crash
  <2>4. UNCHANGED <<stored, audit, html, pdf, linked, profile>>
    BY DEF Crash, disk
  <2>. HIDE DEF x
  <2>5. CASE call[c].pc \in {"new", "ended"}
    <3>1. Still(c)
      BY <2>3, <2>4, <2>5 DEF Still
    <3>. QED BY <2>1, <2>3, <2>4, <2>5, <3>1, StillAccounted DEF CallsOK
  <2>6. CASE call[c].pc \notin {"new", "ended"}
    <3>1. call'[c] = x
      BY <2>3, <2>6
    <3>2. Progress(c)'
      BY <2>1, <2>2, <3>1 DEF Account, Progress, Places, Verdicts
    <3>3. Verdict(c)'
      BY <2>1, <2>2, <2>4, <2>6, <3>1 DEF Account, Progress, Verdict
    <3>4. Files(c)'
      BY <2>1, <2>2, <2>4, <3>1 DEF Account, Files
    <3>. QED BY <2>2, <2>4, <3>1, <3>2, <3>3, <3>4 DEF Account
  <2>. QED BY <2>5, <2>6
<1>2. CallsOK'
  <2>1. call' = [c \in Calls |-> call'[c]]
    BY DEF Crash
  <2>2. audit' = [c \in Calls |-> audit'[c]]
    BY DEF Crash, Accounted, CallsOK
  <2>. QED BY <1>1, <2>1, <2>2 DEF CallsOK
<1>. QED BY <1>1, <1>2 DEF Accounted

LEMMA NextAccounted == Accounted /\ [Next]_vars => Accounted'
<1>. SUFFICES ASSUME Accounted, [Next]_vars PROVE Accounted'
  OBVIOUS
<1>. USE DEF At, disk
<1>1. ASSUME NEW c \in Calls, Step(c)
      PROVE  Accounted'
  <2>1. Account(c)
    BY DEF Accounted
  <2>2. CASE Unavailable(c)
    BY <2>2, FailsAccounted DEF Unavailable
  <2>3. ASSUME NEW a, Answered(c, a)
        PROVE  Accounted'
    BY <2>3, AnsweredAccounted
  <2>4. CASE StoreRow(c)
    <3>1. call[c].pc = "store" /\ call[c].step \in {"evaluate", "extract"}
          /\ UNCHANGED <<audit, html, pdf, linked, profile>>
      BY <2>4 DEF StoreRow
    <3>2. CASE Stores(c)
      BY <2>1, <3>1, <3>2, GoesAccounted DEF Stores, Account, Files
    <3>3. CASE Unread(c)
      BY <3>1, <3>3, UnreadAccounted
    <3>4. CASE Loses(c, "raised")
      BY <2>1, <3>1, <3>4, EndsAccounted DEF Loses, Account, Progress
    <3>. QED BY <2>4, <3>2, <3>3, <3>4 DEF StoreRow
  <2>5. CASE Cancelled(c)
    BY <2>1, <2>5, EndsAccounted DEF Cancelled, Account, Progress
  <2>6. CASE WriteResume(c)
    <3>1. call[c].pc = "store" /\ call[c].step = "tailor" /\ c \notin stored
          /\ c \notin linked
          /\ UNCHANGED <<stored, audit, html, linked, profile>>
      BY <2>1, <2>6 DEF WriteResume, Account, Progress, Files
    <3>2. CASE pdf' = pdf \cup {c} /\ Goes(c, "commit")
      BY <3>1, <3>2, GoesAccounted
    <3>3. CASE UNCHANGED pdf /\ Ends(c, "unsaved")
      BY <3>1, <3>3, EndsAccounted
    <3>. QED BY <2>6, <3>2, <3>3 DEF WriteResume
  <2>7. CASE StoreResume(c)
    <3>1. call[c].pc = "commit" /\ call[c].step = "tailor" /\ c \in pdf /\ c \notin stored
          /\ UNCHANGED <<audit, html, pdf, linked, profile>>
      BY <2>1, <2>7 DEF StoreResume, Account, Progress, Files
    <3>2. CASE Stores(c)
      BY <3>1, <3>2, GoesAccounted DEF Stores
    <3>3. CASE Unread(c)
      BY <3>1, <3>3, UnreadAccounted
    <3>4. CASE Loses(c, "unsaved")
      BY <3>1, <3>4, EndsAccounted DEF Loses
    <3>. QED BY <2>7, <3>2, <3>3, <3>4 DEF StoreResume
  <2>8. CASE WriteHtml(c)
    BY <2>1, <2>8, GoesAccounted DEF WriteHtml, Account, Progress, Files
  <2>9. CASE Render(c)
    <3>1. call[c].pc = "render" /\ call[c].step = "beautify" /\ c \notin stored
          /\ c \in html /\ (c \in linked => c \in pdf)
          /\ UNCHANGED <<stored, audit, html, profile>>
      BY <2>1, <2>9 DEF Render, Account, Progress, Files
    <3>2. CASE pdf' = pdf \cup {c} /\ linked' = linked \cup {c} /\ Goes(c, "commit")
      BY <3>1, <3>2, GoesAccounted
    <3>3. CASE UNCHANGED <<pdf, linked>> /\ Goes(c, "commit")
      BY <3>1, <3>3, GoesAccounted
    <3>4. CASE UNCHANGED <<pdf, linked>> /\ Ends(c, "raised")
      BY <3>1, <3>4, EndsAccounted
    <3>. QED BY <2>9, <3>2, <3>3, <3>4 DEF Render
  <2>10. CASE StoreBeautified(c)
    <3>1. call[c].pc = "commit" /\ call[c].step = "beautify" /\ c \in html /\ c \notin stored
          /\ (c \in linked => c \in pdf)
          /\ UNCHANGED <<audit, html, pdf, linked, profile>>
      BY <2>1, <2>10 DEF StoreBeautified, Account, Progress, Files
    <3>2. CASE Stores(c)
      BY <3>1, <3>2, GoesAccounted DEF Stores
    <3>3. CASE Unread(c)
      BY <3>1, <3>3, UnreadAccounted
    <3>4. CASE Loses(c, "raised")
      BY <3>1, <3>4, EndsAccounted DEF Loses
    <3>. QED BY <2>10, <3>2, <3>3, <3>4 DEF StoreBeautified
  <2>11. CASE AuditSuccess(c)
    BY <2>11, AuditAccounted
  <2>. QED
    BY <1>1, <2>2, <2>3, <2>4, <2>5, <2>6, <2>7, <2>8, <2>9, <2>10, <2>11 DEF Step
<1>2. ASSUME NEW c \in Calls, NEW step \in Steps, NEW client \in Clients,
             Start(c, step, client)
      PROVE  Accounted'
  BY <1>2, StartAccounted
<1>3. CASE DeleteProfile \/ UNCHANGED vars
  <2>1. \A c \in Calls : Still(c)
    BY <1>3 DEF DeleteProfile, vars, Still
  <2>2. profile' => profile
    BY <1>3 DEF DeleteProfile, vars
  <2>3. CallsOK'
    BY <1>3 DEF Accounted, CallsOK, DeleteProfile, vars
  <2>. QED BY <2>1, <2>2, <2>3, StillAccounted DEF Accounted
<1>4. CASE Crash
  BY <1>4, CrashAccounted
<1>. QED BY <1>1, <1>2, <1>3, <1>4 DEF Next

\* Rows and files belong to calls.
OfCalls == stored \cup html \cup pdf \cup linked \subseteq Calls

LEMMA NextOfCalls == OfCalls /\ [Next]_vars => OfCalls'
<1>. SUFFICES ASSUME OfCalls, [Next]_vars PROVE OfCalls'
  OBVIOUS
<1>1. ASSUME NEW c \in Calls, Step(c)
      PROVE  OfCalls'
  BY <1>1
  DEF OfCalls, disk, Step, Unavailable, Fails, Answered, StoreRow, Stores, Unread, Loses,
      Cancelled, WriteResume, StoreResume, WriteHtml, Render, StoreBeautified, AuditSuccess
<1>2. CASE UNCHANGED <<stored, disk>>
  BY <1>2 DEF OfCalls, disk
<1>. QED BY <1>1, <1>2 DEF Next, Start, DeleteProfile, Crash, vars

LEMMA AlwaysOfCalls == Spec => []OfCalls
<1>1. Init => OfCalls
  BY DEF Init, OfCalls
<1>. QED BY <1>1, NextOfCalls, PTL DEF Spec

LEMMA AlwaysAccounted == Spec => []Accounted
BY InitAccounted, NextAccounted, PTL DEF Spec

----------------------------------------------------------------------------
(* What follows.                                                           *)

\* An audit row that says succeeded is about a stored result, one that says
\* failed is not, and what a caller is told is what the log says.
THEOREM AuditIsTrue == Spec => []AuditTrue
<1>1. Accounted => AuditTrue
  BY DEF Accounted, Account, Progress, Places, Verdicts, Verdict, AuditTrue
<1>. QED BY <1>1, AlwaysAccounted, PTL

\* A stored result has its files, and a file without a row is one of a call that
\* has gone wrong in a known way.
THEOREM FilesAreAccounted == Spec => []FilesAccounted
<1>1. Accounted /\ OfCalls => FilesAccounted
  BY DEF Accounted, Account, Files, OfCalls, FilesAccounted
<1>. QED BY <1>1, AlwaysAccounted, AlwaysOfCalls, PTL

\* A result is stored without the caller's knowledge only when it could not be
\* read back, the profile went, the model made up token counts, or the process
\* stopped.
THEOREM StoredResultIsReported == Spec => []StoredIsReported
<1>1. Accounted /\ OfCalls => StoredIsReported
  <2>1. ASSUME Accounted, OfCalls, NEW c \in stored, call[c].pc = "ended"
        PROVE  \/ call[c].told \in {"succeeded", "no_pdf"}
               \/ call[c].step \in {"tailor", "extract"} /\ ~profile
               \/ MadeUp(c)
               \/ call[c].told \in {"unread", "cut"}
    <3>1. c \in Calls
      BY <2>1 DEF OfCalls
    <3>. QED BY <2>1, <3>1 DEF Accounted, Account, Progress, Verdicts, Verdict
  <2>. QED BY <2>1 DEF StoredIsReported
<1>. QED BY <1>1, AlwaysAccounted, AlwaysOfCalls, PTL

----------------------------------------------------------------------------
(* Which files a call can have.                                            *)

\* Only beautifications write HTML, only they and tailorings a PDF.
MadeBy ==
  /\ \A c \in html : call[c].step = "beautify"
  /\ \A c \in pdf : call[c].step \in {"tailor", "beautify"}

\* The step of a call is fixed when it is asked for.
LEMMA StepIsFixed ==
  ASSUME Accounted, [Next]_vars, NEW c \in Calls, call[c].pc # "new"
  PROVE  call'[c].step = call[c].step
<1>. CallsOK
  BY DEF Accounted
<1>1. ASSUME NEW d \in Calls, Step(d)
      PROVE  call'[c].step = call[c].step
  <2>1. \/ call' = call
        \/ \E pc : Goes(d, pc)
        \/ \E told : Ends(d, told)
        \/ \E v : call' = [call EXCEPT ![d].pc = "store", ![d].value = v]
    BY <1>1 DEF Step, Unavailable, Fails, Answered, StoreRow, Stores, Unread, Loses,
                Cancelled, WriteResume, StoreResume, WriteHtml, Render, StoreBeautified, AuditSuccess
  <2>2. CASE \E pc : Goes(d, pc)
    BY <2>2, Gone
  <2>3. CASE \E told : Ends(d, told)
    BY <2>3, Ended
  <2>4. ASSUME NEW v, call' = [call EXCEPT ![d].pc = "store", ![d].value = v]
        PROVE  call'[c].step = call[c].step
    <3>1. call'[c] = IF c = d THEN [call[d] EXCEPT !.pc = "store", !.value = v] ELSE call[c]
      BY <2>4 DEF CallsOK
    <3>2. Record(call[d])
      BY DEF CallsOK
    <3>. QED BY <3>1, <3>2 DEF Record
  <2>. QED BY <2>1, <2>2, <2>3, <2>4
<1>2. ASSUME NEW d \in Calls, NEW step \in Steps, NEW client \in Clients,
             Start(d, step, client)
      PROVE  call'[c].step = call[c].step
  BY <1>2 DEF Start, CallsOK
<1>3. CASE Crash
  <2>1. \/ call'[c] = call[c]
        \/ call'[c] = [call[c] EXCEPT !.pc = "ended", !.told = "cut"]
    BY <1>3 DEF Crash
  <2>2. Record(call[c])
    BY DEF CallsOK
  <2>. QED BY <2>1, <2>2 DEF Record
<1>4. CASE UNCHANGED call
  BY <1>4
<1>. QED BY <1>1, <1>2, <1>3, <1>4 DEF Next, DeleteProfile, vars

\* A file is new only to a call of a step that writes it.
LEMMA NewFiles ==
  ASSUME [Next]_vars
  PROVE  /\ \A c \in html' \ html : call[c].step = "beautify" /\ call[c].pc # "new"
         /\ \A c \in pdf' \ pdf :
              call[c].step \in {"tailor", "beautify"} /\ call[c].pc # "new"
<1>1. ASSUME NEW d \in Calls, Step(d)
      PROVE  /\ html' \subseteq html \cup {d} /\ pdf' \subseteq pdf \cup {d}
             /\ html' # html => call[d].step = "beautify" /\ call[d].pc = "store"
             /\ pdf' # pdf => \/ call[d].step = "tailor" /\ call[d].pc = "store"
                              \/ call[d].step = "beautify" /\ call[d].pc = "render"
  BY <1>1 DEF Step, Unavailable, Fails, Answered, StoreRow, Stores, Unread, Loses,
              Cancelled, WriteResume, StoreResume, WriteHtml, Render, StoreBeautified, AuditSuccess, At, disk
<1>2. CASE UNCHANGED disk
  BY <1>2 DEF disk
<1>. QED BY <1>1, <1>2 DEF Next, Start, DeleteProfile, Crash, vars

LEMMA NextMadeBy == Accounted /\ OfCalls /\ MadeBy /\ [Next]_vars => MadeBy'
<1>. SUFFICES ASSUME Accounted, OfCalls, OfCalls', MadeBy, [Next]_vars PROVE MadeBy'
  BY NextOfCalls
<1>1. \A c \in html \cup pdf : c \in Calls /\ call[c].pc # "new"
  BY DEF OfCalls, Accounted, Account, Files
<1>2. \A c \in html' \cup pdf' : call'[c].step = call[c].step
  BY <1>1, NewFiles, StepIsFixed DEF OfCalls
<1>. QED BY <1>1, <1>2, NewFiles DEF MadeBy

\* A call that has ended, and no other, has an answer; only such a call is
\* audited; only beautifications have HTML, only they and tailorings a PDF.
THEOREM TypeCorrect == Spec => []TypeOK
<1>1. Init => MadeBy
  BY DEF Init, MadeBy
<1>2. ASSUME Accounted, MadeBy
      PROVE  TypeOK
  <2>1. ASSUME NEW c \in Calls
        PROVE  /\ call[c].pc \in Places /\ call[c].step \in Steps \cup {"none"}
               /\ call[c].told \in Verdicts \cup {"none"}
               /\ (call[c].told = "none") = (call[c].pc # "ended")
               /\ audit[c] # "none" => call[c].pc = "ended"
               /\ audit[c] \in {"none", "failed", "succeeded"}
    BY <1>2, <2>1 DEF Accounted, Account, Progress, Verdicts, Verdict
  <2>2. audit \in [Calls -> {"none", "failed", "succeeded"}]
    BY <1>2, <2>1 DEF Accounted, CallsOK
  <2>. QED BY <1>2, <2>1, <2>2 DEF TypeOK, MadeBy, Places, Verdicts
<1>. QED BY <1>1, <1>2, NextMadeBy, AlwaysAccounted, AlwaysOfCalls, PTL DEF Spec

----------------------------------------------------------------------------
(* What is stored needs no further cleaning.                               *)

FieldNames(step) ==
  CASE step = "evaluate" -> {"score", "text", "list"}
    [] step = "tailor"   -> {"doc", "list", "tokens"}
    [] step = "extract"  -> {"text", "list", "skills"}
    [] step = "beautify" -> {"doc"}

LEMMA AnswerFields ==
  ASSUME NEW step \in Steps, NEW a \in Answers(step)
  PROVE  /\ DOMAIN a = {"fence", "form", "extra", "fields"}
         /\ a = [x \in DOMAIN a |-> a[x]]
         /\ DOMAIN a.fields = FieldNames(step)
<1>1. DOMAIN Fields(step) = FieldNames(step)
  BY DEF Steps, Fields, FieldNames
<1>2. /\ DOMAIN AsAsked(step) = FieldNames(step)
      /\ \A p \in Payloads(step) : DOMAIN p = FieldNames(step)
  BY <1>1 DEF AsAsked, Payloads
<1>3. \E n, m, x, p : a = Answer(n, m, x, p) /\ DOMAIN p = FieldNames(step)
  <2>. DEFINE Whole(p) == Answer("none", "object", FALSE, p)
              Shaped(n, m, x) == Answer(n, m, x, AsAsked(step))
              S == {Whole(p) : p \in Payloads(step)}
              T == {Shaped(n, m, x) : n \in {"none", "closed", "open"},
                      m \in {"object", "array", "broken"}, x \in BOOLEAN}
  <2>1. a \in S \/ a \in T
    <3>1. Answers(step) = S \cup (IF step = "beautify" THEN {} ELSE T)
      BY DEF Answers
    <3>. HIDE DEF S, T
    <3>. QED BY <3>1
  <2>2. CASE a \in S
    <3>1. \E p \in Payloads(step) : a = Whole(p)
      <4>. HIDE DEF Whole
      <4>. QED BY <2>2
    <3>. QED BY <1>2, <3>1
  <2>3. CASE a \in T
    <3>1. \E n, m, x : a = Shaped(n, m, x)
      <4>. HIDE DEF Shaped
      <4>. QED BY <2>3
    <3>. QED BY <1>2, <3>1
  <2>. HIDE DEF S, T
  <2>. QED BY <2>1, <2>2, <2>3
<1>. QED BY <1>3 DEF Answer

\* The value that is handed on.
LEMMA NormalFields ==
  ASSUME NEW step \in Steps, NEW a \in Answers(step)
  PROVE  /\ DOMAIN Normal(a) = {"fence", "form", "extra", "fields"}
         /\ Normal(a) = [x \in DOMAIN Normal(a) |-> Normal(a)[x]]
         /\ DOMAIN Normal(a).fields = FieldNames(step)
         /\ Normal(a).fields = [f \in FieldNames(step) |-> Normal(a).fields[f]]
         /\ \A f \in FieldNames(step) : Normal(a).fields[f] = Stripped(a.fields[f])
BY AnswerFields DEF Normal

Clean(step, p) ==
  /\ \A f \in DOMAIN p \ {"tokens"} : p[f] \in {"ok", "none", "absent", "invented"}
  /\ \A f \in DOMAIN p \cap {"score", "doc"} : p[f] \in {"ok", "invented"}
  /\ \E f \in DOMAIN p \ {"tokens"} : p[f] \notin {"absent", "none"}
  /\ step = "beautify" => p.doc = "ok"

LEMMA AcceptedIsClean ==
  ASSUME NEW step \in Steps, NEW a \in Answers(step), ClientAccepts(step, a)
  PROVE  /\ CallerAccepts(step, Normal(a)) => Clean(step, Normal(a).fields)
         /\ step = "tailor" =>
              LET v == [Normal(a) EXCEPT !.fields.tokens = "ok"] IN
              CallerAccepts(step, v) => Clean(step, v.fields)
<1>. DEFINE p == a.fields
            q == Normal(a).fields
<1>1. /\ DOMAIN q = FieldNames(step)
      /\ \A f \in FieldNames(step) : q[f] = Stripped(p[f])
  BY NormalFields
<1>. HIDE DEF p, q
<1>2. CASE step = "evaluate"
  <2>1. p.score = "ok" /\ Text(p.text) /\ List(p.list)
    BY <1>2 DEF ClientAccepts, Meets, EvaluationOk, p
  <2>2. q.score = "ok" /\ q.text \in {"ok"} /\ q.list \in {"ok", "none"}
    BY <1>1, <1>2, <2>1 DEF Text, List, Stripped, FieldNames
  <2>. QED BY <1>1, <1>2, <2>2 DEF Clean, FieldNames, q
<1>3. CASE step = "extract"
  <2>1. CallerAccepts(step, Normal(a)) => ExtractionOk(q)
    BY <1>3 DEF CallerAccepts, Meets, q
  <2>2. /\ q.text = Stripped(p.text) /\ q.list = Stripped(p.list)
        /\ q.skills = Stripped(p.skills)
    BY <1>1, <1>3 DEF FieldNames
  <2>3. ExtractionOk(q) =>
          /\ q.text \in {"ok", "absent"} /\ q.list \in {"ok", "none", "absent"}
          /\ q.skills \in {"ok", "absent"}
          /\ q.text = "ok" \/ q.list = "ok" \/ q.skills = "ok"
    BY <2>2 DEF ExtractionOk, ProfileText, Text, List, Absent, Stripped
  <2>. QED BY <1>1, <1>3, <2>1, <2>3 DEF Clean, FieldNames, q
<1>4. CASE step = "beautify"
  <2>1. CallerAccepts(step, Normal(a)) => BeautifyOk(q)
    BY <1>4 DEF CallerAccepts, Meets, q
  <2>2. q.doc = Stripped(p.doc)
    BY <1>1, <1>4 DEF FieldNames
  <2>3. BeautifyOk(q) => q.doc = "ok"
    BY <2>2 DEF BeautifyOk, Text, HtmlOk, Unsafe, Stripped, Document, Plain
  <2>. QED BY <1>1, <1>4, <2>1, <2>3 DEF Clean, FieldNames, q
<1>5. CASE step = "tailor"
  <2>1. \A r : TailorOk(r) /\ r.doc = Stripped(p.doc) /\ r.list = Stripped(p.list) =>
               r.doc \in {"ok", "invented"} /\ r.list \in {"ok", "none"}
    BY DEF TailorOk, Text, List, Stripped
  <2>2. q.doc = Stripped(p.doc) /\ q.list = Stripped(p.list)
    BY <1>1, <1>5 DEF FieldNames
  <2>3. CallerAccepts(step, Normal(a)) => TailorOk(q)
    BY <1>5 DEF CallerAccepts, Meets, q
  <2>4. ASSUME NEW r, DOMAIN r = {"doc", "list", "tokens"},
               r.doc \in {"ok", "invented"}, r.list \in {"ok", "none"}
        PROVE  Clean(step, r)
    BY <1>5, <2>4 DEF Clean
  <2>5. CallerAccepts(step, Normal(a)) => Clean(step, q)
    BY <1>1, <1>5, <2>1, <2>2, <2>3, <2>4 DEF FieldNames
  <2>. DEFINE v == [Normal(a) EXCEPT !.fields.tokens = "ok"]
  <2>6. DOMAIN v.fields = {"doc", "list", "tokens"} /\ v.fields.doc = q.doc
        /\ v.fields.list = q.list
    BY <1>5, NormalFields DEF FieldNames, q
  <2>7. CallerAccepts(step, v) => TailorOk(v.fields)
    BY <1>5 DEF CallerAccepts, Meets
  <2>. HIDE DEF v
  <2>8. CallerAccepts(step, v) => Clean(step, v.fields)
    BY <2>1, <2>2, <2>4, <2>6, <2>7
  <2>. QED BY <2>5, <2>8 DEF v, q
<1>. QED BY <1>2, <1>3, <1>4, <1>5 DEF Steps

\* From the contracts to the table, nobody touches the value.
CleanInHand ==
  \A c \in Calls :
    c \in stored \/ call[c].pc \in {"store", "render", "commit"} =>
      Clean(call[c].step, call[c].value.fields)

LEMMA NextCleanInHand == Accounted /\ CleanInHand /\ [Next]_vars => CleanInHand'
<1>. SUFFICES ASSUME Accounted, CleanInHand, [Next]_vars PROVE CleanInHand'
  OBVIOUS
<1>1. CallsOK /\ \A c \in Calls : Progress(c)
  BY DEF Accounted, Account
<1>2. ASSUME NEW c \in Calls, \E pc : Goes(c, pc), stored' \subseteq stored \cup {c},
             call[c].pc \in {"store", "render", "commit", "audit"}
      PROVE  CleanInHand'
  <2>1. Clean(call[c].step, call[c].value.fields)
    BY <1>1, <1>2 DEF CleanInHand, Progress
  <2>2. \A d \in Calls : call'[d].step = call[d].step /\ call'[d].value = call[d].value
    BY <1>1, <1>2, Gone
  <2>3. \A d \in Calls \ {c} : call'[d] = call[d]
    BY <1>1, <1>2, Gone
  <2>. QED BY <1>2, <2>1, <2>2, <2>3 DEF CleanInHand
<1>3. ASSUME NEW c \in Calls, \E told : Ends(c, told),
             \/ UNCHANGED stored
             \/ stored' = stored \cup {c} /\ call[c].pc \in {"store", "commit"}
      PROVE  CleanInHand'
  <2>1. /\ call'[c].pc = "ended"
        /\ \A d \in Calls : call'[d].step = call[d].step /\ call'[d].value = call[d].value
    BY <1>1, <1>3, Ended
  <2>2. \A d \in Calls \ {c} : call'[d] = call[d]
    BY <1>1, <1>3, Ended
  <2>. QED BY <1>3, <2>1, <2>2 DEF CleanInHand
<1>4. ASSUME NEW c \in Calls, call[c].step \in Steps,
             NEW a \in Answers(call[c].step), Answered(c, a), ~Fails(c)
      PROVE  CleanInHand'
  <2>. DEFINE step == call[c].step
              v == IF step = "tailor" /\ call[c].client = "anthropic"
                   THEN [Normal(a) EXCEPT !.fields.tokens = "ok"] ELSE Normal(a)
              x == [call[c] EXCEPT !.pc = "store", !.value = v]
  <2>1. /\ ClientAccepts(step, a) /\ CallerAccepts(step, v)
        /\ call' = [call EXCEPT ![c].pc = "store", ![c].value = v]
        /\ UNCHANGED stored
    BY <1>4 DEF Answered
  <2>2. Clean(step, v.fields)
    BY <1>4, <2>1, AcceptedIsClean
  <2>. HIDE DEF v
  <2>3. x.step = step /\ x.value = v
    BY <1>1 DEF CallsOK, Record
  <2>4. \A d \in Calls : call'[d] = IF d = c THEN x ELSE call[d]
    BY <1>1, <2>1 DEF CallsOK
  <2>. HIDE DEF x
  <2>. QED BY <2>1, <2>2, <2>3, <2>4 DEF CleanInHand
<1>5. ASSUME NEW c \in Calls, Step(c)
      PROVE  CleanInHand'
  <2>1. CASE Unavailable(c) \/ Fails(c)
    BY <1>3, <2>1 DEF Unavailable, Fails
  <2>2. CASE \E step \in Steps : /\ call[c].step = step
                                 /\ \E a \in Answers(step) : Answered(c, a) /\ ~Fails(c)
    BY <1>4, <2>2
  <2>3. CASE StoreRow(c)
    BY <1>2, <1>3, <2>3 DEF StoreRow, Stores, Unread, Loses, At
  <2>4. CASE Cancelled(c) \/ WriteResume(c) \/ Render(c) \/ WriteHtml(c)
    BY <1>2, <1>3, <2>4 DEF Cancelled, WriteResume, Render, WriteHtml, At
  <2>5. CASE StoreResume(c) \/ StoreBeautified(c)
    BY <1>2, <1>3, <2>5 DEF StoreResume, StoreBeautified, Stores, Unread, Loses, At
  <2>6. CASE AuditSuccess(c)
    BY <1>3, <2>6 DEF AuditSuccess
  <2>. QED BY <1>5, <2>1, <2>2, <2>3, <2>4, <2>5, <2>6 DEF Step
<1>6. ASSUME NEW c \in Calls, NEW step, NEW client, Start(c, step, client)
      PROVE  CleanInHand'
  <2>. DEFINE x == [New EXCEPT !.pc = "llm", !.step = step, !.client = client]
  <2>1. x.pc = "llm" /\ call[c].pc = "new" /\ UNCHANGED stored
    BY <1>6 DEF New, Start
  <2>2. \A d \in Calls : call'[d] = IF d = c THEN x ELSE call[d]
    BY <1>1, <1>6 DEF CallsOK, Start
  <2>. HIDE DEF x
  <2>3. c \notin stored
    BY <1>1, <2>1 DEF Progress
  <2>. QED BY <2>1, <2>2, <2>3 DEF CleanInHand
<1>7. CASE Crash
  <2>1. /\ UNCHANGED stored
        /\ \A c \in Calls : call'[c] = IF call[c].pc \in {"new", "ended"} THEN call[c]
                            ELSE [call[c] EXCEPT !.pc = "ended", !.told = "cut"]
    BY <1>7 DEF Crash
  <2>2. \A c \in Calls : /\ call'[c].step = call[c].step /\ call'[c].value = call[c].value
                         /\ call'[c].pc \in {call[c].pc, "ended"}
    BY <1>1, <2>1 DEF CallsOK, Record
  <2>. QED BY <2>1, <2>2 DEF CleanInHand
<1>8. CASE DeleteProfile \/ UNCHANGED vars
  BY <1>8 DEF DeleteProfile, vars, CleanInHand
<1>. QED BY <1>5, <1>6, <1>7, <1>8 DEF Next

\* Whatever the model answers, and whichever client reads the answer, what is
\* stored is within the bounds of its contract and stripped.
THEOREM StoredIsClean == Spec => []StoredClean
<1>1. Init => CleanInHand
  BY DEF Init, New, CleanInHand
<1>2. CleanInHand /\ OfCalls => StoredClean
  <2>1. ASSUME CleanInHand, OfCalls, NEW c \in stored
        PROVE  Clean(call[c].step, call[c].value.fields)
    BY <2>1 DEF CleanInHand, OfCalls
  <2>. QED BY <2>1 DEF StoredClean, Clean
<1>. QED
  BY <1>1, <1>2, NextCleanInHand, AlwaysAccounted, AlwaysOfCalls, PTL DEF Spec
=============================================================================
