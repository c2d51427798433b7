------------------------------ MODULE Profiles -------------------------------
(***************************************************************************)
(* Baseline profiles and what is made from them: the default flag, the     *)
(* structured data, the uploaded PDF, the proof points of a profile, the   *)
(* analysis it scores and the resume tailored from it (api/profile.py,     *)
(* services/evaluator_v2.py, api/proof_points.py,                          *)
(* services/proof_points.py, workers/tailor.py).                           *)
(*                                                                         *)
(* A request runs in a session of its own.  It reads the profile, and its  *)
(* commit writes by primary key the columns whose value differs from what  *)
(* it read.  Clearing the default flag of the other profiles is an UPDATE  *)
(* of many rows: it sees the rows committed when it starts, locks them one *)
(* by one, and waits for a row another session has locked.                 *)
(***************************************************************************)
EXTENDS Naturals, FiniteSets, FiniteSetsExt

CONSTANTS
  Sessions,     \* requests served at the same time
  Texts,        \* skills_text of a profile
  Points,       \* proof points relevant to the description that is scored
  Keep,         \* a field the request leaves alone
  Existing,     \* profiles stored before, the first of them the default, each
                \* with an analysis it has scored
  MaxProfiles,  \* bound: profiles ever created
  MaxRequests,  \* bound: requests
  MaxRestarts   \* bound: restarts of the server

ASSUME ProfilesAssumption ==
  /\ Keep \notin Texts \cup {"none", "manual"}
  /\ Texts # {} /\ Texts \cap {"none", "manual"} = {}
  /\ Existing \in 0..MaxProfiles /\ MaxProfiles \in Nat
  /\ MaxRequests \in Nat /\ MaxRestarts \in Nat

VARIABLES
  profile,   \* baseline_profile, by id
  serial,    \* the last id given out
  file,      \* profiles whose PDF is on disk
  point,     \* proof_points: the profile each belongs to
  analysis,  \* job_analyses of one description, by the profile that scored it
  resumes,   \* generated resumes of those analyses
  session,   \* each request: where it is and what it has read
  requests,  \* requests so far
  restarts,  \* restarts so far
  deleted,   \* history: profiles that were deleted
  given,     \* history: the profile the user gave each proof point to
  mixed,     \* history: sessions whose request met another writer of profiles
  rivals,    \* history: pairs of profiles, one of them not committed when the
             \* request that makes the other one the default started
  cut,       \* history: uploads that broke off between their two commits
  uploaded   \* history: profiles created by an upload

rows == <<profile, serial, file, point, analysis, resumes>>
history == <<deleted, given, mixed, rivals, cut, uploaded>>
vars == <<rows, session, requests, restarts, history>>

Ids    == 1..MaxProfiles
Global == 0  \* profile_id of a proof point, or an analysis, without a profile
NoRow  == [text |-> Keep, default |-> FALSE, structured |-> "none", pdf |-> FALSE]
FirstText == CHOOSE t \in Texts : TRUE
NoPoint == MaxProfiles + 1
NoAnalysis == MaxProfiles + 1

Exists(i) == profile[i] # NoRow
Stored    == {i \in Ids : Exists(i)}
Defaults  == {i \in Stored : profile[i].default}

\* get_default_profile: the latest default, or else the latest profile.
DefaultProfile ==
  IF Defaults # {} THEN Max(Defaults)
  ELSE IF Stored # {} THEN Max(Stored) ELSE Global

\* A request: what it does to which profile, the row it has read, the values it
\* will write, and the rows its UPDATE of the other profiles has locked and has
\* still to lock.
Request(op, i, seen) ==
  [pc |-> "commit", op |-> op, id |-> i, seen |-> seen, text |-> Keep,
   flag |-> "keep", structured |-> Keep, todo |-> {}, locks |-> {},
   points |-> {}]

\* _set_only_default: a request that sets the flag begins with the UPDATE of the
\* other rows.
SetOnlyDefault(x, others) ==
  IF x.flag = "on" THEN [x EXCEPT !.pc = "clear", !.todo = others] ELSE x

Free == [Request("none", Global, NoRow) EXCEPT !.pc = "free"]
Idle(s) == session[s] = Free
Writes(s) == ~Idle(s) /\ session[s].op \in {"create", "update", "structure", "delete"}
Opens(s) == session[s].pc \in {"clear", "commit"} /\ session[s].op = "create"
SetsDefault(s) == session[s].pc \in {"clear", "commit"} /\ session[s].flag = "on"

\* Profile i is paired with what the requests in S are about.
Pair(i, S) == rivals' = rivals \cup {{i, session[t].id} : t \in S}
LockedByOther(s, i) == \E t \in Sessions \ {s} : i \in session[t].locks

Init ==
  /\ profile = [i \in Ids |->
       IF i <= Existing THEN [NoRow EXCEPT !.text = FirstText,
                                           !.default = (i = 1)]
       ELSE NoRow]
  /\ serial = Existing
  /\ file = {}
  /\ point = [q \in Points |-> NoPoint]
  /\ analysis = [i \in Ids |-> IF i <= Existing THEN i ELSE NoAnalysis]
  /\ resumes = {}
  /\ session = [s \in Sessions |-> Free]
  /\ requests = 0 /\ restarts = 0
  /\ deleted = {} /\ given = [q \in Points |-> NoPoint] /\ mixed = {}
  /\ rivals = {} /\ cut = {} /\ uploaded = {}

\* A request arrives, unless it is answered from what it reads at once.
Arrive(s, request) ==
  /\ Idle(s)
  /\ requests < MaxRequests
  /\ requests' = requests + 1
  /\ session' = [session EXCEPT ![s] = request]
  /\ UNCHANGED restarts

\* A request that writes a profile meets the writers that are under way.
Meets(s) ==
  LET others == {t \in Sessions \ {s} : Writes(t)}
  IN  mixed' = IF others = {} THEN mixed \ {s} ELSE mixed \cup others \cup {s}

End(s) == session' = [session EXCEPT ![s] = Free]

----------------------------------------------------------------------------
(* Creating a profile, from text or from an uploaded PDF.                   *)

\* A default set without clearing the others that are stored.
MutCreateFlush(s, flag, upload) ==
  LET i == serial + 1 IN
  /\ serial < MaxProfiles
  /\ serial' = i
  /\ Arrive(s, [Request("create", i, NoRow) EXCEPT !.flag = flag])
  /\ Meets(s)
  /\ uploaded' = IF upload THEN uploaded \cup {i} ELSE uploaded
  /\ UNCHANGED <<profile, file, point, analysis, resumes, deleted, given, cut, rivals>>

\* The row is inserted, and nobody sees it before the commit: not the requests
\* that make another profile the default in the meantime.
CreateFlush(s, flag, upload) ==
  LET i == serial + 1 IN
  /\ serial < MaxProfiles
  /\ serial' = i
  /\ Arrive(s, SetOnlyDefault([Request("create", i, NoRow) EXCEPT !.flag = flag], Stored))
  /\ Meets(s)
  /\ Pair(i, {t \in Sessions : SetsDefault(t) \/ (flag = "on" /\ Opens(t))})
  /\ uploaded' = IF upload THEN uploaded \cup {i} ELSE uploaded
  /\ UNCHANGED <<profile, file, point, analysis, resumes, deleted, given, cut>>

\* _set_only_default: one row more of the UPDATE of all other profiles.  A row
\* that is gone by the time it is free is passed over.
ClearRow(s) ==
  /\ session[s].pc = "clear"
  /\ \E i \in session[s].todo :
       /\ ~LockedByOther(s, i)
       /\ session' = [session EXCEPT
            ![s].todo = @ \ {i},
            ![s].locks = IF Exists(i) THEN @ \cup {i} ELSE @]
  /\ UNCHANGED <<rows, requests, restarts, history>>

ClearDone(s) ==
  /\ session[s].pc = "clear" /\ session[s].todo = {}
  /\ session' = [session EXCEPT ![s].pc = "commit"]
  /\ UNCHANGED <<rows, requests, restarts, history>>

\* The rows after the commit of s, which leaves row in the profile it is about.
Committed(s, row) ==
  profile' = [i \in Ids |->
    IF i = session[s].id THEN row
    ELSE IF i \in session[s].locks THEN [profile[i] EXCEPT !.default = FALSE]
    ELSE profile[i]]

CreateCommit(s) ==
  LET x == session[s] IN
  /\ x.pc = "commit" /\ x.op = "create"
  /\ Committed(s, [NoRow EXCEPT !.text = FirstText, !.default = (x.flag = "on")])
  /\ IF x.id \in uploaded
     THEN session' = [session EXCEPT ![s].pc = "file", ![s].locks = {}]
     ELSE End(s)
  /\ UNCHANGED <<serial, file, point, analysis, resumes, requests, restarts,
                 history>>

\* The PDF is written, in the directory of the profile; or the disk refuses it,
\* and the request fails with the profile stored.
SaveFile(s) ==
  /\ session[s].pc = "file"
  /\ \/ /\ file' = file \cup {session[s].id}
        /\ session' = [session EXCEPT ![s].pc = "path"]
        /\ UNCHANGED cut
     \/ /\ cut' = cut \cup {session[s].id}
        /\ End(s)
        /\ UNCHANGED file
  /\ UNCHANGED <<profile, serial, point, analysis, resumes, requests, restarts,
                 deleted, given, mixed, rivals, uploaded>>

\* Its path is stored in a second transaction, which raises when the profile
\* has been deleted.
SavePath(s) ==
  LET i == session[s].id IN
  /\ session[s].pc = "path"
  /\ ~LockedByOther(s, i)
  /\ IF Exists(i)
     THEN profile' = [profile EXCEPT ![i].pdf = TRUE] /\ End(s)
     ELSE UNCHANGED profile /\ End(s)
  /\ UNCHANGED <<serial, file, point, analysis, resumes, requests, restarts,
                 history>>

----------------------------------------------------------------------------
(* Changing a profile.                                                      *)

UpdateRead(s, i, text, flag) ==
  /\ Exists(i)
  /\ Arrive(s, SetOnlyDefault([Request("update", i, profile[i]) EXCEPT
                                 !.text = text, !.flag = flag], Stored \ {i}))
  /\ Meets(s)
  /\ Pair(i, IF flag = "on" THEN {t \in Sessions : Opens(t)} ELSE {})
  /\ UNCHANGED <<rows, deleted, given, cut, uploaded>>

\* PUT structured: the edited data, or nothing when the body is empty.
StructureRead(s, i, data) ==
  /\ Exists(i)
  /\ Arrive(s, [Request("structure", i, profile[i]) EXCEPT !.structured = data])
  /\ Meets(s)
  /\ UNCHANGED <<rows, deleted, given, rivals, cut, uploaded>>

\* The extraction sends the text it has read to the LLM.
ExtractRead(s, i) ==
  /\ Exists(i)
  /\ Arrive(s, [Request("structure", i, profile[i]) EXCEPT
                  !.structured = profile[i].text, !.pc = "llm"])
  /\ Meets(s)
  /\ UNCHANGED <<rows, deleted, given, rivals, cut, uploaded>>

ExtractAnswer(s) ==
  /\ session[s].pc = "llm" /\ session[s].op = "structure"
  /\ \/ session' = [session EXCEPT ![s].pc = "commit"]
     \/ End(s)  \* the call failed, or its output is not valid
  /\ UNCHANGED <<rows, requests, restarts, history>>

\* An update that writes back the whole row it has read.
MutWritten(cur, x) ==
  [cur EXCEPT
     !.text = IF x.text = Keep THEN x.seen.text ELSE x.text,
     !.default = IF x.flag = "keep" THEN x.seen.default ELSE x.flag = "on",
     !.structured = IF x.structured = Keep THEN x.seen.structured ELSE x.structured,
     !.pdf = x.seen.pdf]

\* The row cur after the UPDATE of the request x: only columns that differ
\* from what x has read are written.
Written(cur, x) ==
  [cur EXCEPT
     !.text = IF x.text \in {Keep, x.seen.text} THEN @ ELSE x.text,
     !.default = IF x.flag = "on" /\ ~x.seen.default THEN TRUE
                 ELSE IF x.flag = "off" /\ x.seen.default THEN FALSE ELSE @,
     !.structured = IF x.structured \in {Keep, x.seen.structured} THEN @
                    ELSE x.structured]

ChangeCommit(s) ==
  LET x == session[s] IN
  /\ x.pc = "commit" /\ x.op \in {"update", "structure"}
  /\ ~LockedByOther(s, x.id)
  /\ IF Exists(x.id)
     THEN Committed(s, Written(profile[x.id], x)) /\ End(s)
     ELSE UNCHANGED profile /\ End(s)
  /\ UNCHANGED <<serial, file, point, analysis, resumes, requests, restarts,
                 history>>

----------------------------------------------------------------------------
(* Deleting a profile.  Its proof points and analyses lose their profile.   *)

DeleteRead(s, i) ==
  /\ Exists(i)
  /\ Arrive(s, Request("delete", i, profile[i]))
  /\ Meets(s)
  /\ UNCHANGED <<rows, deleted, given, rivals, cut, uploaded>>

DeleteCommit(s) ==
  LET i == session[s].id IN
  /\ session[s].pc = "commit" /\ session[s].op = "delete"
  /\ ~LockedByOther(s, i)
  /\ profile' = [profile EXCEPT ![i] = NoRow]
  /\ point' = [q \in Points |-> IF point[q] = i THEN Global ELSE point[q]]
  /\ analysis' = [a \in Ids |-> IF analysis[a] = i THEN Global ELSE analysis[a]]
  /\ deleted' = deleted \cup {i}
  /\ End(s)
  /\ UNCHANGED <<serial, file, resumes, requests, restarts, given, mixed, rivals,
                 cut, uploaded>>

----------------------------------------------------------------------------
(* Proof points.                                                            *)

\* POST or PATCH of a proof point, for the profile i or for none.
PointRead(s, q, i) ==
  /\ i \in Stored \cup {Global}
  /\ Arrive(s, [Request("point", i, NoRow) EXCEPT !.points = {<<q, point[q]>>}])
  /\ UNCHANGED <<rows, history>>

\* The commit raises when the profile, or the proof point, is gone; a profile
\* that is the one read is not written.
PointCommit(s) ==
  LET i == session[s].id
      q == (CHOOSE p \in session[s].points : TRUE)[1]
      seen == (CHOOSE p \in session[s].points : TRUE)[2]
      raises == \/ seen # i /\ i # Global /\ ~Exists(i)
                \/ seen # NoPoint /\ point[q] = NoPoint
  IN
  /\ session[s].pc = "commit" /\ session[s].op = "point"
  /\ IF raises THEN End(s) /\ UNCHANGED <<point, given>>
     ELSE IF seen = i THEN End(s) /\ UNCHANGED <<point, given>>
     ELSE /\ End(s)
          /\ point' = [point EXCEPT ![q] = i]
          /\ given' = [given EXCEPT ![q] = i]
  /\ UNCHANGED <<profile, serial, file, analysis, resumes, requests, restarts,
                 deleted, mixed, rivals, cut, uploaded>>

PointDelete(q) ==
  /\ point[q] # NoPoint
  /\ point' = [point EXCEPT ![q] = NoPoint]
  /\ given' = [given EXCEPT ![q] = NoPoint]
  /\ requests < MaxRequests
  /\ requests' = requests + 1
  /\ UNCHANGED <<profile, serial, file, analysis, resumes, session, restarts,
                 deleted, mixed, rivals, cut, uploaded>>

----------------------------------------------------------------------------
(* Scoring a description with a profile, and tailoring a resume for it.     *)

\* The profile is the one asked for, or the default one.  An analysis that
\* names it is the cached answer; one whose profile was deleted is not found.
Cached(i) == analysis[i] = i

EvaluateRead(s, i) ==
  /\ i \in Stored /\ ~Cached(i)
  /\ Arrive(s, [Request("evaluate", i, profile[i]) EXCEPT !.pc = "llm"])
  /\ UNCHANGED <<rows, history>>

\* The analysis is inserted, unless the LLM failed, the profile is gone or
\* another request has stored the analysis first.
EvaluateCommit(s) ==
  LET i == session[s].id IN
  /\ session[s].pc = "llm" /\ session[s].op = "evaluate"
  /\ \/ Exists(i) /\ ~Cached(i)
        /\ analysis' = [analysis EXCEPT ![i] = i] /\ End(s)
     \/ UNCHANGED analysis /\ End(s)
  /\ UNCHANGED <<profile, serial, file, point, resumes, requests, restarts,
                 history>>

\* The tailor worker reads the analysis scored by a, ...
TailorRead(s, a) ==
  /\ analysis[a] # NoAnalysis
  /\ Arrive(s, [Request("tailor", a, NoRow) EXCEPT !.pc = "baseline",
                                                  !.todo = {analysis[a]}])
  /\ UNCHANGED <<rows, history>>

\* The default profile, whichever has scored.
MutBaseline(link) == DefaultProfile

\* ... then its profile, or the default one when it names none, ...
Baseline(link) == IF link = Global THEN DefaultProfile
                  ELSE IF Exists(link) THEN link ELSE Global

TailorBaseline(s) ==
  LET b == Baseline(CHOOSE i \in session[s].todo : TRUE) IN
  /\ session[s].pc = "baseline"
  /\ IF b = Global THEN End(s)
     ELSE session' = [session EXCEPT ![s].pc = "points", ![s].todo = {b}]
  /\ UNCHANGED <<rows, requests, restarts, history>>

\* The proof points of all profiles.
MutEligible(b) == {q \in Points : point[q] # NoPoint}

\* ... then the proof points of that profile and those without a profile.
Eligible(b) == {q \in Points : point[q] \in {b, Global}}

TailorPoints(s) ==
  LET b == CHOOSE i \in session[s].todo : TRUE IN
  /\ session[s].pc = "points"
  /\ session' = [session EXCEPT ![s].pc = "draft", ![s].points =
       {<<q, given[q]>> : q \in Eligible(b)}]
  /\ UNCHANGED <<rows, requests, restarts, history>>

\* The LLM answers and the resume is stored, with the proof points it was
\* given; or the call fails.
TailorStore(s) ==
  LET x == session[s]
      b == CHOOSE i \in x.todo : TRUE
  IN
  /\ x.pc = "draft"
  /\ \/ /\ resumes' = resumes \cup {[of |-> x.id, baseline |-> b, points |-> x.points]}
        /\ End(s)
     \/ UNCHANGED resumes /\ End(s)
  /\ UNCHANGED <<profile, serial, file, point, analysis, requests, restarts,
                 history>>

----------------------------------------------------------------------------
(* Deadlocks and restarts.                                                  *)

\* The rows that s cannot do without, while they are locked.
Needs(s) ==
  LET x == session[s] IN
  IF x.pc = "clear" THEN x.todo
  ELSE IF x.pc = "path" THEN {x.id}
  ELSE IF x.pc = "commit" /\ x.op \in {"update", "structure", "delete"} THEN {x.id}
  ELSE {}

WaitsFor(s, t) ==
  /\ \A i \in Needs(s) : LockedByOther(s, i)
  /\ \E i \in Needs(s) : t # s /\ i \in session[t].locks

DeadlockOf(S) == S # {} /\ \A s \in S : \E t \in S : WaitsFor(s, t)

\* PostgreSQL aborts one of the sessions that wait for each other.
Abort(s) ==
  /\ \E S \in SUBSET Sessions :
       s \in S /\ DeadlockOf(S) /\ \A T \in SUBSET S : DeadlockOf(T) => T = S
  /\ End(s)
  /\ UNCHANGED <<rows, requests, restarts, history>>

\* Open transactions are rolled back.  A file that was written stays.
Restart ==
  /\ restarts < MaxRestarts
  /\ \E s \in Sessions : ~Idle(s)
  /\ restarts' = restarts + 1
  /\ session' = [s \in Sessions |-> Free]
  /\ cut' = cut \cup {session[s].id : s \in {t \in Sessions : session[t].pc \in {"file", "path"}}}
  /\ UNCHANGED <<rows, requests, deleted, given, mixed, rivals, uploaded>>

----------------------------------------------------------------------------

NewRequest(s) ==
  \/ \E flag \in {"on", "off"}, upload \in BOOLEAN : CreateFlush(s, flag, upload)
  \/ \E i \in Ids :
       \/ \E text \in Texts \cup {Keep}, flag \in {"keep", "on", "off"} :
            UpdateRead(s, i, text, flag)
       \/ \E data \in {"none", "manual"} : StructureRead(s, i, data)
       \/ ExtractRead(s, i)
       \/ DeleteRead(s, i)
       \/ EvaluateRead(s, i)
       \/ TailorRead(s, i)
  \/ \E q \in Points, i \in Ids \cup {Global} : PointRead(s, q, i)

Step(s) ==
  \/ ClearRow(s) \/ ClearDone(s) \/ CreateCommit(s) \/ SaveFile(s) \/ SavePath(s)
  \/ ExtractAnswer(s) \/ ChangeCommit(s) \/ DeleteCommit(s) \/ PointCommit(s)
  \/ EvaluateCommit(s)
  \/ TailorBaseline(s) \/ TailorPoints(s) \/ TailorStore(s)
  \/ Abort(s)

Next ==
  \/ \E s \in Sessions : NewRequest(s) \/ Step(s)
  \/ \E q \in Points : PointDelete(q)
  \/ Restart

Spec == Init /\ [][Next]_vars

----------------------------------------------------------------------------
(* Properties.                                                              *)

ProfileRow == [text : Texts \cup {Keep}, default : BOOLEAN,
               structured : Texts \cup {"none", "manual"}, pdf : BOOLEAN]

Evidence == Points \X (0..NoPoint)

Places == {"free", "clear", "commit", "file", "path", "llm", "baseline", "points",
           "draft"}
Operations == {"create", "update", "structure", "delete", "point", "evaluate", "tailor"}

SessionRow ==
  [pc : Places, op : Operations \cup {"none"}, id : Ids \cup {Global},
   seen : ProfileRow, text : Texts \cup {Keep}, flag : {"keep", "on", "off"},
   structured : Texts \cup {"none", "manual", Keep}, todo : SUBSET (0..NoAnalysis),
   locks : SUBSET Ids, points : SUBSET Evidence]

\* The values the rows and the sessions can hold.
TypeOK ==
  /\ profile \in [Ids -> ProfileRow]
  /\ serial \in 0..MaxProfiles
  /\ file \subseteq Ids
  /\ point \in [Points -> 0..NoPoint]
  /\ analysis \in [Ids -> 0..NoAnalysis]
  /\ resumes \subseteq [of : Ids, baseline : Ids, points : SUBSET Evidence]
  /\ session \in [Sessions -> SessionRow]
  /\ requests \in 0..MaxRequests /\ restarts \in 0..MaxRestarts
  /\ deleted \subseteq Ids /\ given \in [Points -> 0..NoPoint]
  /\ mixed \subseteq Sessions /\ cut \subseteq Ids /\ uploaded \subseteq Ids

\* At most one profile is the default, whatever updates race: two defaults can
\* stand side by side only when one of them was still being created, and so
\* invisible to _set_only_default, when the other's request cleared the flags.
OneDefault ==
  \A i, j \in Defaults : i = j \/ {i, j} \in rivals

\* A request that met no other writer of profiles keeps what it promises: the
\* default it sets is the only one, whatever mixture of defaults races had left
\* before, and the structured data it extracts is that of the current text.
AloneKeepsPromise ==
  [][\A s \in Sessions \ mixed :
       LET x == session[s] IN
       x.pc = "commit" /\ x.op \in {"create", "update", "structure"}
         /\ session'[s].pc \in {"free", "file"}
         /\ restarts' = restarts /\ profile'[x.id] # NoRow =>
         /\ x.flag = "on" => Defaults' = {x.id}
         /\ x.op = "structure" /\ x.structured \in Texts
              => profile'[x.id].structured = profile'[x.id].text]_vars

\* A resume is tailored from the profile that scored its analysis, unless that
\* profile has been deleted: a new default never replaces it.
BaselineKept ==
  \A r \in resumes : r.baseline = r.of \/ r.of \in deleted

\* The evidence a resume uses is that of its baseline, or global.  Evidence of
\* another profile reaches it only if that profile was deleted, which makes its
\* proof points global.
EvidenceOwned ==
  \A r \in resumes : \A p \in r.points :
    p[2] \in {r.baseline, Global} \cup deleted

\* A profile created by an upload has its PDF on disk and on its row, unless its
\* request is still at work, or was broken off by a restart or by the disk.
UploadKept ==
  \A i \in Stored \cap uploaded :
    \/ profile[i].pdf /\ i \in file
    \/ i \in cut
    \/ \E s \in Sessions : session[s].id = i /\ session[s].pc \in {"file", "path"}
=============================================================================
