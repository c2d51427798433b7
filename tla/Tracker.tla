------------------------------ MODULE Tracker --------------------------------
(***************************************************************************)
(* The application tracker (api/applications.py): an application links a   *)
(* stored listing, the analysis of its description and the resume that was *)
(* sent.  No key of the table keeps two applications of one job apart: the *)
(* handler looks for one first.  A request runs in a session of its own,   *)
(* reads, and writes at its commit the columns that differ from what it    *)
(* read.                                                                   *)
(***************************************************************************)
EXTENDS Naturals, Sequences, FiniteSetsExt

CONSTANTS
  Sessions,     \* requests served at the same time
  Listings,     \* job_listings
  Analyses,     \* job_analyses, by the description they score
  Status,       \* statuses of an application
  Bodies,       \* bound: the fields that a request may name together
  None,         \* an absent link, and a status the request leaves alone
  MaxApps,      \* bound: applications ever created
  MaxChanges,   \* bound: listings scored or deleted, and resumes stored
  MaxRequests   \* bound: requests of the tracker

ASSUME TrackerAssumption ==
  /\ None \notin Listings \cup Analyses \cup Status /\ Status # {}
  /\ Bodies \subseteq SUBSET {"listing", "analysis", "resume", "status"}
  /\ MaxApps \in Nat /\ MaxChanges \in Nat /\ MaxRequests \in Nat

VARIABLES
  gone,      \* listings that were deleted
  scored,    \* job_listings.job_analysis_id
  resumes,   \* generated_resumes, in the order of creation: their analyses
  app,       \* applications, by the order of creation
  serial,    \* applications created so far
  session,   \* each request: what it has read and will write
  changes,   \* listings scored or deleted, and resumes stored, so far
  requests,  \* requests so far
  raced,     \* history: pairs of applications created by requests that overlap
  patched,   \* history: applications a PATCH gave another listing, analysis or resume
  combined,  \* history: applications made or filled by a POST that names several links
  rescored   \* history: analyses that a listing has left for another one

links == <<gone, scored, resumes, changes>>
vars ==
  <<links, app, serial, session, requests, raced, patched, combined, rescored>>

Apps  == 1..MaxApps
Row(l, a, r, st) == [listing |-> l, analysis |-> a, resume |-> r, status |-> st]
NoApp == Row(None, None, 0, None)
Stored == {i \in Apps : app[i] # NoApp}

Free == [op |-> "none", id |-> 0, seen |-> NoApp, row |-> NoApp, last |-> 0,
         names |-> {}, several |-> FALSE]
Idle(s) == session[s] = Free

Init ==
  /\ gone = {} /\ scored = [l \in Listings |-> None]
  /\ resumes = <<>>
  /\ app = [i \in Apps |-> NoApp] /\ serial = 0
  /\ session = [s \in Sessions |-> Free]
  /\ changes = 0 /\ requests = 0
  /\ raced = {} /\ patched = {} /\ combined = {} /\ rescored = {}

----------------------------------------------------------------------------
(* What the tracker links to.                                               *)

Change == changes < MaxChanges /\ changes' = changes + 1

\* A listing is scored, for the first time or with a changed description or
\* prompt: it takes the analysis, which listings with one description share.
ScoreListing(l, a) ==
  /\ l \notin gone /\ scored[l] # a
  /\ Change
  /\ scored' = [scored EXCEPT ![l] = a]
  /\ rescored' = IF scored[l] = None THEN rescored ELSE rescored \cup {scored[l]}
  /\ UNCHANGED <<gone, resumes, app, serial, session, requests, raced, patched,
                 combined>>

\* A resume is stored: tailored, delivered or revised.
StoreResume(a) ==
  /\ Change
  /\ resumes' = Append(resumes, a)
  /\ UNCHANGED <<gone, scored, app, serial, session, requests, raced,
                 patched, combined, rescored>>

\* The listing is deleted, and the applications lose their link to it.
DeleteListing(l) ==
  /\ l \notin gone
  /\ Change
  /\ gone' = gone \cup {l}
  /\ app' = [i \in Apps |-> IF app[i].listing = l
                            THEN [app[i] EXCEPT !.listing = None] ELSE app[i]]
  /\ UNCHANGED <<scored, resumes, serial, session, requests, raced,
                 patched, combined, rescored>>

----------------------------------------------------------------------------
(* _latest_resume, _load_links and _find_existing.                          *)

\* The latest resume of any analysis.
MutLatestResume(a) == IF a = None THEN 0 ELSE Len(resumes)

LatestResume(a) == Max({0} \cup {r \in DOMAIN resumes : resumes[r] = a})

\* The resume a request names gives way to the latest one.
MutLoadLinks(l, a, r) ==
  LET b == IF a = None /\ l # None THEN scored[l] ELSE a
      c == IF b = None /\ r # 0 THEN resumes[r] ELSE b
  IN  [listing |-> l, analysis |-> c, resume |-> LatestResume(c)]

\* What a request names is kept; an analysis it does not name is that of the
\* listing or else of the resume; a resume it does not name is the latest one
\* of the analysis.
LoadLinks(l, a, r) ==
  LET b == IF a = None /\ l # None THEN scored[l] ELSE a
      c == IF b = None /\ r # 0 THEN resumes[r] ELSE b
  IN  [listing |-> l, analysis |-> c, resume |-> IF r = 0 THEN LatestResume(c) ELSE r]

Found(l, r) == (l = None \/ l \notin gone) /\ r \in 0..Len(resumes)

\* An application is found by its analysis alone, and only for a request with
\* no listing.
MutFindExisting(k) ==
  Max({0} \cup {i \in Stored : k.listing = None /\ k.analysis # None
                                 /\ app[i].analysis = k.analysis})

\* The newest application with one of the links.
FindExisting(k) ==
  Max({0} \cup {i \in Stored :
    \/ k.listing # None /\ app[i].listing = k.listing
    \/ k.analysis # None /\ app[i].analysis = k.analysis
    \/ k.resume # 0 /\ app[i].resume = k.resume})

----------------------------------------------------------------------------
(* Requests.                                                                *)

Arrive(s, request) ==
  /\ Idle(s) /\ requests < MaxRequests
  /\ requests' = requests + 1
  /\ session' = [session EXCEPT ![s] = request]
  /\ UNCHANGED <<links, app, serial, raced, patched, combined, rescored>>

Several(l, a, r) ==
  \/ l # None /\ a # None
  \/ (l # None \/ a # None) /\ r # 0

\* POST: an application of the job that exists takes the status and, when it has
\* none, the resume.  A manual record (no link) is never found.
CreateRead(s, l, a, r, st) ==
  LET k == LoadLinks(l, a, r)
      i == FindExisting(k)
  IN
  /\ Found(l, r)
  /\ Arrive(s,
       IF i = 0 THEN
         [Free EXCEPT !.op = "create", !.last = serial, !.several = Several(l, a, r),
                      !.row = Row(k.listing, k.analysis, k.resume, st)]
       ELSE
         [Free EXCEPT !.op = "update", !.id = i, !.seen = app[i],
                      !.several = Several(l, a, r),
                      !.row = [app[i] EXCEPT
                        !.resume = IF @ = 0 THEN k.resume ELSE @,
                        !.status = st]])

\* The new links of a PATCH: those it names, and the others as they were read.
Patch(i, names, l, a, r) ==
  LET old == app[i]
      k == LoadLinks(IF "listing" \in names THEN l ELSE old.listing,
                     IF "analysis" \in names THEN a ELSE old.analysis,
                     IF "resume" \in names THEN r ELSE old.resume)
  IN  Row(k.listing, k.analysis, k.resume, old.status)

\* PATCH, which names some of the links, perhaps with null, and perhaps the status.
UpdateRead(s, i, names, l, a, r, st) ==
  /\ i \in Stored
  /\ ("listing" \in names => l \notin gone) /\ ("resume" \in names => r <= Len(resumes))
  /\ Arrive(s, [Free EXCEPT
       !.op = "update", !.id = i, !.seen = app[i], !.names = names,
       !.row = [Patch(i, names, l, a, r) EXCEPT !.status = IF st = None THEN @ ELSE st]])

DeleteRead(s, i) ==
  i \in Stored /\ Arrive(s, [Free EXCEPT !.op = "delete", !.id = i])

End(s) ==
  /\ session' = [session EXCEPT ![s] = Free]
  /\ UNCHANGED <<links, requests, rescored>>

\* A link to a listing deleted since it was read raises.
CreateCommit(s) ==
  LET x == session[s]
      i == serial + 1
  IN
  /\ x.op = "create" /\ serial < MaxApps
  /\ End(s)
  /\ IF x.row.listing \in gone
     THEN UNCHANGED <<app, serial, raced, patched, combined>>
     ELSE /\ serial' = i
          /\ app' = [app EXCEPT ![i] = x.row]
          /\ raced' = raced \cup {{i, j} : j \in (x.last + 1)..serial}
          /\ combined' = IF x.several THEN combined \cup {i} ELSE combined
          /\ UNCHANGED patched

\* Columns that a request has not changed are not written.
Written(cur, x) ==
  [f \in DOMAIN cur |-> IF x.row[f] = x.seen[f] THEN cur[f] ELSE x.row[f]]

\* Histories of the requests that name links.
Patched(x) == IF x.names # {} THEN patched \cup {x.id} ELSE patched

Combined(x) == IF x.several THEN combined \cup {x.id} ELSE combined

\* The whole row is written back.
MutUpdateCommit(s) ==
  LET x == session[s] IN
  /\ x.op = "update"
  /\ End(s)
  /\ app' = [app EXCEPT ![x.id] = IF @ = NoApp THEN @ ELSE x.row]
  /\ patched' = Patched(x)
  /\ combined' = Combined(x)
  /\ UNCHANGED <<serial, raced>>

UpdateCommit(s) ==
  LET x == session[s]
      raises == \/ app[x.id] = NoApp
                \/ x.row.listing # x.seen.listing /\ x.row.listing \in gone
  IN
  /\ x.op = "update"
  /\ End(s)
  /\ IF raises
     THEN UNCHANGED <<app, patched, combined>>
     ELSE /\ app' = [app EXCEPT ![x.id] = Written(@, x)]
          /\ patched' = Patched(x)
          /\ combined' = Combined(x)
  /\ UNCHANGED <<serial, raced>>

DeleteCommit(s) ==
  /\ session[s].op = "delete"
  /\ End(s)
  /\ app' = [app EXCEPT ![session[s].id] = NoApp]
  /\ UNCHANGED <<serial, raced, patched, combined>>

----------------------------------------------------------------------------

\* Any of the links may come with any other: no validator compares them.
NewRequest(s) ==
  \/ \E body \in Bodies :
       \E l \in IF "listing" \in body THEN Listings \cup {None} ELSE {None},
          a \in IF "analysis" \in body THEN Analyses \cup {None} ELSE {None},
          r \in IF "resume" \in body THEN 0..Len(resumes) ELSE {0} :
         \/ \E st \in Status : CreateRead(s, l, a, r, st)
         \/ \E i \in Stored, st \in IF "status" \in body THEN Status ELSE {None} :
              UpdateRead(s, i, body \ {"status"}, l, a, r, st)
  \/ \E i \in Stored : DeleteRead(s, i)

Next ==
  \/ \E l \in Listings : DeleteListing(l) \/ \E a \in Analyses : ScoreListing(l, a)
  \/ \E a \in Analyses : StoreResume(a)
  \/ \E s \in Sessions :
       NewRequest(s) \/ CreateCommit(s) \/ UpdateCommit(s) \/ DeleteCommit(s)

Spec == Init /\ [][Next]_vars

----------------------------------------------------------------------------
(* Properties.                                                              *)

AppRow == [listing : Listings \cup {None}, analysis : Analyses \cup {None},
           resume : 0..MaxChanges, status : Status \cup {None}]

Request ==
  [op : {"none", "create", "update", "delete"}, id : 0..MaxApps, seen : AppRow,
   row : AppRow, last : 0..MaxApps, names : SUBSET {"listing", "analysis", "resume"},
   several : BOOLEAN]

\* The values the tables and the sessions can hold: a link never leaves its
\* table, and numbers are given out in order.
TypeOK ==
  /\ gone \subseteq Listings
  /\ scored \in [Listings -> Analyses \cup {None}]
  /\ resumes \in Seq(Analyses) /\ changes \in 0..MaxChanges
  /\ Len(resumes) <= changes
  /\ app \in [Apps -> AppRow] /\ serial \in 0..MaxApps
  /\ \A i \in Apps :
       /\ app[i].resume <= Len(resumes) /\ app[i].listing \notin gone
       /\ i > serial => app[i] = NoApp
  /\ session \in [Sessions -> Request]
  /\ \A s \in Sessions :
       /\ session[s].row.resume <= Len(resumes)
       /\ session[s].last <= serial
       /\ session[s].op \in {"update", "delete"} => session[s].id \in 1..serial

\* A listing has one application, unless the requests that created two of them
\* overlapped (each looked before the other had committed) or a PATCH named it.
OneApplication ==
  \A i, j \in Stored :
    app[i].listing = app[j].listing /\ app[i].listing # None =>
      i = j \/ {i, j} \in raced \/ {i, j} \cap patched # {}

\* The resume an application shows is one of the analysis whose score it shows.
\* They part only when a PATCH names one of the links, when a POST names several
\* (the code does not compare them), or when the listing was scored anew: tracking
\* it again then adds the resume of the new analysis to the application of the old
\* one.
LinksAgree ==
  \A i \in Stored :
    app[i].resume # 0 /\ app[i].analysis # None =>
      \/ resumes[app[i].resume] = app[i].analysis
      \/ i \in patched \cup combined
      \/ {app[i].analysis, resumes[app[i].resume]} \cap rescored # {}

\* The resume that was sent stays: an application that has one keeps it against
\* newer resumes and against requests that overlap, unless a PATCH names another
\* one or a request that still saw none fills the link.
SentResumeKept ==
  [][\A i \in Stored :
       app[i].resume # 0 /\ app'[i] # NoApp /\ app'[i].resume # app[i].resume =>
         \E s \in Sessions :
           /\ session'[s] = Free /\ session[s].id = i
           /\ "resume" \in session[s].names \/ session[s].seen.resume = 0]_vars

\* A request that overlaps another one undoes nothing it does not name: the
\* status changes only to what the request that ends asked for.
StatusKept ==
  [][\A i \in Stored : app'[i] \notin {NoApp} /\ app'[i].status # app[i].status =>
       \E s \in Sessions : session'[s] = Free /\ session[s].id = i
                           /\ session[s].row.status # session[s].seen.status]_vars
=============================================================================
