------------------------------ MODULE Listings -------------------------------
(***************************************************************************)
(* Job listings and their analyses: scrapes that insert and update the     *)
(* rows of job_listings, batches that score their descriptions and link    *)
(* the analysis to the row, and the bulk deletion of rows                  *)
(* (services/scrapers/persistence.py, services/batch_evaluator.py,         *)
(* services/evaluator_v2.py, services/listing_admin.py, api/evaluate.py,   *)
(* api/scrape.py).  What a batch may take is said in Guardrails.           *)
(*                                                                         *)
(* A listing is its key and the number of its insert under that key.       *)
(* Several sessions share the rows.  A session reads a row once and keeps  *)
(* what it read until its next commit; its commit writes by primary key    *)
(* the columns it changed, whatever the row has become, and raises when    *)
(* the row is gone or a unique key is taken.  One baseline profile.        *)
(***************************************************************************)
EXTENDS Naturals, Sequences, FiniteSets, Guardrails

CONSTANTS
  Keys,          \* (source, source_id) of a listing
  Descriptions,  \* job descriptions, up to canonicalisation (jd_hash)
  NoText,        \* the empty description
  Headers,       \* title, company, location and url of a listing
  NoLink,        \* job_analysis_id of a listing without an analysis
  Versions,      \* prompt versions
  Scrapers,      \* sessions that upsert the drafts of a scrape
  Evaluators,    \* sessions that evaluate a batch
  Deleters,      \* sessions that delete listings
  MaxTailoring,  \* max_tailoring_jobs_per_batch, 0 when unlimited
  MaxItems,      \* the item limit of a batch, 0 when unlimited
  Chars,         \* characters of each description
  GapChars,      \* characters of the gaps that its analysis names
  ProfileChars,  \* characters of the profile
  MaxTodo,       \* bound: items asked for in one batch
  MaxIds,        \* bound: listings inserted under one key
  MaxScrapes,    \* bound: upserts
  MaxBatches,    \* bound: batches
  MaxDeletes,    \* bound: bulk deletions
  MaxCrashes     \* bound: batches that die with their process

ASSUME TextAssumption ==
  NoText \notin Descriptions /\ NoLink \notin Descriptions \cup Versions
ASSUME SizesAssumption ==
  /\ Chars \in [Descriptions -> Nat] /\ GapChars \in [Descriptions -> Nat]
  /\ ProfileChars \in Nat
ASSUME BoundsAssumption ==
  /\ MaxTailoring \in Nat /\ MaxItems \in Nat /\ MaxTodo \in Nat /\ MaxIds \in Nat
  /\ MaxScrapes \in Nat /\ MaxBatches \in Nat /\ MaxDeletes \in Nat
  /\ MaxCrashes \in Nat

VARIABLES
  row,       \* job_listings, by key
  analysis,  \* job_analyses of the profile, by description
  jobs,      \* analyses that have a tailoring job
  scraper,   \* each upsert: its drafts and the rows it has read
  batch,     \* each batch: where it is and what it has read
  deleter,   \* each deletion: the rows it is about to delete
  ids,       \* listings inserted so far, by key
  scrapes,   \* upserts so far
  batches,   \* batches so far
  deletes,   \* deletions so far
  crashes,   \* batches that died so far
  crossed,   \* history: listings that kept a link when a stale read was committed
  blocked,   \* history: analyses whose tailoring the quota refused
  broken,    \* history: analyses whose batch broke off before it queued them
  unstored   \* history: scores, with their version, that were not stored

bounds == <<scrapes, batches, deletes, crashes>>
vars == <<row, analysis, jobs, scraper, batch, deleter, ids, bounds,
          crossed, blocked, broken, unstored>>

Gone == [id |-> 0, header |-> NoLink, text |-> NoText, link |-> NoLink]
None == [version |-> NoLink, tailor |-> FALSE]

Texts  == Descriptions \cup {NoText}
Drafts == [header : Headers, text : Texts]
Row    == [id : 1..MaxIds, header : Headers, text : Texts,
           link : Descriptions \cup {NoLink}]
Analysis == [version : Versions, tailor : BOOLEAN]

Exists(k)     == row[k] # Gone
Stored(d)     == analysis[d] # None
NeedsTailoring(d) == analysis[d].tailor
IsPending(k)  == Exists(k) /\ row[k].link = NoLink /\ row[k].text # NoText

Quiet   == [pc |-> "free", drafts |-> <<>>, read |-> <<>>]
Free    == [pc |-> "free", ids |-> {}, force |-> FALSE]
NoBatch == [pc |-> "free", kind |-> "none", version |-> NoLink, todo |-> <<>>,
            loaded |-> <<>>, seen |-> Gone, cached |-> FALSE, done |-> <<>>,
            allowed |-> {}, queued |-> 0]

Init ==
  /\ row = [k \in Keys |-> Gone]
  /\ analysis = [d \in Descriptions |-> None]
  /\ jobs = {}
  /\ scraper = [u \in Scrapers |-> Quiet]
  /\ batch = [b \in Evaluators |-> NoBatch]
  /\ deleter = [x \in Deleters |-> Free]
  /\ ids = [k \in Keys |-> 0]
  /\ scrapes = 0 /\ batches = 0 /\ deletes = 0 /\ crashes = 0
  /\ crossed = {} /\ blocked = {} /\ broken = {} /\ unstored = {}

----------------------------------------------------------------------------
(* Upserting the drafts of a scrape.  Drafts without a key, and a second   *)
(* draft with the same key, are skipped: what is left is a function.       *)

UpsertStart(u, drafts) ==
  /\ scraper[u] = Quiet
  /\ scrapes < MaxScrapes
  /\ scrapes' = scrapes + 1
  /\ scraper' = [scraper EXCEPT ![u] =
       [pc |-> "read", drafts |-> drafts, read |-> <<>>]]
  /\ UNCHANGED <<row, analysis, jobs, batch, deleter, ids, batches, deletes,
                 crashes, crossed, blocked, broken, unstored>>

\* One query for each draft.
UpsertRead(u) ==
  /\ scraper[u].pc = "read"
  /\ \E k \in DOMAIN scraper[u].drafts \ DOMAIN scraper[u].read :
       scraper' = [scraper EXCEPT ![u].read =
         [x \in DOMAIN @ \cup {k} |-> IF x = k THEN row[k] ELSE @[x]]]
  /\ UNCHANGED <<row, analysis, jobs, batch, deleter, ids, bounds,
                 crossed, blocked, broken, unstored>>

\* A changed description keeps the analysis of the old one.
MutUpdated(cur, seen, draft) ==
  [cur EXCEPT
     !.header = IF draft.header = seen.header THEN @ ELSE draft.header,
     !.text   = IF draft.text = seen.text THEN @ ELSE draft.text]

\* The row cur after the update of a session that had read seen: the columns
\* that differ from seen are written, and a material change unlinks the
\* analysis if one was linked in seen.
Updated(cur, seen, draft) ==
  [cur EXCEPT
     !.header = IF draft.header = seen.header THEN @ ELSE draft.header,
     !.text   = IF draft.text = seen.text THEN @ ELSE draft.text,
     !.link   = IF seen.link # NoLink
                   /\ (draft.header # seen.header \/ draft.text # seen.text)
                  THEN NoLink ELSE @]

\* The commit raises when a row to insert exists by now, or a row to update
\* does not: then nothing of the scrape is stored.
Conflict(read) ==
  \E k \in DOMAIN read :
    IF read[k] = Gone THEN Exists(k) ELSE row[k].id # read[k].id

\* What a commit that writes the rows leaves of the history: stale are the keys
\* whose row changed since the session read it.
Crosses(stale) == crossed' = {k \in crossed \cup stale : row'[k].link # NoLink}

UpsertCommit(u) ==
  LET read    == scraper[u].read
      drafts  == scraper[u].drafts
      inserts == {k \in DOMAIN read : read[k] = Gone}
  IN
  /\ scraper[u].pc = "read"
  /\ DOMAIN read = DOMAIN drafts
  /\ \A k \in inserts : ids[k] < MaxIds
  /\ scraper' = [scraper EXCEPT ![u] = Quiet]
  /\ \/ Conflict(read) /\ UNCHANGED <<row, ids, crossed>>
     \/ /\ ~Conflict(read)
        /\ ids' = [k \in Keys |-> IF k \in inserts THEN ids[k] + 1 ELSE ids[k]]
        /\ row' = [k \in Keys |->
             IF k \in inserts
               THEN [id |-> ids'[k], header |-> drafts[k].header,
                     text |-> drafts[k].text, link |-> NoLink]
             ELSE IF k \in DOMAIN read THEN Updated(row[k], read[k], drafts[k])
             ELSE row[k]]
        /\ Crosses({k \in DOMAIN read : row[k] # read[k]})
  /\ UNCHANGED <<analysis, jobs, batch, deleter, bounds, blocked, broken, unstored>>

----------------------------------------------------------------------------
(* Deleting in bulk.                                                       *)

\* The rows found by id or by age; analysed ones are refused without force.
DeleteRead(x, found, force) ==
  LET targets == {k \in found : force \/ row[k].link = NoLink} IN
  /\ deleter[x] = Free
  /\ deletes < MaxDeletes
  /\ deletes' = deletes + 1
  /\ targets # {}
  /\ deleter' = [deleter EXCEPT ![x] =
       [pc |-> "delete", ids |-> {<<k, row[k].id>> : k \in targets}, force |-> force]]
  /\ UNCHANGED <<row, analysis, jobs, scraper, batch, ids, scrapes, batches,
                 crashes, crossed, blocked, broken, unstored>>

\* The rows are deleted by id after the backup is written.
DeleteCommit(x) ==
  /\ deleter[x].pc = "delete"
  /\ row' = [k \in Keys |->
       IF Exists(k) /\ <<k, row[k].id>> \in deleter[x].ids THEN Gone ELSE row[k]]
  /\ Crosses({})
  /\ deleter' = [deleter EXCEPT ![x] = Free]
  /\ UNCHANGED <<analysis, jobs, scraper, batch, ids, bounds, blocked, broken, unstored>>

----------------------------------------------------------------------------
(* Batches.  "listings" is POST /evaluate/by-listings and /pending-listings,
   "scrape" the evaluation after a scrape, "bulk" POST /evaluate/bulk, whose
   items are pasted descriptions.                                          *)

Listing(k) == [key |-> k, id |-> row[k].id]

\* The texts by which a batch is measured: the pasted ones, or those of the
\* listings that have one as they are loaded.
GuardTexts(kind, todo, loaded) ==
  IF kind = "bulk" THEN [i \in DOMAIN todo |-> Chars[todo[i]]]
  ELSE [i \in {x \in DOMAIN todo : loaded[todo[x]].text # NoText} |->
          Chars[loaded[todo[i]].text]]

\* A batch over its item limit, or its token and cost limits, is refused.
StartBatch(b, kind, version, todo, loaded) ==
  /\ batch[b] = NoBatch
  /\ batches < MaxBatches
  /\ batches' = batches + 1
  /\ CheckBatchGuardrails(
       EstimateEvaluationBatch(ProfileChars, GuardTexts(kind, todo, loaded)), MaxItems)
  /\ batch' = [batch EXCEPT ![b] =
       [NoBatch EXCEPT !.pc = "next", !.kind = kind, !.version = version,
                       !.todo = todo, !.loaded = loaded]]
  /\ UNCHANGED <<row, analysis, jobs, scraper, deleter, ids, scrapes, deletes,
                 crashes, crossed, blocked, broken, unstored>>

\* The rows of the batch are loaded at once.
StartListings(b, kind, version, keys) ==
  /\ \A i \in DOMAIN keys : Exists(keys[i]) /\ (kind = "scrape" => IsPending(keys[i]))
  /\ StartBatch(b, kind, version, [i \in DOMAIN keys |-> Listing(keys[i])],
                [x \in {Listing(keys[i]) : i \in DOMAIN keys} |-> row[x.key]])

StartBulk(b, version, texts) == StartBatch(b, "bulk", version, texts, <<>>)

Current(b) == Head(batch[b].todo)
Here(b)    == row[Current(b).key].id = Current(b).id

\* The quota let through what was cached only.
MutHandsOver(x, r) == NeedsTailoring(r.text) /\ r.cached

\* What the batch x of listings hands to the job queue: the analyses it scored
\* that the quota allows and, unless it follows a scrape, the cached ones.
HandsOver(x, r) ==
  /\ NeedsTailoring(r.text)
  /\ IF r.cached THEN x.kind # "scrape" ELSE r.text \in x.allowed

\* Analyses batch b has scored and not handed over yet.
InFlight(b) ==
  LET x == batch[b]
      held == IF x.pc \in {"link", "linked", "ensure"} /\ ~x.cached
                THEN {x.seen.text} ELSE {}
      due == {i \in DOMAIN x.done :
                IF x.pc = "queue" THEN HandsOver(x, x.done[i]) ELSE ~x.done[i].cached}
  IN
  {d \in held \cup {x.done[i].text : i \in due} : NeedsTailoring(d) /\ d \notin jobs}

\* An exception that nobody catches ends the batch.
Breaks(b) ==
  /\ batch' = [batch EXCEPT ![b] = NoBatch]
  /\ broken' = broken \cup InFlight(b)

\* A listing that is gone or has no description is passed over, as is one whose
\* description is longer than max_jd_chars.
PassOver(b, seen) ==
  /\ seen.text = NoText
  /\ batch' = [batch EXCEPT ![b].todo = Tail(@)]

\* The cache is looked up by description, profile and prompt version.
LookUp(b, seen, hit) ==
  LET found == Stored(seen.text) /\ analysis[seen.text].version = batch[b].version IN
  /\ seen.text # NoText
  /\ batch' = [batch EXCEPT
       ![b].seen   = seen,
       ![b].cached = found,
       ![b].pc     = IF found THEN hit ELSE "call"]

\* A listing is the one loaded with the batch until the session commits; after
\* a commit it is read again.
TakeListing(b) ==
  LET x == Current(b)
      seen == IF x \in DOMAIN batch[b].loaded THEN batch[b].loaded[x]
              ELSE IF Here(b) THEN row[x.key] ELSE Gone
  IN
  /\ batch[b].pc = "next" /\ batch[b].kind \in {"listings", "scrape"}
  /\ batch[b].todo # <<>>
  /\ PassOver(b, seen) \/ LookUp(b, seen, "link")
  /\ UNCHANGED <<row, analysis, jobs, scraper, deleter, ids, bounds,
                 crossed, blocked, broken, unstored>>

TakeText(b) ==
  /\ batch[b].pc = "next" /\ batch[b].kind = "bulk"
  /\ batch[b].todo # <<>>
  /\ LookUp(b, [Gone EXCEPT !.text = Current(b)], "ensure")
  /\ UNCHANGED <<row, analysis, jobs, scraper, deleter, ids, bounds,
                 crossed, blocked, broken, unstored>>

\* The provider fails.  The audit record is committed; the batch goes on with
\* its next listing, a bulk request returns.
CallFails(b) ==
  /\ batch[b].pc = "call"
  /\ \/ batch[b].kind = "bulk" /\ batch' = [batch EXCEPT ![b] = NoBatch]
     \/ /\ batch[b].kind # "bulk"
        /\ batch' = [batch EXCEPT
             ![b].pc = "next", ![b].todo = Tail(@), ![b].loaded = <<>>]
  /\ UNCHANGED <<row, analysis, jobs, scraper, deleter, ids, bounds,
                 crossed, blocked, broken, unstored>>

\* The score is inserted and committed.  (jd_hash, profile_id) is unique: the
\* insert raises when an analysis of the description exists.
CallScores(b, tailor) ==
  LET d == batch[b].seen.text IN
  /\ batch[b].pc = "call"
  /\ \/ /\ ~Stored(d)
        /\ analysis' = [analysis EXCEPT ![d] =
             [version |-> batch[b].version, tailor |-> tailor]]
        /\ batch' = [batch EXCEPT
             ![b].pc = IF batch[b].kind = "bulk" THEN "ensure" ELSE "link",
             ![b].loaded = <<>>]
        /\ UNCHANGED <<broken, unstored>>
     \/ /\ Stored(d)
        /\ Breaks(b)
        /\ unstored' = unstored \cup {<<d, batch[b].version>>}
        /\ UNCHANGED analysis
  /\ UNCHANGED <<row, jobs, scraper, deleter, ids, bounds, crossed, blocked>>

\* The analysis is linked to the listing.  A cached analysis that was linked
\* already is not written; otherwise the commit raises when the row is gone.
Link(b) ==
  LET x == Current(b)
      seen == batch[b].seen
      writes == ~batch[b].cached \/ seen.link # seen.text
  IN
  /\ batch[b].pc = "link"
  /\ \/ /\ writes /\ Here(b)
        /\ row' = [row EXCEPT ![x.key].link = seen.text]
        /\ Crosses(IF row[x.key] # seen THEN {x.key} ELSE {})
     \/ ~writes /\ UNCHANGED <<row, crossed>>
  /\ batch' = [batch EXCEPT ![b].pc = "linked", ![b].loaded = <<>>]
  /\ UNCHANGED <<analysis, jobs, scraper, deleter, ids, bounds, blocked, broken, unstored>>

LinkRaises(b) ==
  /\ batch[b].pc = "link" /\ ~Here(b)
  /\ ~batch[b].cached \/ batch[b].seen.link # batch[b].seen.text
  /\ Breaks(b)
  /\ UNCHANGED <<row, analysis, jobs, scraper, deleter, ids, bounds,
                 crossed, blocked, unstored>>

\* The result is built from the listing, read again after the commit.
Report(b) ==
  /\ batch[b].pc = "linked"
  /\ \/ /\ Here(b)
        /\ batch' = [batch EXCEPT
             ![b].pc = "next", ![b].todo = Tail(@),
             ![b].done = Append(@, [text |-> batch[b].seen.text, cached |-> batch[b].cached])]
        /\ UNCHANGED broken
     \/ ~Here(b) /\ Breaks(b)
  /\ UNCHANGED <<row, analysis, jobs, scraper, deleter, ids, bounds,
                 crossed, blocked, unstored>>

----------------------------------------------------------------------------
(* Queueing what needs tailoring.                                          *)

\* A bulk request queues each item as soon as it is scored.
Ensure(b) ==
  LET d == batch[b].seen.text IN
  /\ batch[b].pc = "ensure"
  /\ jobs' = IF NeedsTailoring(d) THEN jobs \cup {d} ELSE jobs
  /\ batch' = [batch EXCEPT
       ![b].pc = "next", ![b].todo = Tail(@),
       ![b].queued = IF jobs' = jobs THEN @ ELSE @ + 1]
  /\ UNCHANGED <<row, analysis, scraper, deleter, ids, bounds,
                 crossed, blocked, broken, unstored>>

\* The results that are scored anew and need tailoring, and the first of them,
\* as many as the quota has jobs.
Fresh(done) == {i \in DOMAIN done : NeedsTailoring(done[i].text) /\ ~done[i].cached}
FirstOf(fresh) ==
  {i \in fresh : MaxTailoring > 0 => Cardinality({j \in fresh : j <= i}) <= MaxTailoring}

TailoringInputs(done, first) ==
  [i \in first |-> [text |-> Chars[done[i].text], gaps |-> GapChars[done[i].text]]]

\* What the guardrails let through: those, unless their estimate is beyond the
\* limits.
AllowedOf(done) ==
  LET first == FirstOf(Fresh(done))
      estimate == EstimateTailoringBatch(ProfileChars, TailoringInputs(done, first))
  IN  IF CheckBatchGuardrails(estimate, MaxTailoring) THEN first ELSE {}

\* At the end of a batch the guardrails cut off what is beyond the quota.
Finish(b) ==
  LET done == batch[b].done
      allowed == {done[i].text : i \in AllowedOf(done)}
  IN
  /\ batch[b].pc = "next" /\ batch[b].todo = <<>>
  /\ batch' = [batch EXCEPT ![b].pc = "queue", ![b].allowed = allowed]
  /\ blocked' = blocked \cup ({done[i].text : i \in Fresh(done)} \ allowed)
  /\ UNCHANGED <<row, analysis, jobs, scraper, deleter, ids, bounds,
                 crossed, broken, unstored>>

\* One enqueue_tailoring_job, with a commit of its own, for each result that is
\* handed over: AIJobQueue says what becomes of the job.
QueueNext(b) ==
  LET done == batch[b].done IN
  /\ batch[b].pc = "queue"
  /\ \/ /\ done = <<>>
        /\ batch' = [batch EXCEPT ![b] = NoBatch]
        /\ UNCHANGED jobs
     \/ /\ done # <<>>
        /\ jobs' = IF HandsOver(batch[b], Head(done)) THEN jobs \cup {Head(done).text}
                   ELSE jobs
        /\ batch' = [batch EXCEPT
             ![b].done = Tail(@),
             ![b].queued = IF jobs' = jobs THEN @ ELSE @ + 1]
  /\ UNCHANGED <<row, analysis, scraper, deleter, ids, bounds,
                 crossed, blocked, broken, unstored>>

Crash(b) ==
  /\ batch[b] # NoBatch
  /\ crashes < MaxCrashes
  /\ crashes' = crashes + 1
  /\ Breaks(b)
  /\ UNCHANGED <<row, analysis, jobs, scraper, deleter, ids, scrapes, batches,
                 deletes, crossed, blocked, unstored>>

----------------------------------------------------------------------------

SeqsUpTo(S, n) == UNION {[1..m -> S] : m \in 1..n}

ScrapeStep(u) ==
  \/ \E K \in SUBSET Keys \ {{}} : \E drafts \in [K -> Drafts] : UpsertStart(u, drafts)
  \/ UpsertRead(u) \/ UpsertCommit(u)

DeleteStep(x) ==
  \/ \E found \in SUBSET {k \in Keys : Exists(k)}, force \in BOOLEAN :
       DeleteRead(x, found, force)
  \/ DeleteCommit(x)

StartStep(b) ==
  \E version \in Versions :
    \/ \E keys \in SeqsUpTo({k \in Keys : Exists(k)}, MaxTodo),
          kind \in {"listings", "scrape"} : StartListings(b, kind, version, keys)
    \/ \E texts \in SeqsUpTo(Descriptions, MaxTodo) : StartBulk(b, version, texts)

BatchStep(b) ==
  \/ TakeListing(b) \/ TakeText(b)
  \/ CallFails(b)
  \/ \E tailor \in BOOLEAN : CallScores(b, tailor)
  \/ Link(b) \/ LinkRaises(b) \/ Report(b)
  \/ Ensure(b) \/ Finish(b) \/ QueueNext(b)

Next ==
  \/ \E u \in Scrapers : ScrapeStep(u)
  \/ \E x \in Deleters : DeleteStep(x)
  \/ \E b \in Evaluators : StartStep(b) \/ BatchStep(b) \/ Crash(b)

Spec == Init /\ [][Next]_vars

----------------------------------------------------------------------------
(* Properties.                                                             *)

\* What the sessions hold: a function on some of the keys, or items, for all of
\* them.
Partial(S, T) == UNION {[D -> T] : D \in SUBSET S}
Upsert   == [pc : {"free", "read"}, drafts : Partial(Keys, Drafts),
             read : Partial(Keys, Row \cup {Gone})]
Deletion == [pc : {"free", "delete"}, ids : SUBSET (Keys \X (1..MaxIds)), force : BOOLEAN]
Item     == [key : Keys, id : 1..MaxIds]
Seen     == [id : 0..MaxIds, header : Headers \cup {NoLink}, text : Texts,
             link : Descriptions \cup {NoLink}]
Result   == [text : Descriptions, cached : BOOLEAN]
Places   == {"free", "next", "call", "link", "linked", "ensure", "queue"}
Batch    == [pc : Places, kind : {"none", "listings", "scrape", "bulk"},
             version : Versions \cup {NoLink}, todo : Seq(Item \cup Descriptions),
             loaded : Partial(Item, Row), seen : Seen, cached : BOOLEAN,
             done : Seq(Result), allowed : SUBSET Descriptions, queued : Nat]

\* The type invariant: rows, analyses and sessions keep their shape.
TypeOK ==
  /\ row \in [Keys -> Row \cup {Gone}]
  /\ \A k \in Keys : row[k].id \in 0..ids[k]
  /\ analysis \in [Descriptions -> Analysis \cup {None}]
  /\ jobs \subseteq Descriptions /\ blocked \subseteq Descriptions
  /\ broken \subseteq Descriptions /\ crossed \subseteq Keys
  /\ unstored \subseteq Descriptions \X Versions
  /\ ids \in [Keys -> 0..MaxIds]
  /\ scrapes \in 0..MaxScrapes /\ batches \in 0..MaxBatches
  /\ deletes \in 0..MaxDeletes /\ crashes \in 0..MaxCrashes
  /\ scraper \in [Scrapers -> Upsert]
  /\ deleter \in [Deleters -> Deletion]
  /\ batch \in [Evaluators -> Batch]

\* The analysis a listing shows is a stored one and scores the description the
\* listing has now: upsert_drafts_with_stats unlinks on a change, and a batch
\* links what it scored, unless one of them committed over a change the other
\* had made meanwhile.
LinkIsCurrent ==
  \A k \in Keys :
    Exists(k) /\ row[k].link # NoLink =>
      Stored(row[k].link) /\ (k \notin crossed => row[k].link = row[k].text)

\* What the comment above the cache lookup in evaluate_jd says: "Prompt changes
\* must produce a fresh score".  Once a description has been scored under a prompt
\* version, the analysis stored for it is of that version.
PromptFresh == \A s \in unstored : analysis[s[1]].version = s[2]

\* What the README says of MAX_TAILORING_JOBS_PER_BATCH: it caps how many
\* tailoring jobs one batch queues.
TailoringCap ==
  MaxTailoring > 0 => \A b \in Evaluators : batch[b].queued <= MaxTailoring

\* What the docstring of bulk_delete says: a listing with an analysis is deleted
\* only by a call with force.
RefusesAnalysed ==
  [][\A k \in Keys :
       Exists(k) /\ row[k].link # NoLink /\ row'[k] = Gone =>
         \E x \in Deleters : deleter[x].force /\ deleter'[x] = Free]_vars

\* An analysis that needs tailoring has a job, or its batch will still queue it,
\* or the quota has refused it, or its batch broke off on an exception or with
\* its process.
TailoringAccounted ==
  \A d \in Descriptions :
    Stored(d) /\ NeedsTailoring(d) =>
      d \in jobs \cup blocked \cup broken \cup UNION {InFlight(b) : b \in Evaluators}
=============================================================================
