--------------------------- MODULE ListingsProofs ----------------------------
(***************************************************************************)
(* Theorems about Listings, and about the guardrails its batches meet, for *)
(* every set of keys, descriptions and sessions, every limit and every     *)
(* bound.                                                                  *)
(***************************************************************************)
EXTENDS Listings, SequenceTheorems, FiniteSetTheorems, FunctionTheorems, TLAPS

----------------------------------------------------------------------------
(* The guardrails.                                                          *)

\* A text is given as many tokens as it takes, at four characters a token.
LEMMA TokensCover ==
  ASSUME NEW chars \in Nat
  PROVE  /\ EstimateTokens(chars) \in Nat
         /\ 4 * EstimateTokens(chars) >= chars
         /\ 4 * EstimateTokens(chars) < chars + 4
BY DEF EstimateTokens

\* A price is rounded to the nearest millionth of a dollar, never by more than
\* half of one.
LEMMA RoundedPrice ==
  ASSUME NEW n \in Nat
  PROVE  /\ RoundHalfEven(n, 100) \in Nat
         /\ 100 * RoundHalfEven(n, 100) <= n + 50
         /\ n <= 100 * RoundHalfEven(n, 100) + 50
<1>1. PICK q \in Nat, r \in 0..99 : n = 100 * q + r /\ q = n \div 100 /\ r = n % 100
  OBVIOUS
<1>2. RoundHalfEven(n, 100) = IF 2 * r > 100 \/ (2 * r = 100 /\ q % 2 = 1) THEN q + 1 ELSE q
  BY <1>1 DEF RoundHalfEven
<1>3. CASE 2 * r > 100 \/ (2 * r = 100 /\ q % 2 = 1)
  <2>1. RoundHalfEven(n, 100) = q + 1
    BY <1>2, <1>3
  <2>. QED BY <1>1, <1>3, <2>1
<1>4. CASE ~(2 * r > 100 \/ (2 * r = 100 /\ q % 2 = 1))
  <2>1. RoundHalfEven(n, 100) = q
    BY <1>2, <1>4
  <2>2. r <= 50
    BY <1>1, <1>4
  <2>. QED BY <1>1, <2>1, <2>2
<1>. QED BY <1>3, <1>4

\* A batch that the guardrails let through calls nobody when calls are disabled,
\* keeps the limits of items and tokens, and is beyond the limit of its price by
\* half a millionth of a dollar at most, which the rounding hides.
THEOREM GuardrailsHold ==
  ASSUME NEW items \in Nat, NEW input \in Nat, NEW output \in Nat, NEW maxItems \in Nat,
         CheckBatchGuardrails(Estimate(items, input, output), maxItems)
  PROVE  /\ ~ProviderCalls => items = 0
         /\ maxItems > 0 => items <= maxItems
         /\ MaxTokens > 0 => input + output <= MaxTokens
         /\ MaxCost > 0 /\ Priced => ExactCost(input, output) <= 100 * MaxCost + 50
<1>1. PICK e : e = Estimate(items, input, output)
  OBVIOUS
<1>2. e.items = items /\ e.input = input /\ e.output = output
  BY <1>1 DEF Estimate
<1>3. CheckBatchGuardrails(e, maxItems)
  BY <1>1
<1>4. PICK exact : exact = ExactCost(input, output)
  OBVIOUS
<1>5. exact \in Nat
  BY <1>4, GuardrailsAssumption DEF ExactCost
<1>6. MaxCost > 0 /\ Priced => RoundHalfEven(exact, 100) <= MaxCost
  BY <1>2, <1>3, <1>4 DEF CheckBatchGuardrails, WithinCost, Cost
<1>7. MaxCost > 0 /\ Priced => exact <= 100 * MaxCost + 50
  BY <1>5, <1>6, RoundedPrice, GuardrailsAssumption
<1>8. (items > 0 => ProviderCalls) /\ (maxItems > 0 => items <= maxItems)
      /\ (MaxTokens > 0 => input + output <= MaxTokens)
  BY <1>2, <1>3 DEF CheckBatchGuardrails, WithinItems, WithinTokens, Tokens
<1>. QED BY <1>4, <1>7, <1>8

----------------------------------------------------------------------------
(* What the sessions hold.                                                  *)

LEMMA PartialIn ==
  ASSUME NEW S, NEW T, NEW D \in SUBSET S, NEW f \in [D -> T]
  PROVE  f \in Partial(S, T)
BY DEF Partial

LEMMA PartialHas ==
  ASSUME NEW S, NEW T, NEW f \in Partial(S, T)
  PROVE  /\ DOMAIN f \in SUBSET S /\ f \in [DOMAIN f -> T]
         /\ \A x \in DOMAIN f : f[x] \in T
BY DEF Partial

LEMMA EmptyPartial ==
  ASSUME NEW S, NEW T
  PROVE  <<>> \in Partial(S, T) /\ DOMAIN <<>> = {}
<1>1. <<>> \in Seq(T) /\ Len(<<>>) = 0
  BY EmptySeq
<1>2. <<>> \in [1..0 -> T] /\ DOMAIN <<>> = 1..0
  BY <1>1, LenProperties
<1>3. <<>> \in [{} -> T] /\ DOMAIN <<>> = {}
  BY <1>2
<1>. QED BY <1>3, PartialIn

\* A batch is at a place of its kind, and has what it needs there.
AtWork(x) ==
  /\ x.pc = "free" => x = NoBatch
  /\ x.pc # "free" => x.kind # "none" /\ x.version \in Versions
  /\ x.kind \in {"listings", "scrape"} => x.todo \in Seq(Item)
  /\ x.kind = "bulk" => x.todo \in Seq(Descriptions) /\ x.done = <<>>
  /\ x.pc \in {"call", "link", "linked", "ensure"} =>
       x.todo # <<>> /\ x.seen.text \in Descriptions
  /\ x.pc = "call" => ~x.cached
  /\ x.pc \in {"link", "linked"} => x.kind \in {"listings", "scrape"}
  /\ x.pc = "ensure" => x.kind = "bulk"

Shape == TypeOK /\ \A b \in Evaluators : AtWork(batch[b])

LEMMA SessionTypes ==
  /\ Gone \in Seen /\ Gone \notin Row /\ Row \subseteq Seen
  /\ NoBatch \in Batch /\ AtWork(NoBatch)
  /\ NoBatch.pc = "free" /\ NoBatch.done = <<>> /\ NoBatch.kind = "none"
  /\ NoBatch.allowed = {} /\ NoBatch.queued = 0
  /\ Quiet \in Upsert /\ Free \in Deletion
<1>1. Gone \in Seen /\ Gone \notin Row /\ Row \subseteq Seen
  BY BoundsAssumption DEF Gone, Seen, Row, Texts
<1>2. NoBatch \in Batch
  <2>1. <<>> \in Seq(Item \cup Descriptions) /\ <<>> \in Seq(Result) /\ <<>> \in Partial(Item, Row)
    BY EmptySeq, EmptyPartial
  <2>. QED BY <1>1, <2>1 DEF NoBatch, Batch, Places
<1>3. /\ NoBatch.pc = "free" /\ NoBatch.done = <<>> /\ NoBatch.kind = "none"
      /\ NoBatch.allowed = {} /\ NoBatch.queued = 0
  BY DEF NoBatch
<1>4. AtWork(NoBatch)
  BY <1>3 DEF AtWork
<1>5. Quiet \in Upsert /\ Free \in Deletion
  BY EmptyPartial DEF Quiet, Upsert, Free, Deletion
<1>. QED BY <1>1, <1>2, <1>3, <1>4, <1>5

\* A step of batch b, which leaves r of it.
Becomes(b, r) == batch' = [batch EXCEPT ![b] = r]

LEMMA BecomesShape ==
  ASSUME Shape, NEW b \in Evaluators, NEW r \in Batch, AtWork(r), Becomes(b, r)
  PROVE  /\ batch' \in [Evaluators -> Batch] /\ \A c \in Evaluators : AtWork(batch'[c])
         /\ batch'[b] = r /\ \A c \in Evaluators : c # b => batch'[c] = batch[c]
BY DEF Becomes, Shape, TypeOK

LEMMA BreaksShape ==
  ASSUME Shape, NEW b \in Evaluators, Breaks(b)
  PROVE  /\ Becomes(b, NoBatch)
         /\ batch' \in [Evaluators -> Batch] /\ \A c \in Evaluators : AtWork(batch'[c])
         /\ batch'[b] = NoBatch /\ \A c \in Evaluators : c # b => batch'[c] = batch[c]
         /\ broken' = broken \cup InFlight(b) /\ broken' \subseteq Descriptions
<1>1. Becomes(b, NoBatch)
  BY DEF Breaks, Becomes
<1>2. broken' = broken \cup InFlight(b)
  BY DEF Breaks
<1>3. InFlight(b) \subseteq Descriptions
  <2>1. batch[b] \in Batch /\ AtWork(batch[b])
    BY DEF Shape, TypeOK
  <2>2. \A i \in DOMAIN batch[b].done : batch[b].done[i].text \in Descriptions
    <3>1. batch[b].done \in Seq(Result)
      BY <2>1 DEF Batch
    <3>2. \A i \in DOMAIN batch[b].done : batch[b].done[i] \in Result
      BY <3>1
    <3>. QED BY <3>2 DEF Result
  <2>3. batch[b].pc \in {"link", "linked", "ensure"} => batch[b].seen.text \in Descriptions
    BY <2>1 DEF AtWork
  <2>. QED BY <2>2, <2>3 DEF InFlight
<1>. QED BY <1>1, <1>2, <1>3, BecomesShape, SessionTypes DEF Shape, TypeOK

----------------------------------------------------------------------------
(* Every step keeps the shape.                                              *)

LEMMA UpsertStartShape ==
  ASSUME Shape, NEW u \in Scrapers, NEW K \in SUBSET Keys, NEW drafts \in [K -> Drafts],
         UpsertStart(u, drafts)
  PROVE  Shape' /\ UNCHANGED <<row, analysis, jobs, batch, crossed, blocked, broken>>
<1>1. PICK r : r = [pc |-> "read", drafts |-> drafts, read |-> <<>>]
  OBVIOUS
<1>2. drafts \in Partial(Keys, Drafts)
  BY PartialIn
<1>3. <<>> \in Partial(Keys, Row \cup {Gone})
  BY EmptyPartial
<1>4. r \in Upsert
  BY <1>1, <1>2, <1>3 DEF Upsert
<1>5. scraper' = [scraper EXCEPT ![u] = r] /\ scrapes' \in 0..MaxScrapes
  BY <1>1, BoundsAssumption DEF UpsertStart, Shape, TypeOK
<1>6. scraper' \in [Scrapers -> Upsert]
  BY <1>4, <1>5 DEF Shape, TypeOK
<1>. QED BY <1>5, <1>6 DEF UpsertStart, Shape, TypeOK

LEMMA UpsertReadShape ==
  ASSUME Shape, NEW u \in Scrapers, UpsertRead(u)
  PROVE  Shape' /\ UNCHANGED <<row, analysis, jobs, batch, crossed, blocked, broken>>
<1>1. scraper[u] \in Upsert /\ scraper \in [Scrapers -> Upsert]
  BY DEF Shape, TypeOK
<1>2. PICK k \in DOMAIN scraper[u].drafts :
        scraper' = [scraper EXCEPT ![u].read =
          [x \in DOMAIN @ \cup {k} |-> IF x = k THEN row[k] ELSE @[x]]]
  BY DEF UpsertRead
<1>3. PICK old : old = scraper[u].read
  OBVIOUS
<1>4. /\ old \in Partial(Keys, Row \cup {Gone}) /\ DOMAIN old \in SUBSET Keys
      /\ \A x \in DOMAIN old : old[x] \in Row \cup {Gone}
      /\ k \in Keys /\ row[k] \in Row \cup {Gone}
  <2>1. old \in Partial(Keys, Row \cup {Gone}) /\ scraper[u].drafts \in Partial(Keys, Drafts)
    BY <1>1, <1>3 DEF Upsert
  <2>2. DOMAIN old \in SUBSET Keys /\ \A x \in DOMAIN old : old[x] \in Row \cup {Gone}
    BY <2>1, PartialHas
  <2>3. k \in Keys
    BY <1>2, <2>1, PartialHas
  <2>. QED BY <2>1, <2>2, <2>3 DEF Shape, TypeOK
<1>5. PICK new : new = [x \in DOMAIN old \cup {k} |-> IF x = k THEN row[k] ELSE old[x]]
  OBVIOUS
<1>6. new \in Partial(Keys, Row \cup {Gone})
  <2>1. PICK D \in SUBSET Keys : D = DOMAIN old \cup {k}
    BY <1>4
  <2>2. new \in [D -> Row \cup {Gone}]
    BY <1>4, <1>5, <2>1
  <2>. QED BY <2>2, PartialIn
<1>7. PICK r : r = [scraper[u] EXCEPT !.read = new]
  OBVIOUS
<1>8. r \in Upsert
  BY <1>1, <1>6, <1>7 DEF Upsert
<1>9. scraper' = [scraper EXCEPT ![u] = r]
  BY <1>1, <1>2, <1>3, <1>5, <1>7
<1>10. scraper' \in [Scrapers -> Upsert]
  BY <1>1, <1>8, <1>9
<1>. QED BY <1>10 DEF UpsertRead, bounds, Shape, TypeOK

\* A row that is updated keeps its insert, and its link or none; if it is the one
\* that was read and keeps its link, it is as it was.
LEMMA UpdatedRow ==
  ASSUME NEW cur \in Row, NEW seen \in Row \cup {Gone}, NEW draft \in Drafts
  PROVE  /\ Updated(cur, seen, draft) \in Row
         /\ Updated(cur, seen, draft).id = cur.id
         /\ Updated(cur, seen, draft).link \in {cur.link, NoLink}
         /\ cur = seen /\ Updated(cur, seen, draft).link # NoLink =>
              Updated(cur, seen, draft).text = cur.text
<1>1. PICK header : header = IF draft.header = seen.header THEN cur.header ELSE draft.header
  OBVIOUS
<1>2. PICK text : text = IF draft.text = seen.text THEN cur.text ELSE draft.text
  OBVIOUS
<1>3. PICK link : link = IF seen.link # NoLink
                            /\ (draft.header # seen.header \/ draft.text # seen.text)
                           THEN NoLink ELSE cur.link
  OBVIOUS
<1>4. PICK r : r = [cur EXCEPT !.header = header, !.text = text, !.link = link]
  OBVIOUS
<1>5. r = Updated(cur, seen, draft)
  BY <1>1, <1>2, <1>3, <1>4 DEF Updated, Row
<1>6. header \in Headers /\ text \in Texts /\ link \in {cur.link, NoLink}
  BY <1>1, <1>2, <1>3 DEF Drafts, Row
<1>7. r \in Row /\ r.id = cur.id /\ r.link = link /\ r.text = text
  BY <1>4, <1>6 DEF Row
<1>8. cur = seen /\ link # NoLink => text = cur.text
  BY <1>2, <1>3 DEF Row
<1>. QED BY <1>5, <1>6, <1>7, <1>8

\* What a commit of an upsert makes of the rows.
LEMMA UpsertCommitRows ==
  ASSUME Shape, NEW u \in Scrapers, UpsertCommit(u), ~Conflict(scraper[u].read)
  PROVE  /\ crossed' = {k \in crossed \cup
                          {x \in DOMAIN scraper[u].read : row[x] # scraper[u].read[x]} :
                          row'[k].link # NoLink}
         /\ crossed' \subseteq Keys
         /\ ids' \in [Keys -> 0..MaxIds]
         /\ \A k \in Keys :
              /\ row'[k] \in Row \cup {Gone} /\ row'[k].id \in 0..ids'[k]
              /\ row'[k].link \in {row[k].link, NoLink}
              /\ row'[k].link # NoLink =>
                   \/ row'[k].text = row[k].text /\ row[k] # Gone
                   \/ k \in DOMAIN scraper[u].read /\ row[k] # scraper[u].read[k]
                        /\ row[k] # Gone
<1>1. PICK read : read = scraper[u].read
  OBVIOUS
<1>2. PICK drafts : drafts = scraper[u].drafts
  OBVIOUS
<1>3. PICK inserts : inserts = {k \in DOMAIN read : read[k] = Gone}
  OBVIOUS
<1>4. /\ DOMAIN read = DOMAIN drafts /\ ~Conflict(read)
      /\ \A k \in inserts : ids[k] < MaxIds
      /\ ids' = [k \in Keys |-> IF k \in inserts THEN ids[k] + 1 ELSE ids[k]]
      /\ Crosses({k \in DOMAIN read : row[k] # read[k]})
  BY <1>1, <1>2, <1>3 DEF UpsertCommit
<1>5. row' = [k \in Keys |->
             IF k \in inserts
               THEN [id |-> ids'[k], header |-> drafts[k].header,
                     text |-> drafts[k].text, link |-> NoLink]
             ELSE IF k \in DOMAIN read THEN Updated(row[k], read[k], drafts[k])
             ELSE row[k]]
  BY <1>1, <1>2, <1>3 DEF UpsertCommit
<1>6. /\ DOMAIN read \subseteq Keys
      /\ \A k \in DOMAIN read : read[k] \in Row \cup {Gone} /\ drafts[k] \in Drafts
  <2>1. scraper[u] \in Upsert
    BY DEF Shape, TypeOK
  <2>2. read \in Partial(Keys, Row \cup {Gone}) /\ drafts \in Partial(Keys, Drafts)
    BY <1>1, <1>2, <2>1 DEF Upsert
  <2>. QED BY <1>4, <2>2, PartialHas
<1>7. ids' \in [Keys -> 0..MaxIds]
  <2>1. \A k \in inserts : ids[k] + 1 \in 0..MaxIds
    BY <1>3, <1>4, <1>6, BoundsAssumption DEF Shape, TypeOK
  <2>. QED BY <1>4, <2>1 DEF Shape, TypeOK
<1>8. ASSUME NEW k \in Keys
      PROVE  /\ row'[k] \in Row \cup {Gone} /\ row'[k].id \in 0..ids'[k]
             /\ row'[k].link \in {row[k].link, NoLink}
             /\ row'[k].link # NoLink =>
                  \/ row'[k].text = row[k].text /\ row[k] # Gone
                  \/ k \in DOMAIN read /\ row[k] # read[k] /\ row[k] # Gone
  <2>0. /\ row[k] \in Row \cup {Gone} /\ row[k].id \in 0..ids[k] /\ ids[k] \in 0..MaxIds
        /\ Gone.link = NoLink
    BY DEF Shape, TypeOK, Gone
  <2>1. CASE k \in inserts
    <3>1. PICK r : r = [id |-> ids'[k], header |-> drafts[k].header,
                        text |-> drafts[k].text, link |-> NoLink]
      OBVIOUS
    <3>2. row'[k] = r /\ ids'[k] = ids[k] + 1 /\ ids'[k] \in 1..MaxIds
      BY <1>4, <1>5, <2>0, <2>1, <3>1, BoundsAssumption
    <3>3. drafts[k].header \in Headers /\ drafts[k].text \in Texts
      BY <1>3, <1>6, <2>1 DEF Drafts
    <3>4. r \in Row /\ r.id = ids'[k] /\ r.link = NoLink
      BY <3>1, <3>2, <3>3 DEF Row
    <3>. QED BY <3>2, <3>4
  <2>2. CASE k \in DOMAIN read /\ k \notin inserts
    <3>1. read[k] \in Row /\ drafts[k] \in Drafts
      BY <1>3, <1>6, <2>2
    <3>2. row[k].id = read[k].id
      BY <1>3, <1>4, <2>2 DEF Conflict
    <3>3. row[k] \in Row /\ row[k] # Gone
      BY <2>0, <3>1, <3>2, SessionTypes, BoundsAssumption DEF Row, Gone
    <3>4. row'[k] = Updated(row[k], read[k], drafts[k]) /\ ids'[k] = ids[k]
      BY <1>4, <1>5, <2>2
    <3>5. PICK r : r = Updated(row[k], read[k], drafts[k])
      OBVIOUS
    <3>6. /\ r \in Row /\ r.id = row[k].id /\ r.link \in {row[k].link, NoLink}
          /\ row[k] = read[k] /\ r.link # NoLink => r.text = row[k].text
      BY <3>1, <3>3, <3>5, UpdatedRow
    <3>. QED BY <2>0, <2>2, <3>3, <3>4, <3>5, <3>6
  <2>3. CASE k \notin DOMAIN read
    <3>1. row'[k] = row[k] /\ ids'[k] = ids[k]
      BY <1>3, <1>4, <1>5, <2>3
    <3>. QED BY <2>0, <3>1
  <2>. QED BY <2>1, <2>2, <2>3
<1>9. crossed' = {k \in crossed \cup {x \in DOMAIN read : row[x] # read[x]} :
                    row'[k].link # NoLink}
  BY <1>4 DEF Crosses
<1>10. crossed' \subseteq Keys
  BY <1>6, <1>9 DEF Shape, TypeOK
<1>. QED BY <1>1, <1>7, <1>8, <1>9, <1>10

LEMMA UpsertCommitShape ==
  ASSUME Shape, NEW u \in Scrapers, UpsertCommit(u)
  PROVE  Shape' /\ UNCHANGED <<analysis, jobs, batch, blocked, broken>>
<1>1. scraper' \in [Scrapers -> Upsert]
  BY SessionTypes DEF UpsertCommit, Shape, TypeOK
<1>2. CASE Conflict(scraper[u].read)
  <2>1. UNCHANGED <<row, ids, crossed>>
    BY <1>2 DEF UpsertCommit
  <2>. QED BY <1>1, <2>1 DEF UpsertCommit, bounds, Shape, TypeOK
<1>3. CASE ~Conflict(scraper[u].read)
  <2>1. PICK new : row' = [k \in Keys |-> new[k]]
    <3>1. row' = [k \in Keys |-> row'[k]]
      BY <1>3 DEF UpsertCommit
    <3>. QED BY <3>1
  <2>2. row' \in [Keys -> Row \cup {Gone}] /\ \A k \in Keys : row'[k].id \in 0..ids'[k]
    BY <1>3, <2>1, UpsertCommitRows
  <2>3. crossed' \subseteq Keys /\ ids' \in [Keys -> 0..MaxIds]
    BY <1>3, UpsertCommitRows
  <2>. QED BY <1>1, <2>2, <2>3 DEF UpsertCommit, bounds, Shape, TypeOK
<1>. QED BY <1>2, <1>3

LEMMA DeleteReadShape ==
  ASSUME Shape, NEW x \in Deleters, NEW found \in SUBSET {k \in Keys : Exists(k)},
         NEW force \in BOOLEAN, DeleteRead(x, found, force)
  PROVE  Shape' /\ UNCHANGED <<row, analysis, jobs, batch, crossed, blocked, broken>>
<1>1. PICK targets : targets = {k \in found : force \/ row[k].link = NoLink}
  OBVIOUS
<1>2. PICK r : r = [pc |-> "delete", ids |-> {<<k, row[k].id>> : k \in targets},
                    force |-> force]
  OBVIOUS
<1>3. \A k \in targets : k \in Keys /\ row[k].id \in 1..MaxIds
  <2>1. \A k \in targets : k \in Keys /\ row[k] \in Row
    BY <1>1 DEF Exists, Shape, TypeOK
  <2>. QED BY <2>1 DEF Row
<1>4. r \in Deletion
  BY <1>2, <1>3 DEF Deletion
<1>5. deleter' = [deleter EXCEPT ![x] = r] /\ deletes' \in 0..MaxDeletes
  BY <1>1, <1>2, BoundsAssumption DEF DeleteRead, Shape, TypeOK
<1>6. deleter' \in [Deleters -> Deletion]
  BY <1>4, <1>5 DEF Shape, TypeOK
<1>. QED BY <1>5, <1>6 DEF DeleteRead, Shape, TypeOK

\* A row that is deleted is gone; the others are as they were.
LEMMA DeleteCommitShape ==
  ASSUME Shape, NEW x \in Deleters, DeleteCommit(x)
  PROVE  /\ Shape' /\ UNCHANGED <<analysis, jobs, batch, blocked, broken>>
         /\ \A k \in Keys : row'[k] \in {row[k], Gone}
         /\ crossed' = {k \in crossed : row'[k].link # NoLink}
<1>1. /\ row' \in [Keys -> Row \cup {Gone}]
      /\ \A k \in Keys : row'[k] \in {row[k], Gone}
  BY DEF DeleteCommit, Shape, TypeOK
<1>2. \A k \in Keys : row'[k].id \in 0..ids[k] /\ ids' = ids
  <2>1. Gone.id = 0 /\ \A k \in Keys : ids[k] \in Nat
    BY BoundsAssumption DEF Gone, Shape, TypeOK
  <2>. QED BY <1>1, <2>1 DEF DeleteCommit, Shape, TypeOK
<1>3. deleter' \in [Deleters -> Deletion]
  BY SessionTypes DEF DeleteCommit, Shape, TypeOK
<1>4. crossed' = {k \in crossed : row'[k].link # NoLink}
  BY DEF DeleteCommit, Crosses
<1>. QED BY <1>1, <1>2, <1>3, <1>4 DEF DeleteCommit, bounds, Shape, TypeOK

\* The steps of a batch that change nothing else that has a shape.
LEMMA BatchShape ==
  ASSUME Shape, NEW b \in Evaluators, NEW r \in Batch, AtWork(r), Becomes(b, r),
         UNCHANGED <<row, analysis, scraper, deleter, ids, scrapes, deletes, crashes,
                     crossed, broken, unstored>>,
         batches' \in 0..MaxBatches, jobs' \subseteq Descriptions,
         blocked' \subseteq Descriptions
  PROVE  Shape'
BY BecomesShape DEF Shape, TypeOK

LEMMA StartBatchShape ==
  ASSUME Shape, NEW b \in Evaluators, NEW kind \in {"listings", "scrape", "bulk"},
         NEW version \in Versions, NEW todo, NEW loaded \in Partial(Item, Row),
         todo \in Seq(IF kind = "bulk" THEN Descriptions ELSE Item),
         StartBatch(b, kind, version, todo, loaded)
  PROVE  /\ Shape' /\ UNCHANGED <<row, analysis, jobs, crossed, blocked, broken>>
         /\ batch[b] = NoBatch
         /\ \E r \in Batch : r.pc = "next" /\ r.done = <<>> /\ r.queued = 0 /\ Becomes(b, r)
<1>1. PICK r : r = [NoBatch EXCEPT !.pc = "next", !.kind = kind, !.version = version,
                                   !.todo = todo, !.loaded = loaded]
  OBVIOUS
<1>2. todo \in Seq(Item \cup Descriptions)
  <2>1. CASE kind = "bulk"
    BY <2>1, SeqMonotonic, Descriptions \subseteq Item \cup Descriptions
  <2>2. CASE kind # "bulk"
    BY <2>2, SeqMonotonic, Item \subseteq Item \cup Descriptions
  <2>. QED BY <2>1, <2>2
<1>3. /\ r \in Batch /\ r.pc = "next" /\ r.done = <<>> /\ r.kind = kind
      /\ r.version = version /\ r.todo = todo /\ r.queued = 0
  BY <1>1, <1>2, SessionTypes DEF Batch, Places
<1>4. AtWork(r)
  BY <1>3 DEF AtWork
<1>5. Becomes(b, r)
  BY <1>1 DEF StartBatch, Becomes
<1>6. batches' \in 0..MaxBatches
  BY BoundsAssumption DEF StartBatch, Shape, TypeOK
<1>7. jobs' \subseteq Descriptions /\ blocked' \subseteq Descriptions
  BY DEF StartBatch, Shape, TypeOK
<1>. QED BY <1>3, <1>4, <1>5, <1>6, <1>7, BatchShape DEF StartBatch

LEMMA StartShape ==
  ASSUME Shape, NEW b \in Evaluators, StartStep(b)
  PROVE  /\ Shape' /\ UNCHANGED <<row, analysis, jobs, crossed, blocked, broken>>
         /\ batch[b] = NoBatch
         /\ \E r \in Batch : r.pc = "next" /\ r.done = <<>> /\ r.queued = 0 /\ Becomes(b, r)
<1>1. PICK version \in Versions :
        \/ \E keys \in SeqsUpTo({k \in Keys : Exists(k)}, MaxTodo),
              kind \in {"listings", "scrape"} : StartListings(b, kind, version, keys)
        \/ \E texts \in SeqsUpTo(Descriptions, MaxTodo) : StartBulk(b, version, texts)
  BY DEF StartStep
<1>2. ASSUME NEW keys \in SeqsUpTo({k \in Keys : Exists(k)}, MaxTodo),
             NEW kind \in {"listings", "scrape"}, StartListings(b, kind, version, keys)
      PROVE  /\ Shape' /\ UNCHANGED <<row, analysis, jobs, crossed, blocked, broken>>
             /\ batch[b] = NoBatch
             /\ \E r \in Batch : r.pc = "next" /\ r.done = <<>> /\ r.queued = 0 /\ Becomes(b, r)
  <2>1. PICK m \in 1..MaxTodo : keys \in [1..m -> {k \in Keys : Exists(k)}]
    BY DEF SeqsUpTo
  <2>2. \A i \in 1..m : Listing(keys[i]) \in Item /\ row[keys[i]] \in Row
    <3>1. \A i \in 1..m : keys[i] \in Keys /\ row[keys[i]] \in Row
      BY <2>1 DEF Exists, Shape, TypeOK
    <3>2. \A i \in 1..m : row[keys[i]].id \in 1..MaxIds
      BY <3>1 DEF Row
    <3>. QED BY <3>1, <3>2 DEF Listing, Item
  <2>3. PICK todo : todo = [i \in DOMAIN keys |-> Listing(keys[i])]
    OBVIOUS
  <2>4. PICK D \in SUBSET Item : D = {Listing(keys[i]) : i \in DOMAIN keys}
    BY <2>1, <2>2
  <2>5. PICK loaded : loaded = [x \in {Listing(keys[i]) : i \in DOMAIN keys} |-> row[x.key]]
    OBVIOUS
  <2>6. todo \in Seq(Item)
    <3>1. todo \in [1..m -> Item] /\ m \in Nat
      BY <2>1, <2>2, <2>3, BoundsAssumption
    <3>. QED BY <3>1, SeqDef
  <2>7. \A x \in D : row[x.key] \in Row
    BY <2>1, <2>2, <2>4 DEF Listing
  <2>8. loaded \in [D -> Row]
    BY <2>4, <2>5, <2>7
  <2>9. loaded \in Partial(Item, Row)
    BY <2>8, PartialIn
  <2>10. StartBatch(b, kind, version, todo, loaded)
    BY <1>2, <2>3, <2>5 DEF StartListings
  <2>. QED BY <2>6, <2>9, <2>10, StartBatchShape
<1>3. ASSUME NEW texts \in SeqsUpTo(Descriptions, MaxTodo), StartBulk(b, version, texts)
      PROVE  /\ Shape' /\ UNCHANGED <<row, analysis, jobs, crossed, blocked, broken>>
             /\ batch[b] = NoBatch
             /\ \E r \in Batch : r.pc = "next" /\ r.done = <<>> /\ r.queued = 0 /\ Becomes(b, r)
  <2>1. PICK m \in 1..MaxTodo : texts \in [1..m -> Descriptions]
    BY DEF SeqsUpTo
  <2>2. texts \in Seq(Descriptions)
    BY <2>1, SeqDef, BoundsAssumption
  <2>3. <<>> \in Partial(Item, Row)
    BY EmptyPartial
  <2>4. StartBatch(b, "bulk", version, texts, <<>>)
    BY <1>3 DEF StartBulk
  <2>. QED BY <2>2, <2>3, <2>4, StartBatchShape
<1>. QED BY <1>1, <1>2, <1>3

LEMMA BatchTypes ==
  ASSUME Shape, NEW b \in Evaluators
  PROVE  batch[b] \in Batch /\ AtWork(batch[b])
BY DEF Shape, TypeOK

\* The item a batch of its kind is at.
LEMMA CurrentItem ==
  ASSUME Shape, NEW b \in Evaluators, batch[b].todo # <<>>
  PROVE  /\ Tail(batch[b].todo) \in Seq(Item \cup Descriptions)
         /\ batch[b].kind \in {"listings", "scrape"} =>
              Current(b) \in Item /\ Tail(batch[b].todo) \in Seq(Item)
         /\ batch[b].kind = "bulk" =>
              Current(b) \in Descriptions /\ Tail(batch[b].todo) \in Seq(Descriptions)
<1>1. batch[b].todo \in Seq(Item \cup Descriptions)
  BY BatchTypes DEF Batch
<1>2. Tail(batch[b].todo) \in Seq(Item \cup Descriptions)
  BY <1>1, HeadTailProperties
<1>3. CASE batch[b].kind \in {"listings", "scrape"}
  <2>1. batch[b].todo \in Seq(Item) /\ batch[b].kind # "bulk"
    BY <1>3, BatchTypes DEF AtWork
  <2>. QED BY <1>2, <2>1, HeadTailProperties DEF Current
<1>4. CASE batch[b].kind = "bulk"
  <2>1. batch[b].todo \in Seq(Descriptions)
    BY <1>4, BatchTypes DEF AtWork
  <2>. QED BY <1>2, <1>4, <2>1, HeadTailProperties DEF Current
<1>. QED BY <1>2, <1>3, <1>4

\* A step to which TailoringAccounted is indifferent: what the batch holds of
\* scores that it has to hand over is the same.
Holds(x, r) ==
  /\ r.done = x.done /\ r.pc # "queue" /\ x.pc # "queue"
  /\ x.pc \in {"link", "linked", "ensure"} /\ ~x.cached =>
       /\ r.pc \in {"link", "linked", "ensure"} /\ ~r.cached
       /\ r.seen.text = x.seen.text

LEMMA PassOverShape ==
  ASSUME Shape, NEW b \in Evaluators, NEW seen, PassOver(b, seen),
         batch[b].pc = "next", batch[b].kind \in {"listings", "scrape"}, batch[b].todo # <<>>
  PROVE  \E r \in Batch : AtWork(r) /\ Becomes(b, r) /\ Holds(batch[b], r) /\ r.pc = "next"
<1>1. PICK r : r = [batch[b] EXCEPT !.todo = Tail(batch[b].todo)]
  OBVIOUS
<1>2. /\ r \in Batch /\ r.pc = "next" /\ r.kind = batch[b].kind /\ r.done = batch[b].done
      /\ r.version = batch[b].version /\ r.todo = Tail(batch[b].todo)
  BY <1>1, BatchTypes, CurrentItem DEF Batch
<1>3. AtWork(r)
  BY <1>2, BatchTypes, CurrentItem DEF AtWork
<1>4. Becomes(b, r)
  BY <1>1 DEF PassOver, Becomes, Shape, TypeOK
<1>. QED BY <1>2, <1>3, <1>4 DEF Holds

LEMMA LookUpShape ==
  ASSUME Shape, NEW b \in Evaluators, NEW seen \in Seen, NEW hit \in {"link", "ensure"},
         LookUp(b, seen, hit), batch[b].pc = "next", batch[b].todo # <<>>,
         batch[b].kind \in IF hit = "link" THEN {"listings", "scrape"} ELSE {"bulk"}
  PROVE  \E r \in Batch : /\ AtWork(r) /\ Becomes(b, r) /\ Holds(batch[b], r)
                          /\ r.pc \in {"call", hit} /\ r.seen = seen
                          /\ r.pc = hit => r.cached /\ Stored(r.seen.text)
<1>1. PICK found : found = (Stored(seen.text) /\ analysis[seen.text].version = batch[b].version)
  OBVIOUS
<1>2. found \in BOOLEAN /\ (found => Stored(seen.text))
  BY <1>1
<1>3. PICK pc : pc = IF found THEN hit ELSE "call"
  OBVIOUS
<1>4. PICK r : r = [batch[b] EXCEPT !.seen = seen, !.cached = found, !.pc = pc]
  OBVIOUS
<1>5. /\ r.pc = pc /\ r.kind = batch[b].kind /\ r.done = batch[b].done
      /\ r.version = batch[b].version /\ r.todo = batch[b].todo
      /\ r.seen = seen /\ r.cached = found
  BY <1>4, BatchTypes DEF Batch
<1>6. r \in Batch
  BY <1>2, <1>3, <1>4, BatchTypes DEF Batch, Places
<1>7. seen.text \in Descriptions
  BY DEF LookUp, Seen, Texts
<1>8. AtWork(r)
  BY <1>3, <1>5, <1>7, BatchTypes DEF AtWork
<1>9. Becomes(b, r)
  BY <1>1, <1>3, <1>4 DEF LookUp, Becomes, Shape, TypeOK
<1>. QED BY <1>2, <1>3, <1>5, <1>6, <1>8, <1>9 DEF Holds

\* A step of a batch that takes its next item.
LEMMA TakeShape ==
  ASSUME Shape, NEW b \in Evaluators, TakeListing(b) \/ TakeText(b)
  PROVE  /\ Shape'
         /\ UNCHANGED <<row, analysis, jobs, crossed, blocked, broken>>
         /\ \E r \in Batch : /\ Becomes(b, r) /\ Holds(batch[b], r)
                             /\ r.pc \in {"next", "call", "link", "ensure"}
                             /\ r.pc \in {"link", "ensure"} => r.cached /\ Stored(r.seen.text)
<1>1. batch[b].pc = "next" /\ batch[b].todo # <<>>
      /\ UNCHANGED <<row, analysis, jobs, scraper, deleter, ids, scrapes, batches, deletes,
                     crashes, crossed, blocked, broken, unstored>>
  BY DEF TakeListing, TakeText, bounds
<1>2. \E r \in Batch : /\ AtWork(r) /\ Becomes(b, r) /\ Holds(batch[b], r)
                       /\ r.pc \in {"next", "call", "link", "ensure"}
                       /\ r.pc \in {"link", "ensure"} => r.cached /\ Stored(r.seen.text)
  <2>1. CASE TakeListing(b)
    <3>1. batch[b].kind \in {"listings", "scrape"} /\ Current(b) \in Item
      BY <1>1, <2>1, CurrentItem DEF TakeListing
    <3>2. PICK seen : /\ seen = IF Current(b) \in DOMAIN batch[b].loaded
                                  THEN batch[b].loaded[Current(b)]
                                ELSE IF Here(b) THEN row[Current(b).key] ELSE Gone
                      /\ PassOver(b, seen) \/ LookUp(b, seen, "link")
      BY <2>1 DEF TakeListing
    <3>3. seen \in Seen
      <4>1. batch[b].loaded \in Partial(Item, Row)
        BY BatchTypes DEF Batch
      <4>2. \A x \in DOMAIN batch[b].loaded : batch[b].loaded[x] \in Row
        BY <4>1, PartialHas
      <4>3. row[Current(b).key] \in Row \cup {Gone}
        BY <3>1 DEF Item, Shape, TypeOK
      <4>. QED BY <3>2, <4>2, <4>3, SessionTypes
    <3>4. CASE PassOver(b, seen)
      BY <1>1, <3>1, <3>4, PassOverShape
    <3>5. CASE LookUp(b, seen, "link")
      BY <1>1, <3>1, <3>3, <3>5, LookUpShape
    <3>. QED BY <3>2, <3>4, <3>5
  <2>2. CASE TakeText(b)
    <3>1. batch[b].kind = "bulk" /\ Current(b) \in Descriptions
      BY <1>1, <2>2, CurrentItem DEF TakeText
    <3>2. PICK seen : seen = [Gone EXCEPT !.text = Current(b)]
      OBVIOUS
    <3>3. seen \in Seen /\ LookUp(b, seen, "ensure")
      BY <2>2, <3>1, <3>2, SessionTypes DEF Seen, Texts, TakeText
    <3>. QED BY <1>1, <3>1, <3>3, LookUpShape
  <2>. QED BY <2>1, <2>2
<1>3. batches' \in 0..MaxBatches /\ jobs' \subseteq Descriptions /\ blocked' \subseteq Descriptions
  BY <1>1 DEF Shape, TypeOK
<1>. QED BY <1>1, <1>2, <1>3, BatchShape

LEMMA CallFailsShape ==
  ASSUME Shape, NEW b \in Evaluators, CallFails(b)
  PROVE  /\ Shape'
         /\ UNCHANGED <<row, analysis, jobs, crossed, blocked, broken>>
         /\ \E r \in Batch : Becomes(b, r) /\ Holds(batch[b], r) /\ r.pc \in {"free", "next"}
<1>1. batch[b].pc = "call" /\ batch[b].todo # <<>> /\ batch[b].kind # "none"
  BY BatchTypes DEF CallFails, AtWork
<1>2. \E r \in Batch : AtWork(r) /\ Becomes(b, r) /\ Holds(batch[b], r)
                         /\ r.pc \in {"free", "next"}
  <2>1. CASE batch[b].kind = "bulk"
    <3>1. Becomes(b, NoBatch)
      BY <2>1 DEF CallFails, Becomes, Shape, TypeOK
    <3>2. batch[b].done = <<>>
      BY <2>1, BatchTypes DEF AtWork
    <3>. QED BY <1>1, <3>1, <3>2, SessionTypes DEF Holds
  <2>2. CASE batch[b].kind # "bulk"
    <3>1. PICK r : r = [batch[b] EXCEPT !.pc = "next", !.todo = Tail(batch[b].todo),
                                        !.loaded = <<>>]
      OBVIOUS
    <3>2. /\ r.pc = "next" /\ r.kind = batch[b].kind /\ r.done = batch[b].done
          /\ r.version = batch[b].version /\ r.todo = Tail(batch[b].todo)
      BY <3>1, BatchTypes DEF Batch
    <3>3. batch[b].kind \in {"listings", "scrape"}
      BY <1>1, <2>2, BatchTypes DEF Batch
    <3>4. r \in Batch
      BY <1>1, <3>1, BatchTypes, CurrentItem, EmptyPartial DEF Batch, Places
    <3>5. AtWork(r)
      BY <1>1, <3>2, <3>3, BatchTypes, CurrentItem DEF AtWork
    <3>6. Becomes(b, r)
      BY <2>2, <3>1 DEF CallFails, Becomes, Shape, TypeOK
    <3>. QED BY <1>1, <3>2, <3>4, <3>5, <3>6 DEF Holds
  <2>. QED BY <2>1, <2>2
<1>3. batches' \in 0..MaxBatches /\ jobs' \subseteq Descriptions /\ blocked' \subseteq Descriptions
      /\ UNCHANGED <<row, analysis, jobs, scraper, deleter, ids, scrapes, batches, deletes,
                     crashes, crossed, blocked, broken, unstored>>
  BY DEF CallFails, bounds, Shape, TypeOK
<1>. QED BY <1>2, <1>3, BatchShape

LEMMA CallScoresShape ==
  ASSUME Shape, NEW b \in Evaluators, NEW tailor \in BOOLEAN, CallScores(b, tailor)
  PROVE  /\ Shape' /\ UNCHANGED <<row, jobs, crossed, blocked>>
         /\ \/ /\ Breaks(b) /\ UNCHANGED analysis
            \/ /\ UNCHANGED broken
               /\ ~Stored(batch[b].seen.text)
               /\ analysis' = [analysis EXCEPT ![batch[b].seen.text] =
                    [version |-> batch[b].version, tailor |-> tailor]]
               /\ analysis'[batch[b].seen.text] \in Analysis
               /\ \E r \in Batch : /\ Becomes(b, r) /\ r.seen = batch[b].seen
                                   /\ r.pc \in {"link", "ensure"} /\ ~r.cached
                                   /\ r.done = batch[b].done
<1>0. /\ batch[b].pc = "call" /\ batch[b].seen.text \in Descriptions
      /\ batch[b].version \in Versions /\ ~batch[b].cached /\ batch[b].kind # "none"
      /\ batch[b].todo # <<>>
  BY BatchTypes DEF CallScores, AtWork
<1>1. CASE Stored(batch[b].seen.text)
  <2>1. Breaks(b) /\ unstored' = unstored \cup {<<batch[b].seen.text, batch[b].version>>}
        /\ UNCHANGED <<row, analysis, jobs, scraper, deleter, ids, scrapes, batches, deletes,
                       crashes, crossed, blocked>>
    BY <1>1 DEF CallScores, bounds
  <2>2. unstored' \subseteq Descriptions \X Versions
    BY <1>0, <2>1 DEF Shape, TypeOK
  <2>. QED BY <2>1, <2>2, BreaksShape DEF Shape, TypeOK
<1>2. CASE ~Stored(batch[b].seen.text)
  <2>1. PICK pc : pc = IF batch[b].kind = "bulk" THEN "ensure" ELSE "link"
    OBVIOUS
  <2>2. PICK r : r = [batch[b] EXCEPT !.pc = pc, !.loaded = <<>>]
    OBVIOUS
  <2>3. Becomes(b, r)
    BY <1>2, <2>1, <2>2 DEF CallScores, Becomes, Shape, TypeOK
  <2>4. /\ r.pc = pc /\ r.kind = batch[b].kind /\ r.done = batch[b].done
        /\ r.version = batch[b].version /\ r.todo = batch[b].todo
        /\ r.seen = batch[b].seen /\ r.cached = batch[b].cached
    BY <2>2, BatchTypes DEF Batch
  <2>5. r \in Batch
    BY <2>1, <2>2, BatchTypes, EmptyPartial DEF Batch, Places
  <2>6. AtWork(r)
    <3>1. batch[b].kind \in {"listings", "scrape", "bulk"}
      BY <1>0, BatchTypes DEF Batch
    <3>. QED BY <1>0, <2>1, <2>4, <3>1, BatchTypes DEF AtWork
  <2>7. PICK score : score = [version |-> batch[b].version, tailor |-> tailor]
    OBVIOUS
  <2>8. score \in Analysis /\ analysis' = [analysis EXCEPT ![batch[b].seen.text] = score]
    BY <1>0, <1>2, <2>7 DEF CallScores, Analysis
  <2>9. analysis' \in [Descriptions -> Analysis \cup {None}]
    BY <1>0, <2>8 DEF Shape, TypeOK
  <2>10. UNCHANGED <<row, jobs, scraper, deleter, ids, scrapes, batches, deletes,
                     crashes, crossed, blocked, broken, unstored>>
    BY <1>2 DEF CallScores, bounds
  <2>11. Shape'
    BY <2>3, <2>5, <2>6, <2>9, <2>10, BecomesShape DEF Shape, TypeOK
  <2>12. analysis'[batch[b].seen.text] \in Analysis
    BY <1>0, <2>8 DEF Shape, TypeOK
  <2>. QED BY <1>0, <1>2, <2>1, <2>3, <2>4, <2>5, <2>7, <2>8, <2>10, <2>11, <2>12
<1>. QED BY <1>1, <1>2

\* The row of a listing that is there is a row of the table.
LEMMA HereIsRow ==
  ASSUME Shape, NEW b \in Evaluators, Current(b) \in Item, Here(b)
  PROVE  Current(b).key \in Keys /\ row[Current(b).key] \in Row
<1>1. Current(b).key \in Keys /\ Current(b).id \in 1..MaxIds
  BY DEF Item
<1>2. row[Current(b).key] \in Row \cup {Gone} /\ row[Current(b).key].id # 0
  BY <1>1, BoundsAssumption DEF Here, Shape, TypeOK
<1>. QED BY <1>1, <1>2 DEF Gone

LEMMA LinkShape ==
  ASSUME Shape, NEW b \in Evaluators, Link(b)
  PROVE  /\ Shape' /\ UNCHANGED <<analysis, jobs, blocked, broken>>
         /\ batch[b].pc = "link" /\ batch[b].seen.text \in Descriptions
         /\ \E r \in Batch : Becomes(b, r) /\ Holds(batch[b], r) /\ r.pc = "linked"
                               /\ r.seen = batch[b].seen
         /\ \/ UNCHANGED <<row, crossed>>
            \/ \E k \in Keys :
                 /\ row[k] \in Row
                 /\ row'[k].link = batch[b].seen.text /\ row'[k].text = row[k].text
                 /\ \A x \in Keys : x # k => row'[x] = row[x]
                 /\ \/ row[k] = batch[b].seen /\ crossed' = {x \in crossed : row'[x].link # NoLink}
                    \/ crossed' = {x \in crossed \cup {k} : row'[x].link # NoLink}
<1>1. /\ batch[b].pc = "link" /\ batch[b].todo # <<>> /\ batch[b].seen.text \in Descriptions
      /\ batch[b].kind \in {"listings", "scrape"} /\ batch[b].version \in Versions
  BY BatchTypes DEF Link, AtWork
<1>2. Current(b) \in Item
  BY <1>1, CurrentItem
<1>3. UNCHANGED <<analysis, jobs, scraper, deleter, ids, scrapes, batches, deletes,
                  crashes, blocked, broken, unstored>>
  BY DEF Link, bounds
<1>4. PICK r : r = [batch[b] EXCEPT !.pc = "linked", !.loaded = <<>>]
  OBVIOUS
<1>5. Becomes(b, r)
  BY <1>4 DEF Link, Becomes, Shape, TypeOK
<1>6. /\ r.pc = "linked" /\ r.kind = batch[b].kind /\ r.done = batch[b].done
      /\ r.version = batch[b].version /\ r.todo = batch[b].todo
      /\ r.seen = batch[b].seen /\ r.cached = batch[b].cached
  BY <1>4, BatchTypes DEF Batch
<1>7. r \in Batch
  BY <1>4, BatchTypes, EmptyPartial DEF Batch, Places
<1>8. AtWork(r)
  BY <1>1, <1>6, BatchTypes DEF AtWork
<1>9. Holds(batch[b], r)
  BY <1>1, <1>6 DEF Holds
<1>10. CASE UNCHANGED <<row, crossed>>
  <2>1. Shape'
    BY <1>3, <1>5, <1>7, <1>8, <1>10, BatchShape DEF Shape, TypeOK
  <2>. QED BY <1>1, <1>3, <1>5, <1>6, <1>7, <1>9, <1>10, <2>1
<1>11. CASE ~(UNCHANGED <<row, crossed>>)
  <2>1. PICK k : k = Current(b).key
    OBVIOUS
  <2>2. /\ Here(b) /\ row' = [row EXCEPT ![k].link = batch[b].seen.text]
        /\ Crosses(IF row[k] # batch[b].seen THEN {k} ELSE {})
    BY <1>11, <2>1 DEF Link
  <2>3. k \in Keys /\ row[k] \in Row
    BY <1>2, <2>1, <2>2, HereIsRow
  <2>4. PICK new : new = [row[k] EXCEPT !.link = batch[b].seen.text]
    OBVIOUS
  <2>5. /\ new \in Row /\ new.link = batch[b].seen.text /\ new.text = row[k].text
        /\ new.id = row[k].id
    BY <1>1, <2>3, <2>4 DEF Row
  <2>6. row' = [row EXCEPT ![k] = new]
    BY <2>2, <2>3, <2>4 DEF Shape, TypeOK
  <2>7. /\ row' \in [Keys -> Row \cup {Gone}] /\ row'[k] = new
        /\ \A x \in Keys : x # k => row'[x] = row[x]
        /\ \A x \in Keys : row'[x].id \in 0..ids'[x]
    BY <1>3, <2>3, <2>5, <2>6 DEF Shape, TypeOK
  <2>8. \/ row[k] = batch[b].seen /\ crossed' = {x \in crossed : row'[x].link # NoLink}
        \/ crossed' = {x \in crossed \cup {k} : row'[x].link # NoLink}
    BY <2>2 DEF Crosses
  <2>9. crossed' \subseteq Keys
    BY <2>3, <2>8 DEF Shape, TypeOK
  <2>10. Shape'
    BY <1>3, <1>5, <1>7, <1>8, <2>7, <2>9, BecomesShape DEF Shape, TypeOK
  <2>. QED BY <1>1, <1>3, <1>5, <1>6, <1>7, <1>9, <2>3, <2>5, <2>7, <2>8, <2>10
<1>. QED BY <1>10, <1>11

\* The steps that break a batch off and change nothing else.
LEMMA BrokenShape ==
  ASSUME Shape, NEW b \in Evaluators, Breaks(b), crashes' \in 0..MaxCrashes,
         UNCHANGED <<row, analysis, jobs, scraper, deleter, ids, scrapes, batches, deletes,
                     crossed, blocked, unstored>>
  PROVE  Shape'
BY BreaksShape DEF Shape, TypeOK

LEMMA ReportShape ==
  ASSUME Shape, NEW b \in Evaluators, Report(b)
  PROVE  /\ Shape' /\ UNCHANGED <<row, analysis, jobs, crossed, blocked>>
         /\ batch[b].pc = "linked" /\ batch[b].done \in Seq(Result)
         /\ \/ Breaks(b)
            \/ /\ UNCHANGED broken
               /\ \E s \in Result, r \in Batch :
                    /\ s.text = batch[b].seen.text /\ s.cached = batch[b].cached
                    /\ Becomes(b, r) /\ r.pc = "next" /\ r.done = Append(batch[b].done, s)
<1>1. /\ batch[b].pc = "linked" /\ batch[b].todo # <<>> /\ batch[b].seen.text \in Descriptions
      /\ batch[b].kind \in {"listings", "scrape"} /\ batch[b].version \in Versions
      /\ batch[b].done \in Seq(Result) /\ batch[b].cached \in BOOLEAN
  BY BatchTypes DEF Report, AtWork, Batch
<1>2. UNCHANGED <<row, analysis, jobs, scraper, deleter, ids, scrapes, batches, deletes,
                  crashes, crossed, blocked, unstored>>
  BY DEF Report, bounds
<1>3. CASE Breaks(b)
  BY <1>1, <1>2, <1>3, BrokenShape DEF Shape, TypeOK
<1>4. CASE ~Breaks(b)
  <2>1. PICK s : s = [text |-> batch[b].seen.text, cached |-> batch[b].cached]
    OBVIOUS
  <2>2. s \in Result /\ s.text = batch[b].seen.text /\ s.cached = batch[b].cached
    BY <1>1, <2>1 DEF Result
  <2>3. PICK r : r = [batch[b] EXCEPT !.pc = "next", !.todo = Tail(batch[b].todo),
                                      !.done = Append(batch[b].done, s)]
    OBVIOUS
  <2>4. UNCHANGED broken /\ Becomes(b, r)
    BY <1>4, <2>1, <2>3 DEF Report, Becomes, Shape, TypeOK
  <2>5. /\ r.pc = "next" /\ r.kind = batch[b].kind /\ r.done = Append(batch[b].done, s)
        /\ r.version = batch[b].version /\ r.todo = Tail(batch[b].todo)
    BY <2>3, BatchTypes DEF Batch
  <2>6. Append(batch[b].done, s) \in Seq(Result)
    BY <1>1, <2>2, AppendProperties
  <2>7. r \in Batch
    BY <1>1, <2>3, <2>6, BatchTypes, CurrentItem DEF Batch, Places
  <2>8. AtWork(r)
    BY <1>1, <2>5, BatchTypes, CurrentItem DEF AtWork
  <2>9. Shape'
    BY <1>2, <2>4, <2>7, <2>8, BatchShape DEF Shape, TypeOK
  <2>. QED BY <1>1, <1>2, <2>2, <2>4, <2>5, <2>7, <2>9
<1>. QED BY <1>3, <1>4

LEMMA EnsureShape ==
  ASSUME Shape, NEW b \in Evaluators, Ensure(b)
  PROVE  /\ Shape' /\ UNCHANGED <<row, analysis, crossed, blocked, broken>>
         /\ jobs \subseteq jobs'
         /\ NeedsTailoring(batch[b].seen.text) => batch[b].seen.text \in jobs'
         /\ batch[b].pc = "ensure" /\ batch[b].done = <<>>
         /\ \E r \in Batch : Becomes(b, r) /\ r.pc = "next" /\ r.done = <<>>
<1>1. /\ batch[b].pc = "ensure" /\ batch[b].todo # <<>> /\ batch[b].seen.text \in Descriptions
      /\ batch[b].kind = "bulk" /\ batch[b].version \in Versions /\ batch[b].done = <<>>
  BY BatchTypes DEF Ensure, AtWork
<1>2. UNCHANGED <<row, analysis, scraper, deleter, ids, scrapes, batches, deletes,
                  crashes, crossed, blocked, broken, unstored>>
  BY DEF Ensure, bounds
<1>3. /\ jobs \subseteq jobs' /\ jobs' \subseteq Descriptions
      /\ NeedsTailoring(batch[b].seen.text) => batch[b].seen.text \in jobs'
  BY <1>1 DEF Ensure, Shape, TypeOK
<1>4. PICK queued : queued = IF jobs' = jobs THEN batch[b].queued ELSE batch[b].queued + 1
  OBVIOUS
<1>5. PICK r : r = [batch[b] EXCEPT !.pc = "next", !.todo = Tail(batch[b].todo),
                                    !.queued = queued]
  OBVIOUS
<1>6. Becomes(b, r)
  BY <1>4, <1>5 DEF Ensure, Becomes, Shape, TypeOK
<1>7. queued \in Nat
  BY <1>4, BatchTypes DEF Batch
<1>8. /\ r.pc = "next" /\ r.kind = batch[b].kind /\ r.done = batch[b].done
      /\ r.version = batch[b].version /\ r.todo = Tail(batch[b].todo)
  BY <1>5, BatchTypes DEF Batch
<1>9. r \in Batch
  BY <1>1, <1>5, <1>7, BatchTypes, CurrentItem DEF Batch, Places
<1>10. AtWork(r)
  BY <1>1, <1>8, BatchTypes, CurrentItem DEF AtWork
<1>11. Shape'
  BY <1>2, <1>3, <1>6, <1>9, <1>10, BatchShape DEF Shape, TypeOK
<1>. QED BY <1>1, <1>2, <1>3, <1>6, <1>8, <1>9, <1>11

\* Only results that are scored anew and need tailoring are allowed.
LEMMA AllowedIsFresh ==
  ASSUME NEW done
  PROVE  AllowedOf(done) \subseteq Fresh(done) /\ Fresh(done) \subseteq DOMAIN done
BY DEF AllowedOf, FirstOf, Fresh

LEMMA FinishShape ==
  ASSUME Shape, NEW b \in Evaluators, Finish(b)
  PROVE  /\ Shape' /\ UNCHANGED <<row, analysis, jobs, crossed, broken>>
         /\ batch[b].pc = "next"
         /\ \E r \in Batch :
              /\ Becomes(b, r) /\ r.pc = "queue" /\ r.done = batch[b].done
              /\ blocked' = blocked \cup ({batch[b].done[i].text : i \in Fresh(batch[b].done)}
                                            \ r.allowed)
<1>1. /\ batch[b].pc = "next" /\ batch[b].kind # "none" /\ batch[b].version \in Versions
      /\ batch[b].done \in Seq(Result)
  BY BatchTypes DEF Finish, AtWork, Batch
<1>2. UNCHANGED <<row, analysis, jobs, scraper, deleter, ids, scrapes, batches, deletes,
                  crashes, crossed, broken, unstored>>
  BY DEF Finish, bounds
<1>3. PICK allowed : allowed = {batch[b].done[i].text : i \in AllowedOf(batch[b].done)}
  OBVIOUS
<1>4. \A i \in DOMAIN batch[b].done : batch[b].done[i].text \in Descriptions
  <2>1. \A i \in DOMAIN batch[b].done : batch[b].done[i] \in Result
    BY <1>1
  <2>. QED BY <2>1 DEF Result
<1>5. allowed \subseteq Descriptions
  BY <1>3, <1>4, AllowedIsFresh
<1>6. PICK r : r = [batch[b] EXCEPT !.pc = "queue", !.allowed = allowed]
  OBVIOUS
<1>7. /\ Becomes(b, r)
      /\ blocked' = blocked \cup ({batch[b].done[i].text : i \in Fresh(batch[b].done)} \ allowed)
  BY <1>3, <1>6 DEF Finish, Becomes, Shape, TypeOK
<1>8. blocked' \subseteq Descriptions
  BY <1>4, <1>7, AllowedIsFresh DEF Shape, TypeOK
<1>9. /\ r.pc = "queue" /\ r.kind = batch[b].kind /\ r.done = batch[b].done
      /\ r.version = batch[b].version /\ r.todo = batch[b].todo /\ r.allowed = allowed
  BY <1>6, BatchTypes DEF Batch
<1>10. r \in Batch
  BY <1>5, <1>6, BatchTypes DEF Batch, Places
<1>11. AtWork(r)
  BY <1>1, <1>9, BatchTypes DEF AtWork
<1>12. Shape'
  BY <1>2, <1>7, <1>8, <1>10, <1>11, BatchShape DEF Shape, TypeOK
<1>. QED BY <1>1, <1>2, <1>7, <1>9, <1>10, <1>12

LEMMA QueueNextShape ==
  ASSUME Shape, NEW b \in Evaluators, QueueNext(b)
  PROVE  /\ Shape' /\ UNCHANGED <<row, analysis, crossed, blocked, broken>>
         /\ jobs \subseteq jobs' /\ batch[b].pc = "queue" /\ batch[b].done \in Seq(Result)
         /\ \/ batch[b].done = <<>> /\ Becomes(b, NoBatch)
            \/ /\ batch[b].done # <<>>
               /\ HandsOver(batch[b], Head(batch[b].done)) => Head(batch[b].done).text \in jobs'
               /\ \E r \in Batch :
                    /\ Becomes(b, r) /\ r.pc = "queue" /\ r.done = Tail(batch[b].done)
                    /\ r.kind = batch[b].kind /\ r.allowed = batch[b].allowed
<1>1. /\ batch[b].pc = "queue" /\ batch[b].kind # "none" /\ batch[b].version \in Versions
      /\ batch[b].done \in Seq(Result)
  BY BatchTypes DEF QueueNext, AtWork, Batch
<1>2. UNCHANGED <<row, analysis, scraper, deleter, ids, scrapes, batches, deletes,
                  crashes, crossed, blocked, broken, unstored>>
  BY DEF QueueNext, bounds
<1>3. CASE batch[b].done = <<>>
  <2>1. Becomes(b, NoBatch) /\ jobs' = jobs
    BY <1>3 DEF QueueNext, Becomes
  <2>2. Shape'
    BY <1>2, <2>1, BatchShape, SessionTypes DEF Shape, TypeOK
  <2>. QED BY <1>1, <1>2, <1>3, <2>1, <2>2
<1>4. CASE batch[b].done # <<>>
  <2>1. PICK queued : queued = IF jobs' = jobs THEN batch[b].queued ELSE batch[b].queued + 1
    OBVIOUS
  <2>2. PICK r : r = [batch[b] EXCEPT !.done = Tail(batch[b].done), !.queued = queued]
    OBVIOUS
  <2>3. Becomes(b, r)
    BY <1>4, <2>1, <2>2 DEF QueueNext, Becomes, Shape, TypeOK
  <2>4. Head(batch[b].done) \in Result /\ Tail(batch[b].done) \in Seq(Result)
    BY <1>1, <1>4, HeadTailProperties
  <2>5. /\ jobs \subseteq jobs' /\ jobs' \subseteq Descriptions
        /\ HandsOver(batch[b], Head(batch[b].done)) => Head(batch[b].done).text \in jobs'
    BY <1>4, <2>4 DEF QueueNext, Result, Shape, TypeOK
  <2>6. /\ r.pc = "queue" /\ r.kind = batch[b].kind /\ r.done = Tail(batch[b].done)
        /\ r.version = batch[b].version /\ r.todo = batch[b].todo
        /\ r.allowed = batch[b].allowed
    BY <1>1, <2>2, BatchTypes DEF Batch
  <2>7. r \in Batch
    <3>1. queued \in Nat
      BY <2>1, BatchTypes DEF Batch
    <3>. QED BY <2>2, <2>4, <3>1, BatchTypes DEF Batch
  <2>8. AtWork(r)
    <3>1. batch[b].kind # "bulk"
      BY <1>4, BatchTypes DEF AtWork
    <3>. QED BY <1>1, <2>6, <3>1, BatchTypes DEF AtWork
  <2>9. Shape'
    BY <1>2, <2>3, <2>5, <2>7, <2>8, BatchShape DEF Shape, TypeOK
  <2>. QED BY <1>1, <1>2, <1>4, <2>3, <2>5, <2>6, <2>7, <2>9
<1>. QED BY <1>3, <1>4

LEMMA CrashShape ==
  ASSUME Shape, NEW b \in Evaluators, Crash(b)
  PROVE  Shape' /\ UNCHANGED <<row, analysis, jobs, crossed, blocked>> /\ Breaks(b)
<1>1. crashes' \in 0..MaxCrashes
  BY BoundsAssumption DEF Crash, Shape, TypeOK
<1>. QED BY <1>1, BrokenShape DEF Crash

LEMMA LinkRaisesShape ==
  ASSUME Shape, NEW b \in Evaluators, LinkRaises(b)
  PROVE  Shape' /\ UNCHANGED <<row, analysis, jobs, crossed, blocked>> /\ Breaks(b)
<1>1. crashes' \in 0..MaxCrashes
  BY DEF LinkRaises, bounds, Shape, TypeOK
<1>. QED BY <1>1, BrokenShape DEF LinkRaises, bounds

LEMMA StutterShape ==
  ASSUME Shape, UNCHANGED vars
  PROVE  Shape'
BY DEF vars, bounds, Shape, TypeOK, AtWork

LEMMA InitShape ==
  ASSUME Init
  PROVE  Shape
<1>1. /\ row \in [Keys -> Row \cup {Gone}] /\ \A k \in Keys : row[k].id \in 0..ids[k]
      /\ ids \in [Keys -> 0..MaxIds]
  BY BoundsAssumption DEF Init, Gone
<1>2. /\ scraper \in [Scrapers -> Upsert] /\ deleter \in [Deleters -> Deletion]
      /\ batch \in [Evaluators -> Batch] /\ \A b \in Evaluators : AtWork(batch[b])
  BY SessionTypes DEF Init
<1>3. analysis \in [Descriptions -> Analysis \cup {None}]
  BY DEF Init
<1>. QED BY <1>1, <1>2, <1>3, BoundsAssumption DEF Init, Shape, TypeOK

LEMMA NextShape ==
  ASSUME Shape, [Next]_vars
  PROVE  Shape'
<1>1. ASSUME NEW u \in Scrapers, ScrapeStep(u)
      PROVE  Shape'
  BY <1>1, UpsertStartShape, UpsertReadShape, UpsertCommitShape DEF ScrapeStep
<1>2. ASSUME NEW x \in Deleters, DeleteStep(x)
      PROVE  Shape'
  BY <1>2, DeleteReadShape, DeleteCommitShape DEF DeleteStep
<1>3. ASSUME NEW b \in Evaluators, BatchStep(b)
      PROVE  Shape'
  BY <1>3, TakeShape, CallFailsShape, CallScoresShape, LinkShape, LinkRaisesShape,
     ReportShape, EnsureShape, FinishShape, QueueNextShape DEF BatchStep
<1>4. ASSUME NEW b \in Evaluators, StartStep(b) \/ Crash(b)
      PROVE  Shape'
  BY <1>4, StartShape, CrashShape
<1>. QED BY <1>1, <1>2, <1>3, <1>4, StutterShape DEF Next

\* Rows, analyses and sessions keep their shape: what upserts, deletions and
\* batches read and hold between their commits.
THEOREM TypeCorrect == Spec => []TypeOK
<1>1. Init => Shape
  BY InitShape
<1>2. Shape /\ [Next]_vars => Shape'
  BY NextShape
<1>3. Shape => TypeOK
  BY DEF Shape
<1>. QED BY <1>1, <1>2, <1>3, PTL DEF Spec

----------------------------------------------------------------------------
(* The link of a listing.                                                   *)

\* A batch that links or queues an analysis has it stored.
Scored == \A b \in Evaluators : batch[b].pc \in {"link", "linked", "ensure"} =>
                                  Stored(batch[b].seen.text)

\* No step changes an analysis that is stored.
AnalysesKept == \A d \in Descriptions : Stored(d) => analysis'[d] = analysis[d]

\* What a step of batch b keeps of the analyses.
KeepsScores(b) ==
  /\ AnalysesKept
  /\ \A c \in Evaluators : c # b => batch'[c] = batch[c]
  /\ batch'[b].pc \in {"link", "linked", "ensure"} =>
       analysis'[batch'[b].seen.text] # None

LEMMA ScoresMove ==
  ASSUME Shape, Scored, NEW b \in Evaluators, KeepsScores(b)
  PROVE  Scored' /\ AnalysesKept
<1>1. \A c \in Evaluators : batch[c].pc \in {"link", "linked", "ensure"} =>
                              batch[c].seen.text \in Descriptions
  BY BatchTypes DEF AtWork
<1>. QED BY <1>1 DEF KeepsScores, AnalysesKept, Scored, Stored

LEMMA ScoresStay ==
  ASSUME Shape, Scored, UNCHANGED <<analysis, batch>>
  PROVE  Scored' /\ AnalysesKept
BY DEF AnalysesKept, Scored, Stored

LEMMA BreaksScores ==
  ASSUME Shape, NEW b \in Evaluators, Breaks(b), UNCHANGED analysis
  PROVE  KeepsScores(b)
BY BreaksShape, SessionTypes DEF KeepsScores, AnalysesKept

LEMMA CallScoresScores ==
  ASSUME Shape, Scored, NEW b \in Evaluators, NEW tailor \in BOOLEAN, CallScores(b, tailor)
  PROVE  KeepsScores(b)
<1>1. CASE Breaks(b) /\ UNCHANGED analysis
  BY <1>1, BreaksScores
<1>2. CASE ~(Breaks(b) /\ UNCHANGED analysis)
  <2>1. /\ ~Stored(batch[b].seen.text)
        /\ analysis' = [analysis EXCEPT ![batch[b].seen.text] =
             [version |-> batch[b].version, tailor |-> tailor]]
        /\ analysis'[batch[b].seen.text] \in Analysis
    BY <1>2, CallScoresShape
  <2>2. PICK r \in Batch : Becomes(b, r) /\ r.seen = batch[b].seen
    BY <1>2, CallScoresShape
  <2>3. None \notin Analysis
    BY TextAssumption DEF None, Analysis
  <2>4. AnalysesKept
    BY <2>1 DEF AnalysesKept, Shape, TypeOK
  <2>5. batch'[b] = r /\ \A c \in Evaluators : c # b => batch'[c] = batch[c]
    BY <2>2 DEF Becomes, Shape, TypeOK
  <2>. QED BY <2>1, <2>2, <2>3, <2>4, <2>5 DEF KeepsScores
<1>. QED BY <1>1, <1>2

LEMMA BecomesScores ==
  ASSUME Shape, NEW b \in Evaluators, NEW r \in Batch, Becomes(b, r), UNCHANGED analysis,
         r.pc \in {"link", "linked", "ensure"} => Stored(r.seen.text)
  PROVE  KeepsScores(b)
<1>1. batch'[b] = r /\ \A c \in Evaluators : c # b => batch'[c] = batch[c]
  BY DEF Becomes, Shape, TypeOK
<1>. QED BY <1>1 DEF KeepsScores, AnalysesKept, Stored

LEMMA BatchScores ==
  ASSUME Shape, Scored, NEW b \in Evaluators, StartStep(b) \/ BatchStep(b) \/ Crash(b)
  PROVE  KeepsScores(b)
<1>1. CASE StartStep(b)
  <2>1. PICK r \in Batch : r.pc = "next" /\ Becomes(b, r)
    BY <1>1, StartShape
  <2>. QED BY <1>1, <2>1, StartShape, BecomesScores
<1>2. CASE Crash(b) \/ LinkRaises(b)
  BY <1>2, CrashShape, LinkRaisesShape, BreaksScores
<1>3. CASE TakeListing(b) \/ TakeText(b)
  <2>1. PICK r \in Batch :
          /\ Becomes(b, r) /\ r.pc \in {"next", "call", "link", "ensure"}
          /\ r.pc \in {"link", "ensure"} => Stored(r.seen.text)
    BY <1>3, TakeShape
  <2>. QED BY <1>3, <2>1, TakeShape, BecomesScores
<1>4. CASE CallFails(b)
  <2>1. PICK r \in Batch : Becomes(b, r) /\ r.pc \in {"free", "next"}
    BY <1>4, CallFailsShape
  <2>. QED BY <1>4, <2>1, CallFailsShape, BecomesScores
<1>5. ASSUME NEW tailor \in BOOLEAN, CallScores(b, tailor)
      PROVE  KeepsScores(b)
  BY <1>5, CallScoresScores
<1>6. CASE Link(b)
  <2>1. PICK r \in Batch : Becomes(b, r) /\ r.seen = batch[b].seen
    BY <1>6, LinkShape
  <2>2. Stored(batch[b].seen.text) /\ UNCHANGED analysis
    BY <1>6, LinkShape DEF Scored
  <2>. QED BY <2>1, <2>2, BecomesScores
<1>7. CASE Report(b)
  <2>1. CASE Breaks(b)
    BY <1>7, <2>1, ReportShape, BreaksScores
  <2>2. CASE ~Breaks(b)
    <3>1. PICK r \in Batch : Becomes(b, r) /\ r.pc = "next"
      BY <1>7, <2>2, ReportShape
    <3>. QED BY <1>7, <3>1, ReportShape, BecomesScores
  <2>. QED BY <2>1, <2>2
<1>8. CASE Ensure(b)
  <2>1. PICK r \in Batch : Becomes(b, r) /\ r.pc = "next"
    BY <1>8, EnsureShape
  <2>. QED BY <1>8, <2>1, EnsureShape, BecomesScores
<1>9. CASE Finish(b)
  <2>1. PICK r \in Batch : Becomes(b, r) /\ r.pc = "queue"
    BY <1>9, FinishShape
  <2>. QED BY <1>9, <2>1, FinishShape, BecomesScores
<1>10. CASE QueueNext(b)
  <2>1. PICK r \in Batch : Becomes(b, r) /\ r.pc \in {"free", "queue"}
    BY <1>10, QueueNextShape, SessionTypes
  <2>. QED BY <1>10, <2>1, QueueNextShape, BecomesScores
<1>. QED BY <1>1, <1>2, <1>3, <1>4, <1>5, <1>6, <1>7, <1>8, <1>9, <1>10 DEF BatchStep

LEMMA NextScores ==
  ASSUME Shape, Scored, [Next]_vars
  PROVE  Scored' /\ AnalysesKept
<1>1. ASSUME NEW u \in Scrapers, ScrapeStep(u)
      PROVE  UNCHANGED <<analysis, batch>>
  BY <1>1, UpsertStartShape, UpsertReadShape, UpsertCommitShape DEF ScrapeStep
<1>2. ASSUME NEW x \in Deleters, DeleteStep(x)
      PROVE  UNCHANGED <<analysis, batch>>
  BY <1>2, DeleteReadShape, DeleteCommitShape DEF DeleteStep
<1>3. CASE UNCHANGED vars
  BY <1>3, ScoresStay DEF vars
<1>. QED BY <1>1, <1>2, <1>3, ScoresStay, BatchScores, ScoresMove DEF Next

\* What a step does to the link of a listing: it keeps it on the text it was on,
\* or takes it away, or puts it on the text that was read, or it records that the
\* row was not the one that was read.
LinkMoves(k) ==
  row'[k] # Gone /\ row'[k].link # NoLink =>
    /\ \/ row[k] # Gone /\ row'[k].link = row[k].link
       \/ \E b \in Evaluators : batch[b].pc = "link" /\ row'[k].link = batch[b].seen.text
    /\ k \notin crossed' =>
         \/ k \notin crossed /\ row[k] # Gone /\ row'[k].link = row[k].link
              /\ row'[k].text = row[k].text
         \/ row'[k].link = row'[k].text

LEMMA LinksStay ==
  ASSUME UNCHANGED <<row, crossed>>, NEW k
  PROVE  LinkMoves(k)
BY DEF LinkMoves

LEMMA NextLinks ==
  ASSUME Shape, [Next]_vars, NEW k \in Keys
  PROVE  LinkMoves(k)
<1>1. ASSUME NEW u \in Scrapers, ScrapeStep(u)
      PROVE  LinkMoves(k)
  <2>1. CASE UNCHANGED <<row, crossed>>
    BY <2>1, LinksStay
  <2>2. CASE ~(UNCHANGED <<row, crossed>>)
    <3>1. UpsertCommit(u)
      BY <1>1, <2>2, UpsertStartShape, UpsertReadShape DEF ScrapeStep
    <3>2. ~Conflict(scraper[u].read)
      BY <2>2, <3>1 DEF UpsertCommit
    <3>. QED BY <3>1, <3>2, UpsertCommitRows DEF LinkMoves
  <2>. QED BY <2>1, <2>2
<1>2. ASSUME NEW x \in Deleters, DeleteStep(x)
      PROVE  LinkMoves(k)
  <2>1. CASE UNCHANGED <<row, crossed>>
    BY <2>1, LinksStay
  <2>2. CASE DeleteCommit(x)
    BY <2>2, DeleteCommitShape DEF LinkMoves, Gone
  <2>. QED BY <1>2, <2>1, <2>2, DeleteReadShape DEF DeleteStep
<1>3. ASSUME NEW b \in Evaluators, StartStep(b) \/ BatchStep(b) \/ Crash(b)
      PROVE  LinkMoves(k)
  <2>1. CASE UNCHANGED <<row, crossed>>
    BY <2>1, LinksStay
  <2>2. CASE ~(UNCHANGED <<row, crossed>>)
    <3>1. Link(b)
      BY <1>3, <2>2, StartShape, CrashShape, TakeShape, CallFailsShape, CallScoresShape,
         LinkRaisesShape, ReportShape, EnsureShape, FinishShape, QueueNextShape DEF BatchStep
    <3>2. PICK x \in Keys :
            /\ row[x] \in Row
            /\ row'[x].link = batch[b].seen.text /\ row'[x].text = row[x].text
            /\ \A y \in Keys : y # x => row'[y] = row[y]
            /\ \/ row[x] = batch[b].seen /\ crossed' = {y \in crossed : row'[y].link # NoLink}
               \/ crossed' = {y \in crossed \cup {x} : row'[y].link # NoLink}
      BY <2>2, <3>1, LinkShape
    <3>3. batch[b].pc = "link"
      BY <3>1, LinkShape
    <3>4. CASE k # x
      BY <3>2, <3>4 DEF LinkMoves
    <3>5. CASE k = x
      BY <3>2, <3>3, <3>5 DEF LinkMoves
    <3>. QED BY <3>4, <3>5
  <2>. QED BY <2>1, <2>2
<1>4. CASE UNCHANGED vars
  BY <1>4, LinksStay DEF vars
<1>. QED BY <1>1, <1>2, <1>3, <1>4 DEF Next

\* The analysis a listing shows is a stored one and scores its present
\* description, unless a stale read was committed over a change of the row.
THEOREM LinkCurrent == Spec => []LinkIsCurrent
<1>1. Init => Shape /\ Scored /\ LinkIsCurrent
  <2>1. Init => Scored
    BY SessionTypes DEF Init, Scored
  <2>2. Init => LinkIsCurrent
    BY DEF Init, LinkIsCurrent, Exists
  <2>. QED BY <2>1, <2>2, InitShape
<1>2. ASSUME Shape, Scored, LinkIsCurrent, [Next]_vars
      PROVE  LinkIsCurrent'
  <2>1. SUFFICES ASSUME NEW k \in Keys, row'[k] # Gone, row'[k].link # NoLink
                 PROVE  /\ analysis'[row'[k].link] # None
                        /\ k \notin crossed' => row'[k].link = row'[k].text
    BY DEF LinkIsCurrent, Exists, Stored
  <2>2. LinkMoves(k)
    BY <1>2, NextLinks
  <2>3. /\ \/ row[k] # Gone /\ row'[k].link = row[k].link
           \/ \E b \in Evaluators : batch[b].pc = "link" /\ row'[k].link = batch[b].seen.text
        /\ k \notin crossed' =>
             \/ k \notin crossed /\ row[k] # Gone /\ row'[k].link = row[k].link
                  /\ row'[k].text = row[k].text
             \/ row'[k].link = row'[k].text
    BY <2>1, <2>2 DEF LinkMoves
  <2>4. Stored(row'[k].link)
    BY <1>2, <2>1, <2>3 DEF LinkIsCurrent, Scored, Exists
  <2>5. row'[k].link \in Descriptions
    <3>1. row'[k] \in Row
      BY <1>2, <2>1, NextShape DEF Shape, TypeOK
    <3>. QED BY <2>1, <3>1 DEF Row
  <2>6. analysis'[row'[k].link] = analysis[row'[k].link]
    BY <1>2, <2>4, <2>5, NextScores DEF AnalysesKept
  <2>. QED BY <1>2, <2>1, <2>3, <2>4, <2>6 DEF LinkIsCurrent, Exists, Stored
<1>3. Shape /\ Scored /\ LinkIsCurrent /\ [Next]_vars
        => Shape' /\ Scored' /\ LinkIsCurrent'
  BY <1>2, NextShape, NextScores
<1>. QED BY <1>1, <1>3, PTL DEF Spec

----------------------------------------------------------------------------
(* What becomes of an analysis that needs tailoring.                        *)

\* Batch x still has to hand the score of d to the job queue, if d needs tailoring.
Owes(x, d) ==
  \/ x.pc \in {"link", "linked", "ensure"} /\ ~x.cached /\ d = x.seen.text
  \/ \E i \in DOMAIN x.done :
       /\ x.done[i].text = d
       /\ IF x.pc # "queue" THEN ~x.done[i].cached
          ELSE IF x.done[i].cached THEN x.kind # "scrape" ELSE d \in x.allowed

LEMMA OwedIsInFlight ==
  ASSUME NEW b \in Evaluators, NEW d, Owes(batch[b], d), NeedsTailoring(d), d \notin jobs
  PROVE  d \in InFlight(b)
BY DEF Owes, InFlight, HandsOver, NeedsTailoring

\* TailoringAccounted, in terms of what the batches owe.
Accounted ==
  \A d \in Descriptions :
    Stored(d) /\ NeedsTailoring(d) =>
      \/ d \in jobs \cup blocked \cup broken
      \/ \E b \in Evaluators : Owes(batch[b], d)

LEMMA AccountedSuffices ==
  ASSUME Accounted
  PROVE  TailoringAccounted
<1>1. SUFFICES ASSUME NEW d \in Descriptions, Stored(d), NeedsTailoring(d),
                      d \notin jobs \cup blocked \cup broken
               PROVE  \E b \in Evaluators : d \in InFlight(b)
  BY DEF TailoringAccounted
<1>2. PICK b \in Evaluators : Owes(batch[b], d)
  BY <1>1 DEF Accounted
<1>. QED BY <1>1, <1>2, OwedIsInFlight

\* What a step of batch b does about tailoring: a new score is owed by b, and what
\* b owed it still owes, or has a job, is blocked or is given up.
Settles(b) ==
  /\ jobs \subseteq jobs' /\ blocked \subseteq blocked' /\ broken \subseteq broken'
  /\ \A c \in Evaluators : c # b => batch'[c] = batch[c]
  /\ \A d \in Descriptions :
       /\ analysis'[d] = analysis[d] \/ Owes(batch'[b], d)
       /\ analysis'[d].tailor /\ Owes(batch[b], d) =>
            d \in jobs' \cup blocked' \cup broken' \/ Owes(batch'[b], d)

LEMMA SettlesAccounts ==
  ASSUME Accounted, NEW b \in Evaluators, Settles(b)
  PROVE  Accounted'
<1>1. SUFFICES ASSUME NEW d \in Descriptions, analysis'[d] # None, analysis'[d].tailor
               PROVE  \/ d \in jobs' \cup blocked' \cup broken'
                      \/ \E c \in Evaluators : Owes(batch'[c], d)
  BY DEF Accounted, Stored, NeedsTailoring
<1>2. CASE Owes(batch'[b], d)
  BY <1>2
<1>3. CASE ~Owes(batch'[b], d)
  <2>1. analysis'[d] = analysis[d]
    BY <1>3 DEF Settles
  <2>2. \/ d \in jobs \cup blocked \cup broken
        \/ \E c \in Evaluators : Owes(batch[c], d)
    BY <1>1, <2>1 DEF Accounted, Stored, NeedsTailoring
  <2>3. CASE d \in jobs \cup blocked \cup broken
    BY <2>3 DEF Settles
  <2>4. ASSUME NEW c \in Evaluators, Owes(batch[c], d)
        PROVE  d \in jobs' \cup blocked' \cup broken' \/ Owes(batch'[c], d)
    <3>1. CASE c # b
      <4>1. batch'[c] = batch[c]
        BY <3>1 DEF Settles
      <4>. QED BY <2>4, <4>1
    <3>2. CASE c = b
      BY <1>1, <2>4, <3>2 DEF Settles
    <3>. QED BY <3>1, <3>2
  <2>. QED BY <2>2, <2>3, <2>4
<1>. QED BY <1>2, <1>3

LEMMA AccountsStay ==
  ASSUME Accounted, UNCHANGED <<analysis, jobs, batch, blocked, broken>>
  PROVE  Accounted'
BY DEF Accounted, Stored, NeedsTailoring

\* A step after which b owes what it did.
LEMMA OwesSettles ==
  ASSUME Shape, NEW b \in Evaluators, NEW r \in Batch, Becomes(b, r),
         UNCHANGED <<analysis, jobs, blocked, broken>>,
         \A d : Owes(batch[b], d) => Owes(r, d)
  PROVE  Settles(b)
<1>1. batch'[b] = r /\ \A c \in Evaluators : c # b => batch'[c] = batch[c]
  BY DEF Becomes, Shape, TypeOK
<1>. QED BY <1>1 DEF Settles

LEMMA HoldsOwes ==
  ASSUME NEW x, NEW r, Holds(x, r)
  PROVE  \A d : Owes(x, d) => Owes(r, d)
BY DEF Holds, Owes

LEMMA BreaksSettles ==
  ASSUME Shape, NEW b \in Evaluators, Breaks(b), UNCHANGED <<analysis, jobs, blocked>>
  PROVE  Settles(b)
<1>1. /\ \A c \in Evaluators : c # b => batch'[c] = batch[c]
      /\ broken' = broken \cup InFlight(b)
  BY BreaksShape
<1>2. ASSUME NEW d \in Descriptions, analysis'[d].tailor, Owes(batch[b], d)
      PROVE  d \in jobs' \cup broken'
  BY <1>1, <1>2, OwedIsInFlight DEF NeedsTailoring
<1>. QED BY <1>1, <1>2 DEF Settles

LEMMA CallScoresSettles ==
  ASSUME Shape, NEW b \in Evaluators, NEW tailor \in BOOLEAN, CallScores(b, tailor)
  PROVE  Settles(b)
<1>1. CASE Breaks(b) /\ UNCHANGED analysis
  BY <1>1, CallScoresShape, BreaksSettles
<1>2. CASE ~(Breaks(b) /\ UNCHANGED analysis)
  <2>1. /\ UNCHANGED <<jobs, blocked, broken>>
        /\ analysis' = [analysis EXCEPT ![batch[b].seen.text] =
             [version |-> batch[b].version, tailor |-> tailor]]
    BY <1>2, CallScoresShape
  <2>2. PICK r \in Batch : /\ Becomes(b, r) /\ r.seen = batch[b].seen
                           /\ r.pc \in {"link", "ensure"} /\ ~r.cached
                           /\ r.done = batch[b].done
    BY <1>2, CallScoresShape
  <2>3. batch'[b] = r /\ \A c \in Evaluators : c # b => batch'[c] = batch[c]
    BY <2>2 DEF Becomes, Shape, TypeOK
  <2>4. batch[b].pc = "call"
    BY DEF CallScores
  <2>5. \A d : Owes(batch[b], d) => Owes(r, d)
    BY <2>2, <2>4 DEF Owes
  <2>6. Owes(r, batch[b].seen.text)
    BY <2>2 DEF Owes
  <2>7. \A d \in Descriptions : d # batch[b].seen.text => analysis'[d] = analysis[d]
    BY <2>1 DEF Shape, TypeOK
  <2>. QED BY <2>1, <2>3, <2>5, <2>6, <2>7 DEF Settles
<1>. QED BY <1>1, <1>2

LEMMA ReportSettles ==
  ASSUME Shape, NEW b \in Evaluators, Report(b)
  PROVE  Settles(b)
<1>1. CASE Breaks(b)
  BY <1>1, ReportShape, BreaksSettles
<1>2. CASE ~Breaks(b)
  <2>1. PICK s \in Result, r \in Batch :
          /\ s.text = batch[b].seen.text /\ s.cached = batch[b].cached
          /\ Becomes(b, r) /\ r.pc = "next" /\ r.done = Append(batch[b].done, s)
    BY <1>2, ReportShape
  <2>2. batch[b].pc = "linked" /\ batch[b].done \in Seq(Result)
    BY ReportShape
  <2>3. PICK done \in Seq(Result) : done = batch[b].done
    BY <2>2
  <2>4. /\ r.done \in Seq(Result) /\ DOMAIN r.done = 1..(Len(done) + 1)
        /\ Len(done) \in Nat /\ DOMAIN done = 1..Len(done)
        /\ r.done[Len(done) + 1] = s
        /\ \A i \in 1..Len(done) : r.done[i] = done[i]
    BY <2>1, <2>3, AppendProperties, LenProperties
  <2>5. ASSUME NEW d, Owes(batch[b], d)
        PROVE  Owes(r, d)
    <3>1. CASE ~batch[b].cached /\ d = batch[b].seen.text
      <4>1. Len(done) + 1 \in DOMAIN r.done
        BY <2>4
      <4>. QED BY <2>1, <2>4, <3>1, <4>1 DEF Owes
    <3>2. ASSUME NEW i \in DOMAIN done, done[i].text = d, ~done[i].cached
          PROVE  Owes(r, d)
      <4>1. i \in DOMAIN r.done /\ r.done[i] = done[i]
        BY <2>4
      <4>. QED BY <2>1, <3>2, <4>1 DEF Owes
    <3>. QED BY <2>2, <2>3, <2>5, <3>1, <3>2 DEF Owes
  <2>. QED BY <1>2, <2>1, <2>5, ReportShape, OwesSettles
<1>. QED BY <1>1, <1>2

LEMMA EnsureSettles ==
  ASSUME Shape, NEW b \in Evaluators, Ensure(b)
  PROVE  Settles(b)
<1>1. PICK r \in Batch : Becomes(b, r)
  BY EnsureShape
<1>2. \A c \in Evaluators : c # b => batch'[c] = batch[c]
  BY <1>1 DEF Becomes, Shape, TypeOK
<1>3. batch[b].done = <<>> /\ DOMAIN <<>> = {}
  BY EnsureShape, EmptyPartial
<1>4. \A d : Owes(batch[b], d) => d = batch[b].seen.text
  BY <1>3 DEF Owes
<1>5. /\ UNCHANGED <<analysis, blocked, broken>> /\ jobs \subseteq jobs'
      /\ NeedsTailoring(batch[b].seen.text) => batch[b].seen.text \in jobs'
  BY EnsureShape
<1>. QED BY <1>2, <1>4, <1>5 DEF Settles, NeedsTailoring

LEMMA FinishSettles ==
  ASSUME Shape, NEW b \in Evaluators, Finish(b)
  PROVE  Settles(b)
<1>1. PICK r \in Batch :
        /\ Becomes(b, r) /\ r.pc = "queue" /\ r.done = batch[b].done
        /\ blocked' = blocked \cup ({batch[b].done[i].text : i \in Fresh(batch[b].done)}
                                      \ r.allowed)
  BY FinishShape
<1>2. batch'[b] = r /\ \A c \in Evaluators : c # b => batch'[c] = batch[c]
  BY <1>1 DEF Becomes, Shape, TypeOK
<1>3. UNCHANGED <<analysis, jobs, broken>> /\ batch[b].pc = "next"
  BY FinishShape
<1>4. ASSUME NEW d \in Descriptions, analysis'[d].tailor, Owes(batch[b], d)
      PROVE  d \in blocked' \/ Owes(r, d)
  <2>1. PICK i \in DOMAIN batch[b].done : batch[b].done[i].text = d /\ ~batch[b].done[i].cached
    BY <1>3, <1>4 DEF Owes
  <2>2. i \in Fresh(batch[b].done)
    BY <1>3, <1>4, <2>1 DEF Fresh, NeedsTailoring
  <2>3. CASE d \in r.allowed
    BY <1>1, <2>1, <2>3 DEF Owes
  <2>4. CASE d \notin r.allowed
    BY <1>1, <2>1, <2>2, <2>4
  <2>. QED BY <2>3, <2>4
<1>. QED BY <1>1, <1>2, <1>3, <1>4 DEF Settles

LEMMA QueueNextSettles ==
  ASSUME Shape, NEW b \in Evaluators, QueueNext(b)
  PROVE  Settles(b)
<1>1. /\ UNCHANGED <<analysis, blocked, broken>> /\ jobs \subseteq jobs'
      /\ batch[b].pc = "queue" /\ batch[b].done \in Seq(Result)
  BY QueueNextShape
<1>2. CASE batch[b].done = <<>>
  <2>1. Becomes(b, NoBatch)
    BY <1>2, QueueNextShape
  <2>2. \A c \in Evaluators : c # b => batch'[c] = batch[c]
    BY <2>1 DEF Becomes, Shape, TypeOK
  <2>3. DOMAIN batch[b].done = {}
    BY <1>2, EmptyPartial
  <2>4. \A d : ~Owes(batch[b], d)
    BY <1>1, <2>3 DEF Owes
  <2>. QED BY <1>1, <2>2, <2>4 DEF Settles
<1>3. CASE batch[b].done # <<>>
  <2>1. HandsOver(batch[b], Head(batch[b].done)) => Head(batch[b].done).text \in jobs'
    BY <1>3, QueueNextShape
  <2>2. PICK r \in Batch :
          /\ Becomes(b, r) /\ r.pc = "queue" /\ r.done = Tail(batch[b].done)
          /\ r.kind = batch[b].kind /\ r.allowed = batch[b].allowed
    BY <1>3, QueueNextShape
  <2>3. batch'[b] = r /\ \A c \in Evaluators : c # b => batch'[c] = batch[c]
    BY <2>2 DEF Becomes, Shape, TypeOK
  <2>4. PICK done \in Seq(Result) : done = batch[b].done
    BY <1>1
  <2>5. /\ Len(done) \in Nat /\ Len(done) > 0 /\ DOMAIN done = 1..Len(done)
        /\ DOMAIN r.done = 1..(Len(done) - 1)
        /\ \A j \in 1..(Len(done) - 1) : r.done[j] = done[j + 1]
        /\ Head(done) = done[1]
    BY <1>3, <2>2, <2>4, HeadTailProperties, LenProperties, EmptySeq
  <2>6. ASSUME NEW d \in Descriptions, analysis'[d].tailor, Owes(batch[b], d)
        PROVE  d \in jobs' \/ Owes(r, d)
    <3>1. PICK i \in DOMAIN done :
            /\ done[i].text = d
            /\ IF done[i].cached THEN batch[b].kind # "scrape" ELSE d \in batch[b].allowed
      BY <1>1, <2>4, <2>6 DEF Owes
    <3>2. CASE i = 1
      <4>1. HandsOver(batch[b], done[1])
        BY <1>1, <2>6, <3>1, <3>2 DEF HandsOver, NeedsTailoring
      <4>. QED BY <2>1, <2>4, <2>5, <3>1, <3>2, <4>1
    <3>3. CASE i # 1
      <4>1. PICK j \in 1..(Len(done) - 1) : i = j + 1
        <5>1. i \in 2..Len(done)
          BY <2>5, <3>3
        <5>2. i - 1 \in 1..(Len(done) - 1) /\ i = (i - 1) + 1
          BY <2>5, <5>1
        <5>. QED BY <5>2
      <4>2. j \in DOMAIN r.done /\ r.done[j] = done[i]
        BY <2>5, <4>1
      <4>. QED BY <2>2, <3>1, <4>2 DEF Owes
    <3>. QED BY <3>2, <3>3
  <2>. QED BY <1>1, <2>3, <2>6 DEF Settles
<1>. QED BY <1>2, <1>3

LEMMA BatchSettles ==
  ASSUME Shape, NEW b \in Evaluators, StartStep(b) \/ BatchStep(b) \/ Crash(b)
  PROVE  Settles(b)
<1>1. CASE StartStep(b)
  <2>1. PICK r \in Batch : Becomes(b, r)
    BY <1>1, StartShape
  <2>2. batch[b] = NoBatch /\ DOMAIN <<>> = {}
    BY <1>1, StartShape, EmptyPartial
  <2>3. \A d : ~Owes(batch[b], d)
    BY <2>2, SessionTypes DEF Owes
  <2>. QED BY <1>1, <2>1, <2>3, StartShape, OwesSettles
<1>2. CASE Crash(b) \/ LinkRaises(b)
  BY <1>2, CrashShape, LinkRaisesShape, BreaksSettles
<1>3. CASE TakeListing(b) \/ TakeText(b) \/ CallFails(b) \/ Link(b)
  <2>1. PICK r \in Batch : Becomes(b, r) /\ Holds(batch[b], r)
    BY <1>3, TakeShape, CallFailsShape, LinkShape
  <2>2. UNCHANGED <<analysis, jobs, blocked, broken>>
    BY <1>3, TakeShape, CallFailsShape, LinkShape
  <2>. QED BY <2>1, <2>2, HoldsOwes, OwesSettles
<1>4. ASSUME NEW tailor \in BOOLEAN, CallScores(b, tailor)
      PROVE  Settles(b)
  BY <1>4, CallScoresSettles
<1>. QED BY <1>1, <1>2, <1>3, <1>4, ReportSettles, EnsureSettles, FinishSettles,
         QueueNextSettles DEF BatchStep

LEMMA NextAccounts ==
  ASSUME Shape, Accounted, [Next]_vars
  PROVE  Accounted'
<1>1. ASSUME NEW u \in Scrapers, ScrapeStep(u)
      PROVE  UNCHANGED <<analysis, jobs, batch, blocked, broken>>
  BY <1>1, UpsertStartShape, UpsertReadShape, UpsertCommitShape DEF ScrapeStep
<1>2. ASSUME NEW x \in Deleters, DeleteStep(x)
      PROVE  UNCHANGED <<analysis, jobs, batch, blocked, broken>>
  BY <1>2, DeleteReadShape, DeleteCommitShape DEF DeleteStep
<1>3. CASE UNCHANGED vars
  BY <1>3, AccountsStay DEF vars
<1>. QED BY <1>1, <1>2, <1>3, AccountsStay, BatchSettles, SettlesAccounts DEF Next

\* An analysis that needs tailoring has a job, or its batch still queues it, or the
\* quota refused it, or its batch broke off: no score is lost otherwise.
THEOREM TailoringIsAccounted == Spec => []TailoringAccounted
<1>1. Init => Shape /\ Accounted
  <2>1. Init => Accounted
    BY DEF Init, Accounted, Stored
  <2>. QED BY <2>1, InitShape
<1>2. Shape /\ Accounted /\ [Next]_vars => Shape' /\ Accounted'
  BY NextShape, NextAccounts
<1>3. Accounted => TailoringAccounted
  BY AccountedSuffices
<1>. QED BY <1>1, <1>2, <1>3, PTL DEF Spec

----------------------------------------------------------------------------
(* The quota of a batch that follows a scrape.                              *)

\* max_tailoring_jobs_per_batch does cap what a batch queues, as long as the batch
\* follows a scrape, which hands over nothing it had cached.
CapAfterScrape ==
  MaxTailoring > 0 =>
    \A b \in Evaluators : batch[b].kind = "scrape" => batch[b].queued <= MaxTailoring

\* What is let through is finite, and no more than the quota.
Within(allowed) ==
  IsFiniteSet(allowed) /\ (MaxTailoring > 0 => Cardinality(allowed) <= MaxTailoring)

LEMMA AllowedWithin ==
  ASSUME NEW done \in Seq(Result), NEW allowed,
         allowed = {done[i].text : i \in AllowedOf(done)}
  PROVE  Within(allowed)
<1>1. PICK S : S = AllowedOf(done)
  OBVIOUS
<1>2. S \subseteq DOMAIN done /\ DOMAIN done = 1..Len(done) /\ Len(done) \in Nat
  BY <1>1, AllowedIsFresh, LenProperties
<1>3. IsFiniteSet(S) /\ Cardinality(S) \in Nat
  <2>1. IsFiniteSet(DOMAIN done)
    BY <1>2, FS_Interval
  <2>. QED BY <1>2, <2>1, FS_Subset, FS_CardinalityType
<1>4. MaxTailoring > 0 => Cardinality(S) <= MaxTailoring
  <2>1. PICK first : first = FirstOf(Fresh(done))
    OBVIOUS
  <2>2. PICK estimate : estimate = EstimateTailoringBatch(ProfileChars, TailoringInputs(done, first))
    OBVIOUS
  <2>3. S = IF CheckBatchGuardrails(estimate, MaxTailoring) THEN first ELSE {}
    BY <1>1, <2>1, <2>2 DEF AllowedOf
  <2>4. DOMAIN TailoringInputs(done, first) = first
    BY DEF TailoringInputs
  <2>5. estimate.items = Cardinality(first)
    BY <2>2, <2>4 DEF EstimateTailoringBatch, Estimate
  <2>6. CASE S = first /\ CheckBatchGuardrails(estimate, MaxTailoring)
    BY <2>5, <2>6 DEF CheckBatchGuardrails, WithinItems
  <2>7. CASE S = {}
    BY <2>7, FS_EmptySet, BoundsAssumption
  <2>. QED BY <2>3, <2>6, <2>7
<1>5. IsFiniteSet(allowed) /\ Cardinality(allowed) <= Cardinality(S)
  <2>1. PICK f : f = [i \in S |-> done[i].text]
    OBVIOUS
  <2>2. f \in Surjection(S, allowed)
    <3>1. f \in [S -> allowed] /\ \A t \in allowed : \E i \in S : f[i] = t
      BY <1>1, <2>1
    <3>. QED BY <3>1, Fun_IsSurj
  <2>. QED BY <1>3, <2>2, FS_Surjection
<1>6. Cardinality(allowed) \in Nat
  BY <1>5, FS_CardinalityType
<1>. QED BY <1>3, <1>4, <1>5, <1>6, BoundsAssumption DEF Within

\* The batch x counts what it queued, and after a scrape that is no more than what
\* it was allowed and has a job in J.
Counted(x, J) ==
  /\ Within(x.allowed)
  /\ x.kind = "scrape" => x.queued <= Cardinality(x.allowed \cap J)
  /\ x.kind = "scrape" /\ x.pc # "queue" => x.queued = 0

Quota == \A b \in Evaluators : Counted(batch[b], jobs)

LEMMA NoBatchCounted ==
  ASSUME NEW J
  PROVE  Counted(NoBatch, J)
<1>1. IsFiniteSet({}) /\ Cardinality({}) = 0
  BY FS_EmptySet
<1>. QED BY <1>1, SessionTypes, BoundsAssumption DEF Counted, Within

\* More jobs are counted as well.
LEMMA CountedMore ==
  ASSUME NEW x \in Batch, NEW J, NEW K, J \subseteq K, Counted(x, J)
  PROVE  Counted(x, K)
<1>1. PICK S : S = x.allowed \cap K
  OBVIOUS
<1>2. PICK T \in SUBSET S : T = x.allowed \cap J
  BY <1>1
<1>3. IsFiniteSet(x.allowed) /\ S \in SUBSET x.allowed
  BY <1>1 DEF Counted, Within
<1>4. IsFiniteSet(S) /\ IsFiniteSet(T) /\ Cardinality(T) <= Cardinality(S)
  <2>1. IsFiniteSet(S)
    BY <1>3, FS_Subset
  <2>. QED BY <2>1, FS_Subset
<1>5. Cardinality(S) \in Nat /\ Cardinality(T) \in Nat /\ x.queued \in Nat
  BY <1>4, FS_CardinalityType DEF Batch
<1>. QED BY <1>1, <1>2, <1>4, <1>5 DEF Counted

\* A batch that has not come to its queue, and has not counted anything in this step.
Uncounted(x, r) ==
  \/ r = NoBatch
  \/ /\ r.kind = x.kind /\ r.allowed = x.allowed /\ r.queued = x.queued
     /\ x.pc # "queue" /\ r.pc # "queue"

LEMMA StepUncounted ==
  ASSUME Shape, NEW b \in Evaluators,
         \/ TakeListing(b) \/ TakeText(b) \/ CallFails(b) \/ Link(b) \/ LinkRaises(b)
         \/ Report(b) \/ Crash(b) \/ \E tailor \in BOOLEAN : CallScores(b, tailor)
  PROVE  Uncounted(batch[b], batch'[b]) /\ jobs' = jobs
<1>0. batch \in [Evaluators -> Batch] /\ batch[b] \in Batch
  BY DEF Shape, TypeOK
<1>1. CASE Breaks(b)
  <2>1. jobs' = jobs
    BY DEF TakeListing, TakeText, CallFails, Link, LinkRaises, Report, Crash, CallScores
  <2>. QED BY <1>1, <2>1, BreaksShape DEF Uncounted
<1>2. ASSUME NEW seen, NEW hit \in {"link", "ensure"}, batch[b].pc = "next",
             PassOver(b, seen) \/ LookUp(b, seen, hit)
      PROVE  Uncounted(batch[b], batch'[b])
  <2>1. CASE PassOver(b, seen)
    BY <1>0, <1>2, <2>1 DEF PassOver, Uncounted, Batch
  <2>2. CASE LookUp(b, seen, hit)
    <3>1. PICK found : found = (Stored(seen.text) /\ analysis[seen.text].version = batch[b].version)
      OBVIOUS
    <3>2. PICK pc : pc = IF found THEN hit ELSE "call"
      OBVIOUS
    <3>3. batch' = [batch EXCEPT ![b].seen = seen, ![b].cached = found, ![b].pc = pc]
      BY <2>2, <3>1, <3>2 DEF LookUp
    <3>. QED BY <1>0, <1>2, <3>2, <3>3 DEF Uncounted, Batch
  <2>. QED BY <1>2, <2>1, <2>2
<1>3. CASE TakeListing(b)
  BY <1>2, <1>3 DEF TakeListing
<1>4. CASE TakeText(b)
  BY <1>2, <1>4 DEF TakeText
<1>5. CASE CallFails(b)
  BY <1>0, <1>5 DEF CallFails, Uncounted, Batch
<1>6. CASE Link(b)
  BY <1>0, <1>6 DEF Link, Uncounted, Batch
<1>7. CASE Report(b) /\ ~Breaks(b)
  BY <1>0, <1>7 DEF Report, Uncounted, Batch
<1>8. ASSUME NEW tailor \in BOOLEAN, CallScores(b, tailor), ~Breaks(b)
      PROVE  Uncounted(batch[b], batch'[b]) /\ jobs' = jobs
  <2>1. PICK pc : pc = IF batch[b].kind = "bulk" THEN "ensure" ELSE "link"
    OBVIOUS
  <2>2. batch' = [batch EXCEPT ![b].pc = pc, ![b].loaded = <<>>] /\ jobs' = jobs
        /\ batch[b].pc = "call"
    BY <1>8, <2>1 DEF CallScores
  <2>. QED BY <1>0, <2>1, <2>2 DEF Uncounted, Batch
<1>. QED BY <1>1, <1>3, <1>4, <1>5, <1>6, <1>7, <1>8
      DEF TakeListing, TakeText, CallFails, Link, LinkRaises, Report, Crash

LEMMA UncountedCounted ==
  ASSUME NEW x, NEW r, NEW J, Counted(x, J), Uncounted(x, r)
  PROVE  Counted(r, J)
BY NoBatchCounted DEF Counted, Uncounted

LEMMA FinishCounted ==
  ASSUME Shape, Quota, NEW b \in Evaluators, Finish(b)
  PROVE  Counted(batch'[b], jobs) /\ jobs' = jobs
<1>1. PICK allowed : allowed = {batch[b].done[i].text : i \in AllowedOf(batch[b].done)}
  OBVIOUS
<1>2. /\ batch' = [batch EXCEPT ![b].pc = "queue", ![b].allowed = allowed]
      /\ batch[b].pc = "next" /\ jobs' = jobs
  BY <1>1 DEF Finish
<1>3. batch[b] \in Batch /\ batch[b].done \in Seq(Result) /\ Counted(batch[b], jobs)
  BY BatchTypes DEF Batch, Quota
<1>4. /\ batch'[b].kind = batch[b].kind /\ batch'[b].queued = batch[b].queued
      /\ batch'[b].allowed = allowed /\ batch'[b].pc = "queue"
  BY <1>2, <1>3 DEF Shape, TypeOK, Batch
<1>5. Within(allowed)
  BY <1>1, <1>3, AllowedWithin
<1>6. Cardinality(allowed \cap jobs) \in Nat
  BY <1>5, FS_Subset, FS_CardinalityType DEF Within
<1>7. batch[b].kind = "scrape" => batch[b].queued = 0
  BY <1>2, <1>3 DEF Counted
<1>8. batch[b].kind = "scrape" => batch[b].queued <= Cardinality(allowed \cap jobs)
  BY <1>6, <1>7
<1>9. batch'[b].allowed \cap jobs = allowed \cap jobs
  BY <1>4
<1>. QED BY <1>2, <1>4, <1>5, <1>8, <1>9 DEF Counted

LEMMA QueueNextCounted ==
  ASSUME Shape, Quota, NEW b \in Evaluators, QueueNext(b)
  PROVE  Counted(batch'[b], jobs') /\ jobs \subseteq jobs'
<1>1. batch[b] \in Batch /\ Counted(batch[b], jobs) /\ batch[b].pc = "queue"
  BY BatchTypes DEF Quota, QueueNext
<1>2. CASE batch[b].done = <<>>
  <2>1. batch'[b] = NoBatch /\ jobs' = jobs
    BY <1>2 DEF QueueNext, Shape, TypeOK
  <2>. QED BY <2>1, NoBatchCounted
<1>3. CASE batch[b].done # <<>>
  <2>1. PICK head : head = Head(batch[b].done)
    OBVIOUS
  <2>2. jobs' = IF HandsOver(batch[b], head) THEN jobs \cup {head.text} ELSE jobs
    BY <1>3, <2>1 DEF QueueNext
  <2>3. PICK queued : queued = IF jobs' = jobs THEN batch[b].queued ELSE batch[b].queued + 1
    OBVIOUS
  <2>4. batch' = [batch EXCEPT ![b].done = Tail(@), ![b].queued = queued]
    BY <1>3, <2>3 DEF QueueNext
  <2>5. /\ batch'[b].kind = batch[b].kind /\ batch'[b].allowed = batch[b].allowed
        /\ batch'[b].queued = queued /\ batch'[b].pc = "queue"
    BY <1>1, <2>4 DEF Shape, TypeOK, Batch
  <2>6. PICK S : S = batch[b].allowed \cap jobs
    OBVIOUS
  <2>7. /\ IsFiniteSet(S) /\ Cardinality(S) \in Nat /\ Within(batch[b].allowed)
        /\ batch[b].queued \in Nat
        /\ batch[b].kind = "scrape" => batch[b].queued <= Cardinality(S)
    <3>1. IsFiniteSet(batch[b].allowed) /\ S \in SUBSET batch[b].allowed
      BY <1>1, <2>6 DEF Counted, Within
    <3>. QED BY <1>1, <2>6, <3>1, FS_Subset, FS_CardinalityType DEF Counted, Batch
  <2>8. CASE jobs' = jobs
    BY <1>1, <2>3, <2>5, <2>8 DEF Counted
  <2>9. CASE jobs' # jobs
    <3>1. HandsOver(batch[b], head) /\ head.text \notin jobs /\ jobs' = jobs \cup {head.text}
      BY <2>2, <2>9
    <3>2. CASE batch[b].kind = "scrape"
      <4>1. head.text \in batch[b].allowed
        BY <3>1, <3>2 DEF HandsOver
      <4>2. batch[b].allowed \cap jobs' = S \cup {head.text} /\ head.text \notin S
        BY <2>6, <3>1, <4>1
      <4>3. Cardinality(S \cup {head.text}) = Cardinality(S) + 1
        BY <2>7, <4>2, FS_AddElement
      <4>4. batch'[b].allowed \cap jobs' = S \cup {head.text}
        BY <2>5, <4>2
      <4>5. queued <= Cardinality(S \cup {head.text})
        BY <2>3, <2>7, <2>9, <3>2, <4>3
      <4>6. batch'[b].queued <= Cardinality(batch'[b].allowed \cap jobs')
        BY <2>5, <4>4, <4>5
      <4>7. Within(batch'[b].allowed) /\ batch'[b].pc = "queue"
        BY <2>5, <2>7
      <4>. QED BY <3>1, <4>6, <4>7 DEF Counted
    <3>3. CASE batch[b].kind # "scrape"
      BY <2>5, <2>7, <3>1, <3>3 DEF Counted
    <3>. QED BY <3>2, <3>3
  <2>. QED BY <2>8, <2>9, <2>2
<1>. QED BY <1>2, <1>3

LEMMA BatchCounted ==
  ASSUME Shape, Quota, NEW b \in Evaluators, StartStep(b) \/ BatchStep(b) \/ Crash(b)
  PROVE  jobs \subseteq jobs' /\ Counted(batch'[b], jobs')
<1>1. CASE StartStep(b)
  <2>1. PICK version, kind, todo, loaded : StartBatch(b, kind, version, todo, loaded)
    BY <1>1 DEF StartStep, StartListings, StartBulk
  <2>2. PICK r : r = [NoBatch EXCEPT !.pc = "next", !.kind = kind, !.version = version,
                                     !.todo = todo, !.loaded = loaded]
    OBVIOUS
  <2>3. batch'[b] = r /\ jobs' = jobs
    BY <2>1, <2>2 DEF StartBatch, Shape, TypeOK
  <2>4. r.allowed = {} /\ r.queued = 0 /\ r.pc = "next"
    BY <2>2 DEF NoBatch
  <2>5. IsFiniteSet({}) /\ Cardinality({}) = 0 /\ {} \cap jobs = {}
    BY FS_EmptySet
  <2>6. Counted(r, jobs)
    BY <2>4, <2>5, BoundsAssumption DEF Counted, Within
  <2>. QED BY <2>3, <2>6
<1>2. CASE Ensure(b)
  <2>1. batch[b].kind = "bulk" /\ Counted(batch[b], jobs)
    BY <1>2, BatchTypes DEF Ensure, AtWork, Quota
  <2>2. batch'[b].kind = batch[b].kind /\ batch'[b].allowed = batch[b].allowed
    BY <1>2, BatchTypes DEF Ensure, Shape, TypeOK, Batch
  <2>3. jobs \subseteq jobs'
    BY <1>2, EnsureShape
  <2>. QED BY <2>1, <2>2, <2>3 DEF Counted
<1>3. CASE Finish(b)
  BY <1>3, FinishCounted
<1>4. CASE QueueNext(b)
  BY <1>4, QueueNextCounted
<1>5. CASE ~(StartStep(b) \/ Ensure(b) \/ Finish(b) \/ QueueNext(b))
  <2>1. Uncounted(batch[b], batch'[b]) /\ jobs' = jobs
    BY <1>5, StepUncounted DEF BatchStep
  <2>2. Counted(batch[b], jobs)
    BY DEF Quota
  <2>. QED BY <2>1, <2>2, UncountedCounted
<1>. QED BY <1>1, <1>2, <1>3, <1>4, <1>5

LEMMA NextCounted ==
  ASSUME Shape, Quota, [Next]_vars
  PROVE  Quota'
<1>1. ASSUME NEW b \in Evaluators, StartStep(b) \/ BatchStep(b) \/ Crash(b)
      PROVE  Quota'
  <2>1. jobs \subseteq jobs' /\ Counted(batch'[b], jobs')
    BY <1>1, BatchCounted
  <2>2. ASSUME NEW c \in Evaluators, c # b
        PROVE  Counted(batch'[c], jobs')
    <3>1. batch'[c] = batch[c]
      <4>1. Settles(b)
        BY <1>1, BatchSettles
      <4>. QED BY <2>2, <4>1 DEF Settles
    <3>2. Counted(batch[c], jobs) /\ batch[c] \in Batch
      BY BatchTypes DEF Quota
    <3>. QED BY <2>1, <3>1, <3>2, CountedMore
  <2>. QED BY <2>1, <2>2 DEF Quota
<1>2. ASSUME UNCHANGED <<batch, jobs>>
      PROVE  Quota'
  BY <1>2 DEF Quota
<1>3. ASSUME NEW u \in Scrapers, ScrapeStep(u)
      PROVE  UNCHANGED <<batch, jobs>>
  BY <1>3, UpsertStartShape, UpsertReadShape, UpsertCommitShape DEF ScrapeStep
<1>4. ASSUME NEW x \in Deleters, DeleteStep(x)
      PROVE  UNCHANGED <<batch, jobs>>
  BY <1>4, DeleteReadShape, DeleteCommitShape DEF DeleteStep
<1>. QED BY <1>1, <1>2, <1>3, <1>4 DEF Next, vars

\* However many batches run at once, a batch that follows a scrape queues no more
\* tailoring jobs than max_tailoring_jobs_per_batch.
THEOREM ScrapeIsCapped == Spec => []CapAfterScrape
<1>1. Init => Shape /\ Quota
  <2>1. Init => Quota
    BY NoBatchCounted DEF Init, Quota
  <2>. QED BY <2>1, InitShape
<1>2. Shape /\ Quota /\ [Next]_vars => Shape' /\ Quota'
  BY NextShape, NextCounted
<1>3. ASSUME Shape, Quota
      PROVE  CapAfterScrape
  <2>1. SUFFICES ASSUME MaxTailoring > 0, NEW b \in Evaluators, batch[b].kind = "scrape"
                 PROVE  batch[b].queued <= MaxTailoring
    BY DEF CapAfterScrape
  <2>2. /\ IsFiniteSet(batch[b].allowed) /\ Cardinality(batch[b].allowed) <= MaxTailoring
        /\ batch[b].queued <= Cardinality(batch[b].allowed \cap jobs)
    BY <1>3, <2>1 DEF Quota, Counted, Within
  <2>3. PICK S \in SUBSET batch[b].allowed : S = batch[b].allowed \cap jobs
    OBVIOUS
  <2>4. /\ Cardinality(S) <= Cardinality(batch[b].allowed)
        /\ Cardinality(S) \in Nat /\ Cardinality(batch[b].allowed) \in Nat
    BY <2>2, <2>3, FS_Subset, FS_CardinalityType
  <2>5. batch[b].queued \in Nat
    BY <1>3, BatchTypes DEF Batch
  <2>. QED BY <2>2, <2>3, <2>4, <2>5, BoundsAssumption
<1>4. Shape /\ Quota => CapAfterScrape
  BY <1>3
<1>. QED BY <1>1, <1>2, <1>4, PTL DEF Spec
=============================================================================
