---------------------------- MODULE TrackerProofs ----------------------------
(***************************************************************************)
(* Theorems about Tracker for every set of sessions, listings, analyses    *)
(* and statuses and every bound.                                           *)
(***************************************************************************)
EXTENDS Tracker, WellFoundedInduction, TLAPS

----------------------------------------------------------------------------
(* The look-ups.                                                           *)

\* A bounded set of numbers that is not empty has a greatest element.
LEMMA MaxIsGreatest ==
  ASSUME NEW n \in Nat, NEW S \in SUBSET (0..n), S # {}
  PROVE  Max(S) \in S /\ \A y \in S : y <= Max(S)
<1>. DEFINE T == {n - y : y \in S}
<1>1. T \subseteq Nat /\ T # {}
  <2>1. \A y \in S : n - y \in Nat
    OBVIOUS
  <2>. QED BY <2>1
<1>2. PICK t \in T : \A u \in T : ~(<<u, t>> \in OpToRel(<, Nat))
  <2>. HIDE DEF T
  <2>. QED BY <1>1, NatLessThanWellFounded, WFMin
<1>3. \A u \in T : ~(u < t)
  BY <1>1, <1>2 DEF OpToRel
<1>4. PICK x \in S : t = n - x
  OBVIOUS
<1>5. \A y \in S : x >= y
  <2>. TAKE y \in S
  <2>1. ~(n - y < n - x)
    BY <1>3, <1>4
  <2>. QED BY <2>1
<1>. QED BY <1>4, <1>5 DEF Max

\* The application that is found has one of the links; if none is found, no
\* application has.
LEMMA FoundMatches ==
  ASSUME TypeOK, NEW k
  PROVE  /\ FindExisting(k) \in {0} \cup Stored
         /\ FindExisting(k) # 0 =>
              \/ k.listing # None /\ app[FindExisting(k)].listing = k.listing
              \/ k.analysis # None /\ app[FindExisting(k)].analysis = k.analysis
              \/ k.resume # 0 /\ app[FindExisting(k)].resume = k.resume
         /\ FindExisting(k) = 0 =>
              \A i \in Stored : k.listing # None => app[i].listing # k.listing
<1>. DEFINE S == {0} \cup {i \in Stored :
               \/ k.listing # None /\ app[i].listing = k.listing
               \/ k.analysis # None /\ app[i].analysis = k.analysis
               \/ k.resume # 0 /\ app[i].resume = k.resume}
<1>1. S \in SUBSET (0..MaxApps) /\ S # {} /\ MaxApps \in Nat
  BY TrackerAssumption DEF Stored, Apps
<1>2. FindExisting(k) = Max(S)
  BY DEF FindExisting
<1>3. Max(S) \in S /\ \A y \in S : y <= Max(S)
  <2>. HIDE DEF S
  <2>. QED BY <1>1, MaxIsGreatest
<1>4. ASSUME Max(S) = 0, NEW i \in Stored, k.listing # None, app[i].listing = k.listing
      PROVE  FALSE
  <2>1. i \in S
    BY <1>4
  <2>2. i <= 0 /\ i \in 1..MaxApps
    BY <1>3, <1>4, <2>1 DEF Stored, Apps
  <2>. QED BY <2>2, TrackerAssumption
<1>5. 0 \notin Stored
  BY TrackerAssumption DEF Stored, Apps
<1>. QED BY <1>2, <1>3, <1>4, <1>5

\* The latest resume of an analysis is one of that analysis.
LEMMA LatestIsOfAnalysis ==
  ASSUME TypeOK, NEW a
  PROVE  /\ LatestResume(a) \in 0..Len(resumes)
         /\ LatestResume(a) # 0 => resumes[LatestResume(a)] = a
<1>. DEFINE S == {0} \cup {r \in DOMAIN resumes : resumes[r] = a}
<1>1. S \in SUBSET (0..Len(resumes)) /\ S # {} /\ Len(resumes) \in Nat
  BY DEF TypeOK
<1>2. LatestResume(a) = Max(S)
  BY DEF LatestResume
<1>3. Max(S) \in S
  <2>. HIDE DEF S
  <2>. QED BY <1>1, MaxIsGreatest
<1>. QED BY <1>1, <1>2, <1>3

\* What the links of a request are completed to.
Loaded(k, l, a, r) ==
  /\ k \in [listing : Listings \cup {None}, analysis : Analyses \cup {None},
            resume : 0..Len(resumes)]
  /\ k.listing = l
  /\ r # 0 => k.resume = r
  /\ r = 0 /\ k.resume # 0 => resumes[k.resume] = k.analysis
  /\ a # None => k.analysis = a
  /\ a = None => \/ l # None /\ k.analysis = scored[l]
                 \/ r # 0 /\ k.analysis = resumes[r]
                 \/ k.analysis = None

LEMMA LinksLoaded ==
  ASSUME TypeOK, NEW l \in Listings \cup {None}, NEW a \in Analyses \cup {None},
         NEW r \in 0..Len(resumes)
  PROVE  Loaded(LoadLinks(l, a, r), l, a, r)
<1>. DEFINE b == IF a = None /\ l # None THEN scored[l] ELSE a
            c == IF b = None /\ r # 0 THEN resumes[r] ELSE b
<1>1. b \in Analyses \cup {None} /\ c \in Analyses \cup {None}
  BY DEF TypeOK
<1>2. LoadLinks(l, a, r) =
        [listing |-> l, analysis |-> c, resume |-> IF r = 0 THEN LatestResume(c) ELSE r]
  BY DEF LoadLinks
<1>3. /\ LatestResume(c) \in 0..Len(resumes)
      /\ LatestResume(c) # 0 => resumes[LatestResume(c)] = c
  BY LatestIsOfAnalysis
<1>4. a = None => \/ l # None /\ c = scored[l]
                  \/ r # 0 /\ c = resumes[r]
                  \/ c = None
  OBVIOUS
<1>5. a # None => c = a
  OBVIOUS
<1>. HIDE DEF b, c
<1>. QED BY <1>1, <1>2, <1>3, <1>4, <1>5 DEF Loaded

----------------------------------------------------------------------------
(* Type correctness.                                                       *)

LEMMA Records ==
  /\ NoApp \in AppRow /\ Free \in Request
  /\ NoApp.listing = None /\ NoApp.resume = 0 /\ NoApp.analysis = None
  /\ Free.op = "none" /\ Free.last = 0 /\ Free.row = NoApp /\ Free.names = {}
  /\ Free.several = FALSE
BY TrackerAssumption DEF NoApp, Row, AppRow, Free, Request

LEMMA InitTypeOK == Init => TypeOK
<1>. SUFFICES ASSUME Init PROVE TypeOK
  OBVIOUS
<1>1. <<>> \in Seq(Analyses) /\ Len(<<>>) = 0
  OBVIOUS
<1>. QED BY <1>1, Records, TrackerAssumption DEF Init, TypeOK

\* A request that arrives is a request, and its links are those of the tables.
LEMMA ArriveType ==
  ASSUME TypeOK, NEW s \in Sessions, NEW x \in Request, Arrive(s, x),
         x.row.resume <= Len(resumes), x.last <= serial,
         x.op \in {"update", "delete"} => x.id \in 1..serial
  PROVE  TypeOK'
<1>1. session' \in [Sessions -> Request]
  BY DEF Arrive, TypeOK
<1>2. \A t \in Sessions : session'[t] = IF t = s THEN x ELSE session[t]
  BY DEF Arrive, TypeOK
<1>3. /\ gone' = gone /\ scored' = scored /\ resumes' = resumes /\ changes' = changes
      /\ app' = app /\ serial' = serial
  BY DEF Arrive, links
<1>. QED BY <1>1, <1>2, <1>3 DEF TypeOK

\* Only numbers that were given out are in use.
LEMMA StoredNumbers ==
  ASSUME TypeOK, NEW i \in Stored
  PROVE  i \in 1..serial /\ app[i] \in AppRow /\ serial \in Nat
BY TrackerAssumption DEF TypeOK, Stored, Apps

\* The request a POST makes: a new application, or the one that is found.
Creates(x, l, a, r, st) ==
  LET k == LoadLinks(l, a, r) IN
  /\ r \in 0..Len(resumes) /\ FindExisting(k) = 0
  /\ x.op = "create" /\ x.last = serial /\ x.several = Several(l, a, r)
  /\ x.row = Row(k.listing, k.analysis, k.resume, st)

Finds(x, l, a, r, st) ==
  LET k == LoadLinks(l, a, r)
      i == FindExisting(k)
  IN
  /\ r \in 0..Len(resumes) /\ i \in Stored
  /\ x.op = "update" /\ x.id = i /\ x.last = 0 /\ x.seen = app[i]
  /\ x.several = Several(l, a, r)
  /\ x.row = [app[i] EXCEPT !.resume = IF app[i].resume = 0 THEN k.resume
                                        ELSE app[i].resume,
                             !.status = st]

\* The request a PATCH makes.
Patches(x, i, names, l, a, r, st) ==
  LET k == LoadLinks(IF "listing" \in names THEN l ELSE app[i].listing,
                     IF "analysis" \in names THEN a ELSE app[i].analysis,
                     IF "resume" \in names THEN r ELSE app[i].resume)
  IN
  /\ i \in Stored /\ ("resume" \in names => r \in 0..Len(resumes))
  /\ x.op = "update" /\ x.id = i /\ x.last = 0 /\ x.names = names /\ x.seen = app[i]
  /\ x.row = Row(k.listing, k.analysis, k.resume, IF st = None THEN app[i].status ELSE st)

LEMMA SeveralType == \A l, a, r : Several(l, a, r) \in BOOLEAN
BY DEF Several

\* A request is a POST, a PATCH or a DELETE, with links of the tables.
LEMMA RequestKinds ==
  ASSUME TypeOK, NEW s \in Sessions, NewRequest(s)
  PROVE  \/ \E l \in Listings \cup {None}, a \in Analyses \cup {None},
               r \in 0..MaxChanges, st \in Status : CreateRead(s, l, a, r, st)
         \/ \E i \in Apps, names \in SUBSET {"listing", "analysis", "resume"},
               l \in Listings \cup {None}, a \in Analyses \cup {None},
               r \in 0..MaxChanges, st \in Status \cup {None} :
               UpdateRead(s, i, names, l, a, r, st)
         \/ \E i \in Apps : DeleteRead(s, i)
<1>1. Stored \subseteq Apps
  BY DEF Stored
<1>2. 0..Len(resumes) \subseteq 0..MaxChanges /\ 0 \in 0..MaxChanges
  BY TrackerAssumption DEF TypeOK
<1>. DEFINE L(body) == IF "listing" \in body THEN Listings \cup {None} ELSE {None}
            A(body) == IF "analysis" \in body THEN Analyses \cup {None} ELSE {None}
            R(body) == IF "resume" \in body THEN 0..Len(resumes) ELSE {0}
            S(body) == IF "status" \in body THEN Status ELSE {None}
            Body(body) ==
              \E l \in L(body), a \in A(body), r \in R(body) :
                \/ \E st \in Status : CreateRead(s, l, a, r, st)
                \/ \E i \in Stored, st \in S(body) :
                     UpdateRead(s, i, body \ {"status"}, l, a, r, st)
<1>3. (\E body \in Bodies : Body(body)) \/ (\E i \in Stored : DeleteRead(s, i))
  BY DEF NewRequest
<1>4. ASSUME NEW body \in Bodies
      PROVE  /\ L(body) \subseteq Listings \cup {None} /\ A(body) \subseteq Analyses \cup {None}
             /\ R(body) \subseteq 0..MaxChanges /\ S(body) \subseteq Status \cup {None}
             /\ body \ {"status"} \in SUBSET {"listing", "analysis", "resume"}
  BY <1>2, TrackerAssumption
<1>5. ASSUME NEW body \in Bodies, Body(body)
      PROVE  \E l \in Listings \cup {None}, a \in Analyses \cup {None}, r \in 0..MaxChanges :
               \/ \E st \in Status : CreateRead(s, l, a, r, st)
               \/ \E i \in Apps, st \in Status \cup {None} :
                    UpdateRead(s, i, body \ {"status"}, l, a, r, st)
  <2>. HIDE DEF L, A, R, S
  <2>1. PICK l \in L(body), a \in A(body), r \in R(body) :
               \/ \E st \in Status : CreateRead(s, l, a, r, st)
               \/ \E i \in Stored, st \in S(body) :
                    UpdateRead(s, i, body \ {"status"}, l, a, r, st)
    BY <1>5
  <2>. QED BY <1>1, <1>4, <2>1
<1>. HIDE DEF Body, L, A, R, S
<1>6. ASSUME NEW body \in Bodies, Body(body)
      PROVE  \/ \E l \in Listings \cup {None}, a \in Analyses \cup {None},
                  r \in 0..MaxChanges, st \in Status : CreateRead(s, l, a, r, st)
             \/ \E i \in Apps, names \in SUBSET {"listing", "analysis", "resume"},
                  l \in Listings \cup {None}, a \in Analyses \cup {None},
                  r \in 0..MaxChanges, st \in Status \cup {None} :
                  UpdateRead(s, i, names, l, a, r, st)
  BY <1>4, <1>5, <1>6
<1>. QED BY <1>1, <1>3, <1>6

\* What POST asks for.
LEMMA CreateRequest ==
  ASSUME TypeOK, NEW s \in Sessions, NEW l \in Listings \cup {None},
         NEW a \in Analyses \cup {None}, NEW r \in 0..MaxChanges, NEW st \in Status,
         CreateRead(s, l, a, r, st)
  PROVE  \E x \in Request :
           Arrive(s, x) /\ (Creates(x, l, a, r, st) \/ Finds(x, l, a, r, st))
<1>. DEFINE k == LoadLinks(l, a, r)
            i == FindExisting(k)
<1>1. r \in 0..Len(resumes)
  BY DEF CreateRead, Found
<1>2. k \in [listing : Listings \cup {None}, analysis : Analyses \cup {None},
             resume : 0..Len(resumes)]
  BY <1>1, LinksLoaded DEF Loaded
<1>3. Len(resumes) \in Nat /\ Len(resumes) <= MaxChanges
  BY TrackerAssumption DEF TypeOK
<1>4. k.resume \in 0..MaxChanges
  BY <1>2, <1>3, TrackerAssumption
<1>5. CASE i = 0
  <2>. DEFINE x == [Free EXCEPT !.op = "create", !.last = serial,
                      !.several = Several(l, a, r),
                      !.row = Row(k.listing, k.analysis, k.resume, st)]
  <2>1. Arrive(s, x)
    BY <1>5 DEF CreateRead
  <2>2. Row(k.listing, k.analysis, k.resume, st) \in AppRow
    <3>. HIDE DEF k
    <3>. QED BY <1>2, <1>4 DEF Row, AppRow
  <2>3. /\ x \in Request /\ x.op = "create" /\ x.last = serial
        /\ x.several = Several(l, a, r)
        /\ x.row = Row(k.listing, k.analysis, k.resume, st)
    <3>. HIDE DEF k
    <3>. QED BY <2>2, SeveralType, Records DEF Request, TypeOK
  <2>. QED BY <1>1, <1>5, <2>1, <2>3 DEF Creates
<1>6. CASE i # 0
  <2>. DEFINE new == [app[i] EXCEPT
                        !.resume = IF app[i].resume = 0 THEN k.resume ELSE app[i].resume,
                        !.status = st]
              x == [Free EXCEPT !.op = "update", !.id = i, !.seen = app[i],
                                !.several = Several(l, a, r), !.row = new]
  <2>1. Arrive(s, x)
    <3>1. Arrive(s, [Free EXCEPT !.op = "update", !.id = i, !.seen = app[i],
                      !.several = Several(l, a, r),
                      !.row = [app[i] EXCEPT
                        !.resume = IF @ = 0 THEN k.resume ELSE @,
                        !.status = st]])
      BY <1>6 DEF CreateRead
    <3>. QED BY <3>1
  <2>2. i \in Stored
    <3>. HIDE DEF k
    <3>. QED BY <1>6, FoundMatches
  <2>3. app[i] \in AppRow /\ i \in 0..MaxApps
    BY <2>2, TrackerAssumption DEF TypeOK, Stored, Apps
  <2>4. new \in AppRow
    <3>. HIDE DEF k, i
    <3>. QED BY <1>4, <2>3 DEF AppRow
  <2>5. /\ x \in Request /\ x.op = "update" /\ x.id = i /\ x.last = 0
        /\ x.several = Several(l, a, r) /\ x.seen = app[i] /\ x.row = new
    <3>. HIDE DEF new, i
    <3>. QED BY <2>3, <2>4, SeveralType, Records DEF Request
  <2>. QED BY <1>1, <1>6, <2>1, <2>2, <2>5 DEF Finds
<1>. QED BY <1>5, <1>6

\* What PATCH asks for: the links it names, completed from those it has read.
LEMMA UpdateRequest ==
  ASSUME TypeOK, NEW s \in Sessions, NEW i \in Apps,
         NEW names \in SUBSET {"listing", "analysis", "resume"},
         NEW l \in Listings \cup {None}, NEW a \in Analyses \cup {None},
         NEW r \in 0..MaxChanges, NEW st \in Status \cup {None},
         UpdateRead(s, i, names, l, a, r, st)
  PROVE  \E x \in Request : Arrive(s, x) /\ Patches(x, i, names, l, a, r, st)
<1>. DEFINE k == LoadLinks(IF "listing" \in names THEN l ELSE app[i].listing,
                           IF "analysis" \in names THEN a ELSE app[i].analysis,
                           IF "resume" \in names THEN r ELSE app[i].resume)
            new == Row(k.listing, k.analysis, k.resume,
                       IF st = None THEN app[i].status ELSE st)
            x == [Free EXCEPT !.op = "update", !.id = i, !.seen = app[i],
                              !.names = names, !.row = new]
<1>1. /\ i \in Stored /\ app[i] \in AppRow /\ i \in 0..MaxApps
      /\ app[i].resume <= Len(resumes)
  BY TrackerAssumption DEF UpdateRead, TypeOK, Stored, Apps
<1>2. Len(resumes) \in Nat /\ Len(resumes) <= MaxChanges
  BY TrackerAssumption DEF TypeOK
<1>3. "resume" \in names => r \in 0..Len(resumes)
  BY <1>2 DEF UpdateRead
<1>4. /\ (IF "listing" \in names THEN l ELSE app[i].listing) \in Listings \cup {None}
      /\ (IF "analysis" \in names THEN a ELSE app[i].analysis) \in Analyses \cup {None}
      /\ (IF "resume" \in names THEN r ELSE app[i].resume) \in 0..Len(resumes)
  BY <1>1, <1>2, <1>3 DEF AppRow
<1>5. k \in [listing : Listings \cup {None}, analysis : Analyses \cup {None},
             resume : 0..Len(resumes)]
  BY <1>4, LinksLoaded DEF Loaded
<1>6. k.resume \in 0..MaxChanges
  BY <1>2, <1>5, TrackerAssumption
<1>7. Patch(i, names, l, a, r) = Row(k.listing, k.analysis, k.resume, app[i].status)
  BY DEF Patch
<1>8. new \in AppRow
      /\ [Patch(i, names, l, a, r) EXCEPT !.status = IF st = None THEN @ ELSE st] = new
  <2>. HIDE DEF k
  <2>1. k.listing \in Listings \cup {None} /\ k.analysis \in Analyses \cup {None}
    BY <1>5
  <2>2. (IF st = None THEN app[i].status ELSE st) \in Status \cup {None}
    BY <1>1 DEF AppRow
  <2>. QED BY <1>6, <1>7, <2>1, <2>2 DEF Row, AppRow
<1>9. Arrive(s, x)
  BY <1>8 DEF UpdateRead
<1>10. /\ x \in Request /\ x.op = "update" /\ x.id = i /\ x.last = 0 /\ x.names = names
       /\ x.seen = app[i] /\ x.row = new
  <2>. HIDE DEF new
  <2>. QED BY <1>1, <1>8, Records DEF Request
<1>. QED BY <1>1, <1>3, <1>9, <1>10 DEF Patches

\* The rows of both kinds of request name resumes that exist.
LEMMA RequestResumes ==
  ASSUME TypeOK
  PROVE  /\ \A l \in Listings \cup {None}, a \in Analyses \cup {None}, r \in 0..Len(resumes) :
              LoadLinks(l, a, r).resume \in 0..Len(resumes)
         /\ \A i \in Apps : app[i].resume <= Len(resumes) /\ app[i].resume \in Nat
<1>1. ASSUME NEW l \in Listings \cup {None}, NEW a \in Analyses \cup {None},
             NEW r \in 0..Len(resumes)
      PROVE  LoadLinks(l, a, r).resume \in 0..Len(resumes)
  <2>. DEFINE k == LoadLinks(l, a, r)
  <2>1. k \in [listing : Listings \cup {None}, analysis : Analyses \cup {None},
               resume : 0..Len(resumes)]
    BY LinksLoaded DEF Loaded
  <2>. HIDE DEF k
  <2>2. k.resume \in 0..Len(resumes)
    BY <2>1
  <2>. QED BY <2>2 DEF k
<1>2. \A i \in Apps : app[i].resume <= Len(resumes) /\ app[i].resume \in Nat
  BY DEF TypeOK, AppRow
<1>. QED BY <1>1, <1>2

\* Every request of a client arrives with a record.
LEMMA NewRequestType ==
  ASSUME TypeOK, NEW s \in Sessions, NewRequest(s)
  PROVE  TypeOK'
<1>1. ASSUME NEW l \in Listings \cup {None}, NEW a \in Analyses \cup {None},
             NEW r \in 0..MaxChanges, NEW st \in Status, CreateRead(s, l, a, r, st)
      PROVE  TypeOK'
  <2>. DEFINE k == LoadLinks(l, a, r)
              i == FindExisting(k)
  <2>1. PICK x \in Request :
          Arrive(s, x) /\ (Creates(x, l, a, r, st) \/ Finds(x, l, a, r, st))
    BY <1>1, CreateRequest
  <2>2. k.resume \in 0..Len(resumes)
    BY <2>1, RequestResumes DEF Creates, Finds
  <2>3. CASE Creates(x, l, a, r, st)
    <3>1. x.row.resume = k.resume /\ x.op = "create" /\ x.last = serial
      BY <2>3 DEF Creates, Row
    <3>2. x.last <= serial
      BY <3>1, TrackerAssumption DEF TypeOK
    <3>. QED BY <2>1, <2>2, <3>1, <3>2, ArriveType
  <2>4. CASE Finds(x, l, a, r, st)
    <3>1. /\ i \in Stored /\ x.op = "update" /\ x.id = i /\ x.last = 0
          /\ x.row = [app[i] EXCEPT !.resume = IF app[i].resume = 0 THEN k.resume
                                                ELSE app[i].resume,
                                     !.status = st]
      BY <2>4 DEF Finds
    <3>. HIDE DEF i, k
    <3>2. i \in 1..serial /\ app[i] \in AppRow /\ serial \in Nat /\ i \in Apps
      BY <3>1, StoredNumbers DEF Stored
    <3>3. x.row.resume = IF app[i].resume = 0 THEN k.resume ELSE app[i].resume
      BY <3>1, <3>2 DEF AppRow
    <3>4. x.row.resume <= Len(resumes)
      BY <2>2, <3>2, <3>3, RequestResumes
    <3>5. x.last <= serial /\ x.id \in 1..serial
      BY <3>1, <3>2
    <3>. QED BY <2>1, <3>4, <3>5, ArriveType
  <2>. QED BY <2>1, <2>3, <2>4
<1>2. ASSUME NEW i \in Apps, NEW names \in SUBSET {"listing", "analysis", "resume"},
             NEW l \in Listings \cup {None}, NEW a \in Analyses \cup {None},
             NEW r \in 0..MaxChanges, NEW st \in Status \cup {None},
             UpdateRead(s, i, names, l, a, r, st)
      PROVE  TypeOK'
  <2>. DEFINE k == LoadLinks(IF "listing" \in names THEN l ELSE app[i].listing,
                             IF "analysis" \in names THEN a ELSE app[i].analysis,
                             IF "resume" \in names THEN r ELSE app[i].resume)
  <2>1. PICK x \in Request : Arrive(s, x) /\ Patches(x, i, names, l, a, r, st)
    BY <1>2, UpdateRequest
  <2>2. i \in Stored /\ i \in 1..serial /\ app[i] \in AppRow /\ serial \in Nat
    BY <2>1, StoredNumbers DEF Patches
  <2>3. k.resume \in 0..Len(resumes)
    <3>1. app[i].resume \in 0..Len(resumes)
      BY <2>2, RequestResumes DEF AppRow, TypeOK
    <3>2. "resume" \in names => r \in 0..Len(resumes)
      BY <2>1 DEF Patches
    <3>. QED BY <2>2, <3>1, <3>2, RequestResumes DEF AppRow
  <2>4. x.row.resume = k.resume /\ x.op = "update" /\ x.id = i /\ x.last = 0
    BY <2>1 DEF Patches, Row
  <2>. HIDE DEF k
  <2>. QED BY <2>1, <2>2, <2>3, <2>4, ArriveType
<1>3. ASSUME NEW i \in Apps, DeleteRead(s, i)
      PROVE  TypeOK'
  <2>. DEFINE x == [Free EXCEPT !.op = "delete", !.id = i]
  <2>1. i \in 1..serial /\ serial \in Nat /\ Arrive(s, x) /\ i \in 0..MaxApps
    BY <1>3, StoredNumbers, TrackerAssumption DEF DeleteRead, Stored, Apps
  <2>2. x \in Request /\ x.row.resume = 0 /\ x.last = 0 /\ x.id = i
    BY <2>1, Records DEF Request
  <2>3. x.row.resume <= Len(resumes) /\ x.last <= serial
    BY <2>1, <2>2 DEF TypeOK
  <2>. HIDE DEF x
  <2>. QED BY <2>1, <2>2, <2>3, ArriveType
<1>. QED BY <1>1, <1>2, <1>3, RequestKinds

\* A commit leaves a row, and in it what the request has not changed.
LEMMA WrittenColumns ==
  ASSUME NEW cur \in AppRow, NEW x \in Request
  PROVE  /\ Written(cur, x) \in AppRow
         /\ \A f \in {"listing", "analysis", "resume", "status"} :
              Written(cur, x)[f] = IF x.row[f] = x.seen[f] THEN cur[f] ELSE x.row[f]
<1>. DEFINE F == {"listing", "analysis", "resume", "status"}
            w == [f \in F |-> IF x.row[f] = x.seen[f] THEN cur[f] ELSE x.row[f]]
<1>1. DOMAIN cur = F
  BY DEF AppRow
<1>2. Written(cur, x) = w
  BY <1>1 DEF Written
<1>3. x.row \in AppRow /\ x.seen \in AppRow
  BY DEF Request
<1>4. w \in AppRow
  BY <1>3 DEF AppRow
<1>. QED BY <1>2, <1>4

\* The session that ends is free, the others go on.
LEMMA EndedSession ==
  ASSUME TypeOK, NEW s \in Sessions, End(s)
  PROVE  /\ session' \in [Sessions -> Request]
         /\ \A t \in Sessions : session'[t] = IF t = s THEN Free ELSE session[t]
         /\ gone' = gone /\ scored' = scored /\ resumes' = resumes /\ changes' = changes
         /\ rescored' = rescored /\ requests' = requests
BY Records DEF End, TypeOK, links

\* A commit of one row keeps the types when the row keeps its own.
LEMMA CommitType ==
  ASSUME TypeOK, NEW s \in Sessions, End(s), serial' \in 0..MaxApps, serial <= serial',
         NEW i \in Apps, i <= serial', NEW row \in AppRow,
         app' = [app EXCEPT ![i] = row],
         row.resume <= Len(resumes), row.listing \notin gone
  PROVE  TypeOK'
<1>1. app' \in [Apps -> AppRow]
  BY DEF TypeOK
<1>2. \A j \in Apps : app'[j] = IF j = i THEN row ELSE app[j]
  BY DEF TypeOK
<1>3. serial \in Nat /\ serial' \in Nat /\ i \in Nat
  BY TrackerAssumption DEF TypeOK, Apps
<1>4. \A j \in Apps : /\ app'[j].resume <= Len(resumes) /\ app'[j].listing \notin gone
                      /\ j > serial' => app'[j] = NoApp
  BY <1>2, <1>3 DEF TypeOK, Apps
<1>5. \A t \in Sessions : /\ session'[t].row.resume <= Len(resumes)
                          /\ session'[t].last <= serial'
                          /\ session'[t].op \in {"update", "delete"} =>
                               session'[t].id \in 1..serial'
  <2>. TAKE t \in Sessions
  <2>1. CASE t = s
    BY <2>1, <1>3, EndedSession, Records DEF TypeOK
  <2>2. CASE t # s
    <3>1. session'[t] = session[t] /\ session[t].last \in Nat /\ session[t].id \in Nat
      BY <2>2, EndedSession DEF TypeOK, Request
    <3>. QED BY <3>1, <1>3 DEF TypeOK
  <2>. QED BY <2>1, <2>2
<1>. QED BY <1>1, <1>4, <1>5, EndedSession DEF TypeOK

LEMMA NextTypeOK == TypeOK /\ [Next]_vars => TypeOK'
<1>. SUFFICES ASSUME TypeOK, [Next]_vars PROVE TypeOK'
  OBVIOUS
<1>. USE TrackerAssumption
<1>1. ASSUME NEW l \in Listings, NEW a \in Analyses, ScoreListing(l, a)
      PROVE  TypeOK'
  BY <1>1 DEF ScoreListing, Change, TypeOK
<1>2. ASSUME NEW a \in Analyses, StoreResume(a)
      PROVE  TypeOK'
  <2>1. /\ resumes' = Append(resumes, a) /\ changes' = changes + 1 /\ changes < MaxChanges
        /\ gone' = gone /\ scored' = scored /\ app' = app /\ serial' = serial
        /\ session' = session
    BY <1>2 DEF StoreResume, Change
  <2>2. resumes' \in Seq(Analyses) /\ Len(resumes') = Len(resumes) + 1 /\ Len(resumes) \in Nat
    BY <2>1 DEF TypeOK
  <2>3. \A i \in Apps : app[i].resume <= Len(resumes')
    BY <2>2 DEF TypeOK, AppRow
  <2>4. \A s \in Sessions : session[s].row.resume <= Len(resumes')
    BY <2>2 DEF TypeOK, AppRow, Request
  <2>5. changes' \in 0..MaxChanges /\ Len(resumes') <= changes'
    BY <2>1, <2>2 DEF TypeOK
  <2>. QED BY <2>1, <2>2, <2>3, <2>4, <2>5 DEF TypeOK
<1>3. ASSUME NEW l \in Listings, DeleteListing(l)
      PROVE  TypeOK'
  <2>1. /\ app' = [i \in Apps |-> IF app[i].listing = l
                                  THEN [app[i] EXCEPT !.listing = None] ELSE app[i]]
        /\ gone' = gone \cup {l} /\ changes' \in 0..MaxChanges /\ changes <= changes'
        /\ scored' = scored /\ resumes' = resumes /\ serial' = serial /\ session' = session
    BY <1>3 DEF DeleteListing, Change, TypeOK
  <2>2. ASSUME NEW i \in Apps
        PROVE  /\ app'[i] \in AppRow /\ app'[i].resume = app[i].resume
               /\ app'[i].listing \in {None} \cup {app[i].listing} /\ app'[i].listing # l
    <3>1. app[i] \in AppRow /\ None # l
      BY DEF TypeOK
    <3>2. app'[i] = IF app[i].listing = l THEN [app[i] EXCEPT !.listing = None] ELSE app[i]
      BY <2>1
    <3>. QED BY <3>1, <3>2 DEF AppRow
  <2>3. \A i \in Apps : i > serial => app'[i] = NoApp
    BY <2>1, Records DEF TypeOK
  <2>4. app' \in [Apps -> AppRow]
    BY <2>1, <2>2
  <2>5. None \notin gone
    BY DEF TypeOK
  <2>6. Len(resumes) <= changes'
    BY <2>1 DEF TypeOK
  <2>. QED BY <2>1, <2>2, <2>3, <2>4, <2>5, <2>6 DEF TypeOK
<1>4. ASSUME NEW s \in Sessions, CreateCommit(s)
      PROVE  TypeOK'
  <2>. DEFINE x == session[s]
              i == serial + 1
  <2>1. x \in Request /\ x.row \in AppRow /\ x.row.resume <= Len(resumes)
    BY DEF TypeOK, Request
  <2>2. End(s) /\ serial < MaxApps /\ serial \in 0..MaxApps
    BY <1>4 DEF CreateCommit, TypeOK
  <2>3. CASE x.row.listing \in gone
    <3>1. app' = app /\ serial' = serial
      BY <1>4, <2>3 DEF CreateCommit
    <3>. QED BY <2>2, <3>1, EndedSession, Records DEF TypeOK
  <2>4. CASE x.row.listing \notin gone
    <3>1. serial' = i /\ app' = [app EXCEPT ![i] = x.row] /\ i \in Apps /\ i \in 0..MaxApps
      BY <1>4, <2>2, <2>4 DEF CreateCommit, Apps
    <3>2. serial <= serial' /\ i <= serial' /\ serial' \in 0..MaxApps
      BY <2>2, <3>1
    <3>. HIDE DEF i, x
    <3>. QED BY <2>1, <2>2, <2>4, <3>1, <3>2, CommitType
  <2>. QED BY <2>3, <2>4
<1>5. ASSUME NEW s \in Sessions, UpdateCommit(s)
      PROVE  TypeOK'
  <2>. DEFINE x == session[s]
              i == x.id
  <2>1. /\ x \in Request /\ x.row \in AppRow /\ x.seen \in AppRow
        /\ x.row.resume <= Len(resumes)
        /\ i \in 1..serial /\ End(s) /\ serial' = serial /\ serial \in 0..MaxApps
    BY <1>5 DEF UpdateCommit, TypeOK, Request
  <2>2. i \in Apps /\ app[i] \in AppRow
    BY <2>1 DEF Apps, TypeOK
  <2>3. CASE app' = app
    BY <2>1, <2>3, EndedSession, Records DEF TypeOK
  <2>4. CASE app' # app
    <3>1. /\ app' = [app EXCEPT ![i] = Written(app[i], x)]
          /\ x.row.listing = x.seen.listing \/ x.row.listing \notin gone
      BY <1>5, <2>4 DEF UpdateCommit
    <3>2. Written(app[i], x) \in AppRow
      BY <2>1, <2>2, WrittenColumns
    <3>3. /\ Written(app[i], x).resume <= Len(resumes)
          /\ Written(app[i], x).listing \notin gone
      <4>1. app[i].resume <= Len(resumes) /\ app[i].listing \notin gone
        BY <2>2 DEF TypeOK
      <4>. QED BY <2>1, <2>2, <3>1, <4>1, WrittenColumns
    <3>4. serial' \in 0..MaxApps /\ serial <= serial' /\ i <= serial'
      BY <2>1
    <3>. HIDE DEF i, x
    <3>. QED BY <2>1, <2>2, <3>1, <3>2, <3>3, <3>4, CommitType
  <2>. QED BY <2>3, <2>4
<1>6. ASSUME NEW s \in Sessions, DeleteCommit(s)
      PROVE  TypeOK'
  <2>. DEFINE i == session[s].id
  <2>1. /\ i \in 1..serial /\ End(s) /\ serial' = serial /\ serial \in 0..MaxApps
        /\ app' = [app EXCEPT ![i] = NoApp]
    BY <1>6 DEF DeleteCommit, TypeOK
  <2>2. NoApp \in AppRow /\ NoApp.resume <= Len(resumes) /\ NoApp.listing \notin gone
    BY Records DEF TypeOK
  <2>3. i \in Apps /\ serial' \in 0..MaxApps /\ serial <= serial' /\ i <= serial'
    BY <2>1 DEF Apps
  <2>. HIDE DEF i
  <2>. QED BY <2>1, <2>2, <2>3, CommitType
<1>7. CASE UNCHANGED vars
  BY <1>7 DEF vars, links, TypeOK
<1>. QED
  BY <1>1, <1>2, <1>3, <1>4, <1>5, <1>6, <1>7, NewRequestType DEF Next

\* Every link is one of the tables, every number one that was given out.
THEOREM TypeCorrect == Spec => []TypeOK
BY InitTypeOK, NextTypeOK, PTL DEF Spec

----------------------------------------------------------------------------
(* What a request may change.                                              *)

\* A request that arrives changes no table.
LEMMA RequestKeepsTables ==
  ASSUME NEW s \in Sessions, NewRequest(s)
  PROVE  app' = app
<1>1. ASSUME NEW x, Arrive(s, x)
      PROVE  app' = app
  BY <1>1 DEF Arrive
<1>2. ASSUME NEW l, NEW a, NEW r, NEW st, CreateRead(s, l, a, r, st)
      PROVE  app' = app
  BY <1>1, <1>2 DEF CreateRead
<1>3. ASSUME NEW i, NEW names, NEW l, NEW a, NEW r, NEW st,
             UpdateRead(s, i, names, l, a, r, st)
      PROVE  app' = app
  BY <1>1, <1>3 DEF UpdateRead
<1>4. ASSUME NEW i, DeleteRead(s, i)
      PROVE  app' = app
  BY <1>1, <1>4 DEF DeleteRead
<1>. QED BY <1>2, <1>3, <1>4 DEF NewRequest

\* A step that keeps an application leaves it alone, takes its listing from it,
\* or commits a request about it.
LEMMA RowChanges ==
  ASSUME TypeOK, [Next]_vars, NEW i \in Stored, app'[i] # NoApp, app'[i] # app[i]
  PROVE  \/ /\ \E l \in Listings : DeleteListing(l) /\ app[i].listing = l
            /\ app'[i] = [app[i] EXCEPT !.listing = None]
         \/ \E s \in Sessions :
              /\ UpdateCommit(s) /\ session[s].id = i /\ session[s].op = "update"
              /\ app'[i] = Written(app[i], session[s])
<1>. USE TrackerAssumption
<1>1. i \in Apps /\ i \in 1..serial
  BY StoredNumbers DEF Stored
<1>2. ASSUME NEW l \in Listings, DeleteListing(l)
      PROVE  app[i].listing = l /\ app'[i] = [app[i] EXCEPT !.listing = None]
  BY <1>1, <1>2 DEF DeleteListing
<1>3. ASSUME NEW s \in Sessions, CreateCommit(s)
      PROVE  FALSE
  <2>1. serial + 1 # i /\ (app' = app \/ app' = [app EXCEPT ![serial + 1] = session[s].row])
    BY <1>1, <1>3 DEF CreateCommit, TypeOK
  <2>. QED BY <1>1, <2>1 DEF TypeOK
<1>4. ASSUME NEW s \in Sessions, UpdateCommit(s)
      PROVE  session[s].id = i /\ session[s].op = "update"
             /\ app'[i] = Written(app[i], session[s])
  BY <1>1, <1>4 DEF UpdateCommit, TypeOK
<1>5. ASSUME NEW s \in Sessions, DeleteCommit(s)
      PROVE  FALSE
  BY <1>1, <1>5 DEF DeleteCommit, TypeOK
<1>6. ASSUME NEW s \in Sessions, NewRequest(s)
      PROVE  FALSE
  <2>1. app' = app
    BY <1>6, RequestKeepsTables
  <2>. QED BY <2>1
<1>7. CASE UNCHANGED vars
  BY <1>7 DEF vars
<1>. QED
  BY <1>2, <1>3, <1>4, <1>5, <1>6, <1>7 DEF Next, ScoreListing, StoreResume

LEMMA StepKeepsStatus ==
  ASSUME TypeOK, [Next]_vars, NEW i \in Stored, app'[i] \notin {NoApp},
         app'[i].status # app[i].status
  PROVE  \E s \in Sessions : session'[s] = Free /\ session[s].id = i
                             /\ session[s].row.status # session[s].seen.status
<1>1. app[i] \in AppRow
  BY StoredNumbers
<1>2. [app[i] EXCEPT !.listing = None].status = app[i].status
  BY <1>1 DEF AppRow
<1>3. PICK s \in Sessions : /\ UpdateCommit(s) /\ session[s].id = i
                            /\ app'[i] = Written(app[i], session[s])
  BY <1>2, RowChanges
<1>4. session[s] \in Request
  BY DEF TypeOK
<1>5. session[s].row.status # session[s].seen.status
  BY <1>1, <1>3, <1>4, WrittenColumns
<1>6. session'[s] = Free
  BY <1>3, EndedSession DEF UpdateCommit
<1>. QED BY <1>3, <1>5, <1>6

\* However requests overlap, a status changes only to what the request that ends
\* has asked for.
THEOREM StatusIsKept == Spec => StatusKept
<1>1. TypeOK /\ [Next]_vars => [\A i \in Stored : app'[i] \notin {NoApp} /\ app'[i].status # app[i].status =>
       \E s \in Sessions : session'[s] = Free /\ session[s].id = i
                           /\ session[s].row.status # session[s].seen.status]_vars
  BY StepKeepsStatus
<1>. QED BY <1>1, TypeCorrect, PTL DEF Spec, StatusKept

\* A request changes the resume it has read only if it names another one or has
\* read none.
ResumeAsked ==
  \A s \in Sessions :
    session[s].op = "update" =>
      \/ "resume" \in session[s].names
      \/ session[s].row.resume = session[s].seen.resume
      \/ session[s].seen.resume = 0

LEMMA ArriveAsked ==
  ASSUME TypeOK, ResumeAsked, NEW s \in Sessions, NewRequest(s)
  PROVE  ResumeAsked'
<1>. USE TrackerAssumption
<1>0. ASSUME NEW x \in Request, Arrive(s, x),
             x.op = "update" => \/ "resume" \in x.names
                                \/ x.row.resume = x.seen.resume
                                \/ x.seen.resume = 0
      PROVE  ResumeAsked'
  <2>1. \A t \in Sessions : session'[t] = IF t = s THEN x ELSE session[t]
    BY <1>0 DEF Arrive, TypeOK
  <2>. QED BY <1>0, <2>1 DEF ResumeAsked
<1>1. ASSUME NEW l \in Listings \cup {None}, NEW a \in Analyses \cup {None},
             NEW r \in 0..MaxChanges, NEW st \in Status, CreateRead(s, l, a, r, st)
      PROVE  ResumeAsked'
  <2>1. PICK x \in Request :
          Arrive(s, x) /\ (Creates(x, l, a, r, st) \/ Finds(x, l, a, r, st))
    BY <1>1, CreateRequest
  <2>2. CASE Creates(x, l, a, r, st)
    <3>1. x.op = "create"
      BY <2>2 DEF Creates
    <3>. QED BY <1>0, <2>1, <3>1
  <2>3. CASE Finds(x, l, a, r, st)
    <3>. DEFINE k == LoadLinks(l, a, r)
                i == FindExisting(k)
    <3>1. /\ i \in Stored /\ x.seen = app[i]
          /\ x.row = [app[i] EXCEPT !.resume = IF app[i].resume = 0 THEN k.resume
                                               ELSE app[i].resume,
                                    !.status = st]
      BY <2>3 DEF Finds
    <3>. HIDE DEF i, k
    <3>2. app[i] \in AppRow
      BY <3>1, StoredNumbers
    <3>3. x.row.resume = x.seen.resume \/ x.seen.resume = 0
      BY <3>1, <3>2 DEF AppRow
    <3>. QED BY <1>0, <2>1, <3>3
  <2>. QED BY <2>1, <2>2, <2>3
<1>2. ASSUME NEW i \in Apps, NEW names \in SUBSET {"listing", "analysis", "resume"},
             NEW l \in Listings \cup {None}, NEW a \in Analyses \cup {None},
             NEW r \in 0..MaxChanges, NEW st \in Status \cup {None},
             UpdateRead(s, i, names, l, a, r, st)
      PROVE  ResumeAsked'
  <2>. DEFINE l0 == IF "listing" \in names THEN l ELSE app[i].listing
              a0 == IF "analysis" \in names THEN a ELSE app[i].analysis
              r0 == IF "resume" \in names THEN r ELSE app[i].resume
              k == LoadLinks(l0, a0, r0)
  <2>1. PICK x \in Request : Arrive(s, x) /\ Patches(x, i, names, l, a, r, st)
    BY <1>2, UpdateRequest
  <2>2. /\ i \in Stored /\ x.names = names /\ x.seen = app[i] /\ x.row.resume = k.resume
        /\ "resume" \in names => r \in 0..Len(resumes)
    BY <2>1 DEF Patches, Row
  <2>3. /\ l0 \in Listings \cup {None} /\ a0 \in Analyses \cup {None}
        /\ r0 \in 0..Len(resumes)
    BY <2>2, StoredNumbers DEF AppRow, TypeOK
  <2>4. r0 # 0 => k.resume = r0
    <3>. HIDE DEF l0, a0, r0
    <3>. QED BY <2>3, LinksLoaded DEF Loaded
  <2>5. "resume" \in x.names \/ x.row.resume = x.seen.resume \/ x.seen.resume = 0
    <3>. HIDE DEF k
    <3>. QED BY <2>2, <2>4
  <2>. QED BY <1>0, <2>1, <2>5
<1>3. ASSUME NEW i \in Apps, DeleteRead(s, i)
      PROVE  ResumeAsked'
  <2>. DEFINE x == [Free EXCEPT !.op = "delete", !.id = i]
  <2>1. Arrive(s, x) /\ i \in 0..MaxApps
    BY <1>3 DEF DeleteRead, Apps
  <2>2. x \in Request /\ x.op = "delete"
    BY <2>1, Records DEF Request
  <2>. HIDE DEF x
  <2>. QED BY <1>0, <2>1, <2>2
<1>. QED BY <1>1, <1>2, <1>3, RequestKinds

LEMMA NextAsked == TypeOK /\ ResumeAsked /\ [Next]_vars => ResumeAsked'
<1>. SUFFICES ASSUME TypeOK, ResumeAsked, [Next]_vars PROVE ResumeAsked'
  OBVIOUS
<1>1. ASSUME NEW s \in Sessions, End(s)
      PROVE  ResumeAsked'
  BY <1>1, EndedSession, Records DEF ResumeAsked
<1>2. CASE session' = session
  BY <1>2 DEF ResumeAsked
<1>. QED
  BY <1>1, <1>2, ArriveAsked
  DEF Next, ScoreListing, StoreResume, DeleteListing, CreateCommit, UpdateCommit,
      DeleteCommit, vars

\* The resume that was sent stays against newer resumes and overlapping requests.
THEOREM SentResumeIsKept == Spec => SentResumeKept
<1>1. Init => ResumeAsked
  BY Records DEF Init, ResumeAsked
<1>2. ASSUME TypeOK, ResumeAsked, [Next]_vars, NEW i \in Stored, app[i].resume # 0,
             app'[i] # NoApp, app'[i].resume # app[i].resume
      PROVE  \E s \in Sessions :
               /\ session'[s] = Free /\ session[s].id = i
               /\ "resume" \in session[s].names \/ session[s].seen.resume = 0
  <2>1. app[i] \in AppRow
    BY <1>2, StoredNumbers
  <2>2. [app[i] EXCEPT !.listing = None].resume = app[i].resume
    BY <2>1 DEF AppRow
  <2>3. PICK s \in Sessions : /\ UpdateCommit(s) /\ session[s].id = i
                              /\ session[s].op = "update"
                              /\ app'[i] = Written(app[i], session[s])
    BY <1>2, <2>2, RowChanges
  <2>4. session[s] \in Request
    BY <1>2 DEF TypeOK
  <2>5. session[s].row.resume # session[s].seen.resume
    BY <1>2, <2>1, <2>3, <2>4, WrittenColumns
  <2>6. session'[s] = Free
    BY <1>2, <2>3, EndedSession DEF UpdateCommit
  <2>. QED BY <1>2, <2>3, <2>5, <2>6 DEF ResumeAsked
<1>3. TypeOK /\ ResumeAsked /\ [Next]_vars =>
        [\A i \in Stored :
           app[i].resume # 0 /\ app'[i] # NoApp /\ app'[i].resume # app[i].resume =>
             \E s \in Sessions :
               /\ session'[s] = Free /\ session[s].id = i
               /\ "resume" \in session[s].names \/ session[s].seen.resume = 0]_vars
  BY <1>2
<1>. QED BY <1>1, <1>3, NextAsked, TypeCorrect, PTL DEF Spec, SentResumeKept

----------------------------------------------------------------------------
(* One application of a listing.                                           *)

\* What an open request knows of listings: one that is about to create an
\* application has seen the older ones of its listing, unless a PATCH gave it to
\* them since, and a request that names no link leaves the listing as it was.
Looked(x) ==
  /\ x.op = "create" /\ x.row.listing # None =>
       \A j \in Apps : j <= x.last /\ app[j].listing = x.row.listing => j \in patched
  /\ x.op = "update" /\ x.names = {} => x.row.listing = x.seen.listing

AllLooked == \A s \in Sessions : Looked(session[s])

\* History is never taken back.
LEMMA HistoryGrows ==
  ASSUME TypeOK, [Next]_vars
  PROVE  patched \subseteq patched' /\ raced \subseteq raced' /\ combined \subseteq combined'
<1>1. ASSUME NEW s \in Sessions, NewRequest(s)
      PROVE  patched' = patched /\ raced' = raced /\ combined' = combined
  <2>1. ASSUME NEW x, Arrive(s, x)
        PROVE  patched' = patched /\ raced' = raced /\ combined' = combined
    BY <2>1 DEF Arrive
  <2>2. ASSUME NEW l, NEW a, NEW r, NEW st, CreateRead(s, l, a, r, st)
        PROVE  patched' = patched /\ raced' = raced /\ combined' = combined
    BY <2>1, <2>2 DEF CreateRead
  <2>3. ASSUME NEW i, NEW names, NEW l, NEW a, NEW r, NEW st,
               UpdateRead(s, i, names, l, a, r, st)
        PROVE  patched' = patched /\ raced' = raced /\ combined' = combined
    BY <2>1, <2>3 DEF UpdateRead
  <2>4. ASSUME NEW i, DeleteRead(s, i)
        PROVE  patched' = patched /\ raced' = raced /\ combined' = combined
    BY <2>1, <2>4 DEF DeleteRead
  <2>. QED BY <1>1, <2>2, <2>3, <2>4 DEF NewRequest
<1>2. ASSUME NEW s \in Sessions, CreateCommit(s) \/ UpdateCommit(s) \/ DeleteCommit(s)
      PROVE  patched \subseteq patched' /\ raced \subseteq raced' /\ combined \subseteq combined' /\ combined \subseteq combined'
  BY <1>2 DEF CreateCommit, UpdateCommit, DeleteCommit, Patched, Combined
<1>. QED
  BY <1>1, <1>2 DEF Next, ScoreListing, StoreResume, DeleteListing, vars

\* The commit that creates an application makes a pair of it with all that were
\* created since its request looked.
Created(s, i) ==
  /\ i = serial + 1 /\ session[s].op = "create" /\ app'[i] = session[s].row
  /\ raced' = raced \cup {{i, j} : j \in (session[s].last + 1)..serial}

\* An application gets a listing when it is created, or by a PATCH.
LEMMA ListingMoves ==
  ASSUME TypeOK, AllLooked, [Next]_vars, NEW i \in Apps,
         app'[i].listing # None, app'[i].listing # app[i].listing
  PROVE  i \in patched' \/ \E s \in Sessions : Created(s, i)
<1>. USE TrackerAssumption
<1>1. app[i] \in AppRow
  BY DEF TypeOK
<1>2. CASE i \in Stored
  <2>1. app'[i] # NoApp /\ app'[i] # app[i]
    BY Records
  <2>2. [app[i] EXCEPT !.listing = None].listing = None
    BY <1>1 DEF AppRow
  <2>3. PICK s \in Sessions : /\ UpdateCommit(s) /\ session[s].id = i
                              /\ session[s].op = "update"
                              /\ app'[i] = Written(app[i], session[s])
    BY <1>2, <2>1, <2>2, RowChanges
  <2>4. session[s].row.listing # session[s].seen.listing
    BY <1>1, <2>3, WrittenColumns DEF TypeOK
  <2>5. session[s].names # {}
    BY <2>3, <2>4 DEF AllLooked, Looked
  <2>6. app' # app
    BY <1>1
  <2>. QED BY <2>3, <2>5, <2>6 DEF UpdateCommit, Patched
<1>3. CASE i \notin Stored
  <2>0. app[i] = NoApp
    BY <1>3 DEF Stored
  <2>1. ASSUME NEW s \in Sessions, CreateCommit(s) PROVE Created(s, i)
    <3>1. app' # app
      BY <1>1
    <3>2. /\ app' = [app EXCEPT ![serial + 1] = session[s].row]
          /\ session[s].op = "create"
          /\ raced' = raced \cup {{serial + 1, j} : j \in (session[s].last + 1)..serial}
      BY <2>1, <3>1 DEF CreateCommit
    <3>3. i = serial + 1
      BY <3>2 DEF TypeOK
    <3>. QED BY <3>2, <3>3 DEF Created, TypeOK
  <2>2. ASSUME NEW s \in Sessions, UpdateCommit(s) PROVE FALSE
    BY <2>0, <2>2 DEF UpdateCommit, TypeOK
  <2>3. ASSUME NEW s \in Sessions, DeleteCommit(s) PROVE FALSE
    BY <2>0, <2>3, Records DEF DeleteCommit, TypeOK
  <2>4. ASSUME NEW l \in Listings, DeleteListing(l) PROVE FALSE
    BY <2>0, <2>4, Records DEF DeleteListing
  <2>5. ASSUME NEW s \in Sessions, NewRequest(s) PROVE FALSE
    BY <2>5, RequestKeepsTables
  <2>6. CASE UNCHANGED vars
    BY <2>6 DEF vars
  <2>. QED
    BY <2>1, <2>2, <2>3, <2>4, <2>5, <2>6 DEF Next, ScoreListing, StoreResume
<1>. QED BY <1>2, <1>3

\* A request that arrives has looked.
LEMMA ArriveLooked ==
  ASSUME TypeOK, AllLooked, NEW s \in Sessions, NewRequest(s)
  PROVE  AllLooked'
<1>. USE TrackerAssumption
<1>0. ASSUME NEW x \in Request, Arrive(s, x), Looked(x)
      PROVE  AllLooked'
  <2>1. /\ \A t \in Sessions : session'[t] = IF t = s THEN x ELSE session[t]
        /\ app' = app /\ patched' = patched
    BY <1>0 DEF Arrive, TypeOK
  <2>. QED BY <1>0, <2>1 DEF AllLooked, Looked
<1>1. ASSUME NEW l \in Listings \cup {None}, NEW a \in Analyses \cup {None},
             NEW r \in 0..MaxChanges, NEW st \in Status, CreateRead(s, l, a, r, st)
      PROVE  AllLooked'
  <2>1. PICK x \in Request :
          Arrive(s, x) /\ (Creates(x, l, a, r, st) \/ Finds(x, l, a, r, st))
    BY <1>1, CreateRequest
  <2>. DEFINE k == LoadLinks(l, a, r)
              i == FindExisting(k)
  <2>2. CASE Creates(x, l, a, r, st)
    <3>1. x.op = "create" /\ x.row.listing = k.listing /\ FindExisting(k) = 0
      BY <2>2 DEF Creates, Row
    <3>. HIDE DEF k
    <3>2. \A j \in Apps : k.listing # None => app[j].listing # k.listing
      BY <3>1, FoundMatches, Records DEF Stored
    <3>. QED BY <1>0, <2>1, <3>1, <3>2 DEF Looked
  <2>3. CASE Finds(x, l, a, r, st)
    <3>1. /\ i \in Stored /\ x.seen = app[i] /\ x.op = "update"
          /\ x.row = [app[i] EXCEPT !.resume = IF app[i].resume = 0 THEN k.resume
                                               ELSE app[i].resume,
                                    !.status = st]
      BY <2>3 DEF Finds
    <3>. HIDE DEF i, k
    <3>2. x.row.listing = x.seen.listing
      BY <3>1, StoredNumbers DEF AppRow
    <3>. QED BY <1>0, <2>1, <3>1, <3>2 DEF Looked
  <2>. QED BY <2>1, <2>2, <2>3
<1>2. ASSUME NEW i \in Apps, NEW names \in SUBSET {"listing", "analysis", "resume"},
             NEW l \in Listings \cup {None}, NEW a \in Analyses \cup {None},
             NEW r \in 0..MaxChanges, NEW st \in Status \cup {None},
             UpdateRead(s, i, names, l, a, r, st)
      PROVE  AllLooked'
  <2>. DEFINE l0 == IF "listing" \in names THEN l ELSE app[i].listing
              a0 == IF "analysis" \in names THEN a ELSE app[i].analysis
              r0 == IF "resume" \in names THEN r ELSE app[i].resume
              k == LoadLinks(l0, a0, r0)
  <2>1. PICK x \in Request : Arrive(s, x) /\ Patches(x, i, names, l, a, r, st)
    BY <1>2, UpdateRequest
  <2>2. /\ x.op = "update" /\ x.names = names /\ x.seen = app[i]
        /\ x.row.listing = k.listing
    BY <2>1 DEF Patches, Row
  <2>3. k.listing = l0
    BY DEF LoadLinks
  <2>4. Looked(x)
    BY <2>2, <2>3 DEF Looked
  <2>. QED BY <1>0, <2>1, <2>4
<1>3. ASSUME NEW i \in Apps, DeleteRead(s, i)
      PROVE  AllLooked'
  <2>. DEFINE x == [Free EXCEPT !.op = "delete", !.id = i]
  <2>1. Arrive(s, x) /\ i \in 0..MaxApps
    BY <1>3 DEF DeleteRead, Apps
  <2>2. x \in Request /\ x.op = "delete"
    BY <2>1, Records DEF Request
  <2>. HIDE DEF x
  <2>. QED BY <1>0, <2>1, <2>2 DEF Looked
<1>. QED BY <1>1, <1>2, <1>3, RequestKinds

\* An open request goes on having looked: what gets its listing later is created
\* after it looked, or patched.
LEMMA NextLooked == TypeOK /\ AllLooked /\ [Next]_vars => AllLooked'
<1>. SUFFICES ASSUME TypeOK, AllLooked, [Next]_vars PROVE AllLooked'
  OBVIOUS
<1>. USE TrackerAssumption
<1>1. ASSUME NEW s \in Sessions
      PROVE  LET x == session[s] IN
             x.op = "create" /\ x.row.listing # None =>
               \A j \in Apps : j <= x.last /\ app'[j].listing = x.row.listing =>
                                 j \in patched'
  <2>. DEFINE x == session[s]
  <2>. SUFFICES ASSUME x.op = "create", x.row.listing # None, NEW j \in Apps,
                       j <= x.last, app'[j].listing = x.row.listing
                PROVE  j \in patched'
    OBVIOUS
  <2>1. x.last <= serial /\ x.last \in Nat /\ serial \in Nat /\ j \in Nat
    BY DEF TypeOK, Request, Apps
  <2>2. ~\E t \in Sessions : Created(t, j)
    BY <2>1 DEF Created
  <2>3. CASE app[j].listing = app'[j].listing
    BY <2>3, HistoryGrows DEF AllLooked, Looked
  <2>. QED BY <2>2, <2>3, ListingMoves
<1>2. ASSUME NEW s \in Sessions, session'[s] \in {session[s], Free}
      PROVE  Looked(session[s])'
  BY <1>1, <1>2, Records DEF AllLooked, Looked
<1>3. ASSUME NEW s \in Sessions, End(s)
      PROVE  AllLooked'
  BY <1>2, <1>3, EndedSession DEF AllLooked
<1>4. CASE session' = session
  BY <1>2, <1>4 DEF AllLooked
<1>. QED
  BY <1>3, <1>4, ArriveLooked
  DEF Next, ScoreListing, StoreResume, DeleteListing, CreateCommit, UpdateCommit,
      DeleteCommit, vars

LEMMA NextOneApplication ==
  TypeOK /\ AllLooked /\ OneApplication /\ [Next]_vars => OneApplication'
<1>. SUFFICES ASSUME TypeOK, AllLooked, OneApplication, [Next]_vars,
                     NEW i \in Apps, NEW j \in Apps, i # j,
                     app'[i].listing = app'[j].listing, app'[i].listing # None
              PROVE  {i, j} \in raced' \/ i \in patched' \/ j \in patched'
  BY DEF OneApplication, Stored
<1>. USE TrackerAssumption
\* One of the two is new.
<1>1. ASSUME NEW n \in Apps, NEW o \in Apps, n # o, NEW s \in Sessions, Created(s, n),
             app'[n].listing = app'[o].listing, app'[n].listing # None
      PROVE  {n, o} \in raced' \/ o \in patched'
  <2>1. CASE app'[o].listing # app[o].listing
    <3>1. ~\E t \in Sessions : Created(t, o)
      BY <1>1 DEF Created
    <3>. QED BY <1>1, <2>1, <3>1, ListingMoves
  <2>2. CASE app'[o].listing = app[o].listing
    <3>. DEFINE last == session[s].last
    <3>0. o \in Nat /\ serial \in Nat /\ last \in Nat
      BY DEF TypeOK, Apps, Request
    <3>1. o <= serial
      BY <1>1, <2>2, <3>0, Records DEF TypeOK
    <3>2. CASE o <= last
      BY <1>1, <2>2, <3>2, HistoryGrows DEF AllLooked, Looked, Created
    <3>3. CASE last < o
      <4>1. o \in (last + 1)..serial
        BY <3>0, <3>1, <3>3
      <4>. QED BY <1>1, <4>1 DEF Created
    <3>. QED BY <3>0, <3>2, <3>3
  <2>. QED BY <2>1, <2>2
<1>2. CASE app'[i].listing = app[i].listing /\ app'[j].listing = app[j].listing
  <2>1. app[i] # NoApp /\ app[j] # NoApp
    BY <1>2, Records
  <2>2. {i, j} \in raced \/ {i, j} \cap patched # {}
    BY <1>2, <2>1 DEF OneApplication, Stored
  <2>. QED BY <2>2, HistoryGrows
<1>3. CASE app'[i].listing # app[i].listing
  BY <1>1, <1>3, ListingMoves
<1>4. CASE app'[j].listing # app[j].listing
  <2>1. {i, j} = {j, i}
    OBVIOUS
  <2>. QED BY <1>1, <1>4, <2>1, ListingMoves
<1>. QED BY <1>2, <1>3, <1>4

\* A listing has two applications only by requests that overlapped or a PATCH.
THEOREM OneApplicationOnly == Spec => []OneApplication
<1>1. Init => AllLooked /\ OneApplication
  BY Records DEF Init, AllLooked, Looked, OneApplication, Stored
<1>. QED BY <1>1, NextLooked, NextOneApplication, TypeCorrect, PTL DEF Spec

----------------------------------------------------------------------------
(* One analysis of an application.                                         *)

\* The analyses a row shows: that of its score and that of its resume.
Scores(x, rs) == {x.analysis} \cup (IF x.resume = 0 THEN {} ELSE {rs[x.resume]})

\* The applications that a request has given links it named itself.
Relinked == patched \cup combined

\* The other open requests that may write application i.
Touching(i) ==
  {s \in Sessions : session[s].op = "update" /\ session[s].id = i
                      /\ session[s].names = {} /\ ~session[s].several}

\* The analyses application i shows, or may show when these requests end.
Shows(i) ==
  Scores(app[i], resumes) \cup UNION {Scores(session[s].row, resumes) : s \in Touching(i)}

\* All of S are one analysis, and it is that of listing l, but for those that a
\* listing has left.
Coherent(S, l, sc, re) ==
  /\ \A a, b \in S : a = b \/ a \in {None} \cup re \/ b \in {None} \cup re
  /\ l # None => \A a \in S : a \in {None, sc[l]} \cup re

LinksKnown ==
  /\ \A i \in Apps \ Relinked : Coherent(Shows(i), app[i].listing, scored, rescored)
  /\ \A s \in Sessions : session[s].op = "create" /\ ~session[s].several =>
       Coherent(Scores(session[s].row, resumes), session[s].row.listing, scored, rescored)

\* An analysis that a listing leaves is remembered.
LEMMA ScoresRemembered ==
  ASSUME TypeOK, [Next]_vars
  PROVE  /\ rescored \subseteq rescored'
         /\ \A l \in Listings : scored'[l] = scored[l] \/ scored[l] \in {None} \cup rescored'
<1>1. ASSUME NEW l \in Listings, NEW a \in Analyses, ScoreListing(l, a)
      PROVE  /\ rescored \subseteq rescored'
             /\ \A m \in Listings : scored'[m] = scored[m] \/ scored[m] \in {None} \cup rescored'
  BY <1>1 DEF ScoreListing, TypeOK
<1>2. ASSUME NEW s \in Sessions, NewRequest(s)
      PROVE  scored' = scored /\ rescored' = rescored
  <2>1. ASSUME NEW x, Arrive(s, x)
        PROVE  scored' = scored /\ rescored' = rescored
    BY <2>1 DEF Arrive, links
  <2>2. ASSUME NEW l, NEW a, NEW r, NEW st, CreateRead(s, l, a, r, st)
        PROVE  scored' = scored /\ rescored' = rescored
    BY <2>1, <2>2 DEF CreateRead
  <2>3. ASSUME NEW i, NEW names, NEW l, NEW a, NEW r, NEW st,
               UpdateRead(s, i, names, l, a, r, st)
        PROVE  scored' = scored /\ rescored' = rescored
    BY <2>1, <2>3 DEF UpdateRead
  <2>4. ASSUME NEW i, DeleteRead(s, i)
        PROVE  scored' = scored /\ rescored' = rescored
    BY <2>1, <2>4 DEF DeleteRead
  <2>. QED BY <1>2, <2>2, <2>3, <2>4 DEF NewRequest
<1>3. ASSUME scored' = scored /\ rescored' = rescored
      PROVE  /\ rescored \subseteq rescored'
             /\ \A m \in Listings : scored'[m] = scored[m] \/ scored[m] \in {None} \cup rescored'
  BY <1>3
<1>4. ASSUME NEW s \in Sessions, CreateCommit(s) \/ UpdateCommit(s) \/ DeleteCommit(s)
      PROVE  scored' = scored /\ rescored' = rescored
  BY <1>4 DEF CreateCommit, UpdateCommit, DeleteCommit, End, links
<1>. QED
  BY <1>1, <1>2, <1>3, <1>4 DEF Next, StoreResume, DeleteListing, vars, links

\* The resumes of rows stay what they were.
LEMMA ScoresStay ==
  ASSUME TypeOK, NEW a, resumes' = resumes \/ resumes' = Append(resumes, a)
  PROVE  /\ \A i \in Apps : Scores(app[i], resumes') = Scores(app[i], resumes)
         /\ \A s \in Sessions :
              Scores(session[s].row, resumes') = Scores(session[s].row, resumes)
<1>1. ASSUME NEW x \in AppRow, x.resume <= Len(resumes)
      PROVE  Scores(x, resumes') = Scores(x, resumes)
  <2>1. x.resume # 0 => x.resume \in 1..Len(resumes)
    BY <1>1, TrackerAssumption DEF AppRow, TypeOK
  <2>2. \A n \in 1..Len(resumes) : Append(resumes, a)[n] = resumes[n]
    BY DEF TypeOK
  <2>. QED BY <2>1, <2>2 DEF Scores
<1>2. \A i \in Apps : app[i] \in AppRow /\ app[i].resume <= Len(resumes)
  BY DEF TypeOK
<1>3. \A s \in Sessions : session[s].row \in AppRow /\ session[s].row.resume <= Len(resumes)
  BY DEF TypeOK, Request
<1>. QED BY <1>1, <1>2, <1>3

\* A step that starts no request, and shows no analysis that was not shown or
\* about to be shown before.
LEMMA ShowsLess ==
  ASSUME TypeOK, [Next]_vars, LinksKnown, NEW i \in Apps \ Relinked, NEW a,
         resumes' = resumes \/ resumes' = Append(resumes, a),
         \A s \in Sessions : session'[s] \in {session[s], Free},
         Scores(app'[i], resumes') \subseteq Shows(i) \cup {None},
         app'[i].listing \in {app[i].listing, None}
  PROVE  Coherent(Shows(i), app[i].listing, scored, rescored)'
<1>1. \A s \in Touching(i)' : s \in Touching(i) /\ session'[s] = session[s]
  BY Records DEF Touching
<1>2. \A s \in Touching(i)' :
        Scores(session'[s].row, resumes') = Scores(session[s].row, resumes)
  BY <1>1, ScoresStay DEF Touching
<1>3. Shows(i)' \subseteq Shows(i) \cup {None}
  BY <1>1, <1>2 DEF Shows
<1>4. app[i].listing # None => app[i].listing \in Listings
  BY DEF TypeOK, AppRow
<1>5. Coherent(Shows(i), app[i].listing, scored, rescored)
  BY DEF LinksKnown
<1>6. Coherent(Shows(i)', app'[i].listing, scored', rescored')
  <2>. DEFINE S == Shows(i)
              T == Shows(i)'
              l == app[i].listing
              m == app'[i].listing
  <2>1. rescored \subseteq rescored'
        /\ (l # None => scored'[l] = scored[l] \/ scored[l] \in {None} \cup rescored')
    BY <1>4, ScoresRemembered
  <2>2. T \subseteq S \cup {None} /\ m \in {l, None} /\ Coherent(S, l, scored, rescored)
    BY <1>3, <1>5
  <2>. HIDE DEF S, T, l, m
  <2>3. Coherent(T, m, scored', rescored')
    BY <2>1, <2>2 DEF Coherent
  <2>. QED BY <2>3 DEF S, T, l, m
<1>. QED BY <1>6

\* The same of the requests that are about to create an application.
LEMMA CreatesStay ==
  ASSUME TypeOK, [Next]_vars, LinksKnown, NEW s \in Sessions, NEW a,
         resumes' = resumes \/ resumes' = Append(resumes, a),
         session'[s] \in {session[s], Free}, session'[s].op = "create",
         ~session'[s].several
  PROVE  Coherent(Scores(session[s].row, resumes), session[s].row.listing,
                  scored, rescored)'
<1>. DEFINE l == session[s].row.listing
            S == Scores(session[s].row, resumes)
<1>1. session'[s] = session[s] /\ session[s].op = "create" /\ ~session[s].several
  BY Records
<1>2. Scores(session'[s].row, resumes') = S
  BY <1>1, ScoresStay
<1>3. l # None => l \in Listings
  BY DEF TypeOK, AppRow, Request
<1>4. rescored \subseteq rescored'
      /\ (l # None => scored'[l] = scored[l] \/ scored[l] \in {None} \cup rescored')
  BY <1>3, ScoresRemembered
<1>5. Coherent(S, l, scored, rescored)
  BY <1>1 DEF LinksKnown
<1>. HIDE DEF S
<1>6. Coherent(S, l, scored', rescored')
  BY <1>4, <1>5 DEF Coherent
<1>. QED BY <1>1, <1>2, <1>6

\* A request that arrives shows what its application shows, or what the listing of
\* the application is scored by.
LEMMA ArriveKnown ==
  ASSUME TypeOK, LinksKnown, NEW s \in Sessions, NEW x \in Request, Arrive(s, x),
         x.op = "create" /\ ~x.several =>
           Coherent(Scores(x.row, resumes), x.row.listing, scored, rescored),
         x.op = "update" /\ x.names = {} /\ ~x.several =>
           \A a \in Scores(x.row, resumes) :
             \/ a \in Scores(app[x.id], resumes) \cup {None}
             \/ /\ app[x.id].listing # None
                /\ a \in {None, scored[app[x.id].listing]} \cup rescored
  PROVE  LinksKnown'
<1>1. /\ \A t \in Sessions : session'[t] = IF t = s THEN x ELSE session[t]
      /\ app' = app /\ resumes' = resumes /\ Relinked' = Relinked
      /\ scored' = scored /\ rescored' = rescored
  BY DEF Arrive, links, TypeOK, Relinked
<1>2. session[s].op = "none"
  BY Records DEF Arrive, Idle
<1>3. ASSUME NEW i \in Apps \ Relinked
      PROVE  Coherent(Shows(i)', app[i].listing, scored, rescored)
  <2>1. Coherent(Shows(i), app[i].listing, scored, rescored)
    BY DEF LinksKnown
  <2>2. CASE x.op = "update" /\ x.names = {} /\ ~x.several /\ x.id = i
    <3>1. Touching(i)' = Touching(i) \cup {s}
      BY <1>1, <1>2, <2>2 DEF Touching
    <3>2. \A t \in Touching(i) : session'[t] = session[t]
      BY <1>1, <1>2 DEF Touching
    <3>3. Shows(i)' = Shows(i) \cup Scores(x.row, resumes)
      BY <1>1, <3>1, <3>2 DEF Shows
    <3>4. \A a \in Scores(x.row, resumes) :
            a \in Shows(i) \cup {None}
              \/ (app[i].listing # None /\ a \in {None, scored[app[i].listing]} \cup rescored)
      BY <2>2 DEF Shows
    <3>. QED BY <2>1, <3>3, <3>4 DEF Coherent
  <2>3. CASE ~(x.op = "update" /\ x.names = {} /\ ~x.several /\ x.id = i)
    <3>1. Touching(i)' = Touching(i)
      BY <1>1, <1>2, <2>3 DEF Touching
    <3>2. \A t \in Touching(i) : session'[t] = session[t]
      BY <1>1, <1>2 DEF Touching
    <3>3. Shows(i)' = Shows(i)
      BY <1>1, <3>1, <3>2 DEF Shows
    <3>. QED BY <2>1, <3>3
  <2>. QED BY <2>2, <2>3
<1>4. ASSUME NEW t \in Sessions, session'[t].op = "create", ~session'[t].several
      PROVE  Coherent(Scores(session'[t].row, resumes), session'[t].row.listing,
                      scored, rescored)
  <2>1. CASE t = s
    BY <1>1, <1>4, <2>1
  <2>2. CASE t # s
    BY <1>1, <1>4, <2>2 DEF LinksKnown
  <2>. QED BY <2>1, <2>2
<1>. QED BY <1>1, <1>3, <1>4 DEF LinksKnown

\* What a POST that names one link loads is about one analysis, that of the listing
\* when it names one.
LEMMA PostKnown ==
  ASSUME TypeOK, LinksKnown, NEW s \in Sessions,
         NEW l \in Listings \cup {None}, NEW a \in Analyses \cup {None},
         NEW r \in 0..MaxChanges, NEW st \in Status, CreateRead(s, l, a, r, st)
  PROVE  LinksKnown'
<1>. USE TrackerAssumption
<1>. DEFINE k == LoadLinks(l, a, r)
            i == FindExisting(k)
<1>1. PICK x \in Request :
        Arrive(s, x) /\ (Creates(x, l, a, r, st) \/ Finds(x, l, a, r, st))
  BY CreateRequest
<1>2. r \in 0..Len(resumes)
  BY <1>1 DEF Creates, Finds
<1>3. /\ k.listing = l /\ k.resume \in 0..Len(resumes)
      /\ k.analysis \in Analyses \cup {None}
      /\ k.resume # 0 => resumes[k.resume] = k.analysis \/ (k.resume = r /\ r # 0)
      /\ l # None /\ ~Several(l, a, r) => k.analysis \in {None, scored[l]}
      /\ r # 0 /\ ~Several(l, a, r) => k.resume = r /\ k.analysis \in {None, resumes[r]}
  <2>1. /\ k \in [listing : Listings \cup {None}, analysis : Analyses \cup {None},
                  resume : 0..Len(resumes)]
        /\ k.listing = l
        /\ r # 0 => k.resume = r
        /\ r = 0 /\ k.resume # 0 => resumes[k.resume] = k.analysis
        /\ a = None => \/ l # None /\ k.analysis = scored[l]
                       \/ r # 0 /\ k.analysis = resumes[r]
                       \/ k.analysis = None
    <3>1. Loaded(k, l, a, r)
      BY <1>2, LinksLoaded
    <3>. HIDE DEF k
    <3>. QED BY <3>1 DEF Loaded
  <2>. HIDE DEF k
  <2>2. k.resume # 0 => resumes[k.resume] = k.analysis \/ (k.resume = r /\ r # 0)
    BY <2>1
  <2>3. l # None /\ ~Several(l, a, r) => k.analysis \in {None, scored[l]}
    BY <2>1 DEF Several
  <2>4. r # 0 /\ ~Several(l, a, r) => k.resume = r /\ k.analysis \in {None, resumes[r]}
    BY <2>1 DEF Several
  <2>. QED BY <2>1, <2>2, <2>3, <2>4
<1>. HIDE DEF k
<1>4. x.several = Several(l, a, r)
  BY <1>1 DEF Creates, Finds
<1>5. CASE Several(l, a, r)
  BY <1>1, <1>4, <1>5, ArriveKnown
<1>6. ~Several(l, a, r) => (l = None \/ a = None) /\ (r = 0 \/ (l = None /\ a = None))
  BY DEF Several
<1>7. k.resume # 0 /\ ~Several(l, a, r) => k.analysis \in {None, resumes[k.resume]}
  BY <1>3
<1>8. CASE Creates(x, l, a, r, st) /\ ~Several(l, a, r)
  <2>1. /\ x.op = "create" /\ x.row.listing = k.listing
        /\ x.row.analysis = k.analysis /\ x.row.resume = k.resume
    BY <1>8 DEF Creates, Row, k
  <2>2. Coherent(Scores(x.row, resumes), x.row.listing, scored, rescored)
    <3>1. l # None => r = 0
      BY <1>6, <1>8
    <3>2. \A e \in Scores(x.row, resumes) :
            e = k.analysis \/ (k.resume # 0 /\ e = resumes[k.resume])
      BY <2>1 DEF Scores
    <3>3. l # None => \A e \in Scores(x.row, resumes) : e \in {None, scored[l]}
      BY <1>3, <1>8, <3>1, <3>2
    <3>. QED BY <1>3, <1>7, <1>8, <2>1, <3>2, <3>3 DEF Coherent
  <2>. QED BY <1>1, <2>1, <2>2, ArriveKnown
<1>9. CASE Finds(x, l, a, r, st) /\ ~Several(l, a, r)
  <2>1. /\ i \in Stored /\ x.op = "update" /\ x.id = i
        /\ x.row = [app[i] EXCEPT !.resume = IF app[i].resume = 0 THEN k.resume
                                              ELSE app[i].resume,
                                  !.status = st]
    BY <1>9 DEF Finds, k
  <2>2. app[i] \in AppRow /\ i # 0
    <3>. HIDE DEF i
    <3>. QED BY <2>1, StoredNumbers DEF Stored, Apps
  <2>3. \/ k.listing # None /\ app[i].listing = k.listing
        \/ k.analysis # None /\ app[i].analysis = k.analysis
        \/ k.resume # 0 /\ app[i].resume = k.resume
    BY <2>2, FoundMatches
  <2>. HIDE DEF i
  <2>4. /\ x.row.analysis = app[i].analysis
        /\ x.row.resume = IF app[i].resume = 0 THEN k.resume ELSE app[i].resume
    BY <2>1, <2>2 DEF AppRow
  <2>5. CASE app[i].resume # 0 \/ k.resume = 0
    <3>1. Scores(x.row, resumes) = Scores(app[i], resumes)
      BY <2>4, <2>5 DEF Scores
    <3>. QED BY <1>1, <2>1, <3>1, ArriveKnown
  <2>6. CASE app[i].resume = 0 /\ k.resume # 0
    <3>. DEFINE e == resumes[k.resume]
    <3>1. \A b \in Scores(x.row, resumes) : b = app[i].analysis \/ b = e
      BY <2>4, <2>6 DEF Scores
    <3>2. app[i].analysis \in Scores(app[i], resumes)
      BY DEF Scores
    <3>3. \/ e = app[i].analysis
          \/ app[i].listing # None /\ e \in {None, scored[app[i].listing]}
      <4>1. CASE k.listing # None /\ app[i].listing = k.listing
        <5>1. r = 0 /\ e = k.analysis
          BY <1>3, <1>6, <1>9, <2>6, <4>1
        <5>. QED BY <1>3, <1>9, <4>1, <5>1
      <4>2. CASE k.analysis # None /\ app[i].analysis = k.analysis
        BY <1>7, <1>9, <2>6, <4>2
      <4>. QED BY <2>3, <2>6, <4>1, <4>2
    <3>. HIDE DEF e
    <3>. QED BY <1>1, <2>1, <3>1, <3>2, <3>3, ArriveKnown
  <2>. QED BY <2>5, <2>6
<1>. QED BY <1>1, <1>5, <1>8, <1>9

\* A PATCH that names no link fills those that are absent.
LEMMA RequestKnown ==
  ASSUME TypeOK, LinksKnown, NEW s \in Sessions, NewRequest(s)
  PROVE  LinksKnown'
<1>. USE TrackerAssumption
<1>1. ASSUME NEW i \in Apps, NEW names \in SUBSET {"listing", "analysis", "resume"},
             NEW l \in Listings \cup {None}, NEW a \in Analyses \cup {None},
             NEW r \in 0..MaxChanges, NEW st \in Status \cup {None},
             UpdateRead(s, i, names, l, a, r, st)
      PROVE  LinksKnown'
  <2>1. PICK x \in Request : Arrive(s, x) /\ Patches(x, i, names, l, a, r, st)
    BY <1>1, UpdateRequest
  <2>2. x.op = "update" /\ x.names = names
    BY <2>1 DEF Patches
  <2>3. CASE names # {}
    BY <2>1, <2>2, <2>3, ArriveKnown
  <2>4. CASE names = {}
    <3>1. PICK y \in Request :
            Arrive(s, y) /\ y.op = "update" /\ y.names = {} /\ y.id = i
              /\ i \in Stored
              /\ \E z \in Status \cup {None} :
                   LET k == LoadLinks(app[i].listing, app[i].analysis, app[i].resume)
                   IN  y.row = Row(k.listing, k.analysis, k.resume, z)
      <4>1. /\ x.id = i /\ i \in Stored
            /\ LET k == LoadLinks(app[i].listing, app[i].analysis, app[i].resume) IN
               x.row = Row(k.listing, k.analysis, k.resume,
                           IF st = None THEN app[i].status ELSE st)
        BY <2>1, <2>4 DEF Patches
      <4>2. app[i].status \in Status \cup {None}
        BY DEF TypeOK, AppRow
      <4>. QED BY <2>1, <2>2, <2>4, <4>1, <4>2
    <3>. DEFINE k == LoadLinks(app[i].listing, app[i].analysis, app[i].resume)
    <3>2. y.row.analysis = k.analysis /\ y.row.resume = k.resume
      BY <3>1 DEF Row
    <3>3. /\ app[i].listing \in Listings \cup {None}
          /\ app[i].analysis \in Analyses \cup {None}
          /\ app[i].resume \in 0..Len(resumes)
      BY DEF TypeOK, AppRow
    <3>4. /\ app[i].resume # 0 => k.resume = app[i].resume
          /\ app[i].resume = 0 /\ k.resume # 0 => resumes[k.resume] = k.analysis
          /\ \/ k.analysis \in {None, app[i].analysis}
             \/ app[i].listing # None /\ k.analysis = scored[app[i].listing]
             \/ app[i].resume # 0 /\ k.analysis = resumes[app[i].resume]
      <4>1. /\ app[i].resume # 0 => k.resume = app[i].resume
            /\ app[i].resume = 0 /\ k.resume # 0 => resumes[k.resume] = k.analysis
            /\ app[i].analysis # None => k.analysis = app[i].analysis
            /\ app[i].analysis = None =>
                 \/ app[i].listing # None /\ k.analysis = scored[app[i].listing]
                 \/ app[i].resume # 0 /\ k.analysis = resumes[app[i].resume]
                 \/ k.analysis = None
        <5>1. Loaded(k, app[i].listing, app[i].analysis, app[i].resume)
          BY <3>3, LinksLoaded
        <5>. HIDE DEF k
        <5>. QED BY <5>1 DEF Loaded
      <4>. HIDE DEF k
      <4>. QED BY <4>1
    <3>. HIDE DEF k
    <3>5. \A e \in Scores(y.row, resumes) :
            \/ e = k.analysis
            \/ app[i].resume # 0 /\ e = resumes[app[i].resume]
      BY <3>2, <3>4 DEF Scores
    <3>6. /\ app[i].analysis \in Scores(app[i], resumes)
          /\ app[i].resume # 0 => resumes[app[i].resume] \in Scores(app[i], resumes)
      BY DEF Scores
    <3>7. \A e \in Scores(y.row, resumes) :
            \/ e \in Scores(app[i], resumes) \cup {None}
            \/ app[i].listing # None /\ e \in {None, scored[app[i].listing]}
      BY <3>4, <3>5, <3>6
    <3>. QED BY <3>1, <3>7, ArriveKnown
  <2>. QED BY <2>3, <2>4
<1>2. ASSUME NEW i \in Apps, DeleteRead(s, i)
      PROVE  LinksKnown'
  <2>. DEFINE x == [Free EXCEPT !.op = "delete", !.id = i]
  <2>1. Arrive(s, x) /\ i \in 0..MaxApps
    BY <1>2 DEF DeleteRead, Apps
  <2>2. x \in Request /\ x.op = "delete"
    BY <2>1, Records DEF Request
  <2>. HIDE DEF x
  <2>. QED BY <2>1, <2>2, ArriveKnown
<1>. QED BY <1>1, <1>2, PostKnown, RequestKinds

\* A request that ends shows what it was about to show.
LEMMA CommitKnown ==
  ASSUME TypeOK, AllLooked, LinksKnown, NEW s \in Sessions,
         CreateCommit(s) \/ UpdateCommit(s) \/ DeleteCommit(s), [Next]_vars
  PROVE  LinksKnown'
<1>. USE TrackerAssumption
<1>1. /\ \A t \in Sessions : session'[t] \in {session[t], Free}
      /\ resumes' = resumes /\ scored' = scored /\ rescored' = rescored
      /\ Relinked \subseteq Relinked'
  <2>1. End(s)
    BY DEF CreateCommit, UpdateCommit, DeleteCommit
  <2>. QED BY <2>1, EndedSession, HistoryGrows DEF Relinked
<1>2. \A t \in Sessions : session'[t].op = "create" /\ ~session'[t].several =>
        Coherent(Scores(session[t].row, resumes), session[t].row.listing,
                 scored, rescored)'
  BY <1>1, CreatesStay
<1>3. ASSUME NEW i \in Apps \ Relinked',
             Scores(app'[i], resumes') \subseteq Shows(i) \cup {None},
             app'[i].listing \in {app[i].listing, None}
      PROVE  Coherent(Shows(i), app[i].listing, scored, rescored)'
  BY <1>1, <1>3, ShowsLess
<1>4. ASSUME NEW i \in Apps \ Relinked', app'[i] = app[i]
      PROVE  Coherent(Shows(i), app[i].listing, scored, rescored)'
  <2>1. Scores(app'[i], resumes') \subseteq Shows(i)
    BY <1>1, <1>4 DEF Shows
  <2>. QED BY <1>3, <1>4, <2>1
<1>5. ASSUME NEW i \in Apps \ Relinked', app'[i] # app[i]
      PROVE  Coherent(Shows(i), app[i].listing, scored, rescored)'
  <2>1. CASE CreateCommit(s)
    <3>1. /\ app' = [app EXCEPT ![serial + 1] = session[s].row]
          /\ session[s].op = "create"
          /\ session[s].several => serial + 1 \in Relinked'
      BY <1>5, <2>1 DEF CreateCommit, Relinked
    <3>2. i = serial + 1 /\ app'[i] = session[s].row
      BY <1>5, <3>1 DEF TypeOK
    <3>3. Touching(i)' = {}
      <4>1. \A t \in Sessions : session[t].op = "update" => session[t].id # i
        BY <3>2 DEF TypeOK
      <4>. QED BY <1>1, <4>1, Records DEF Touching
    <3>4. Shows(i)' = Scores(session[s].row, resumes)
      BY <1>1, <3>2, <3>3 DEF Shows
    <3>5. Coherent(Scores(session[s].row, resumes), session[s].row.listing,
                   scored, rescored)
      BY <1>5, <3>1, <3>2 DEF LinksKnown
    <3>. QED BY <1>1, <3>2, <3>4, <3>5
  <2>2. CASE UpdateCommit(s)
    <3>. DEFINE x == session[s]
    <3>1. /\ x \in Request /\ x.op = "update" /\ i = x.id
          /\ app'[i] = Written(app[i], x) /\ x.names = {} /\ ~x.several
      BY <1>5, <2>2 DEF UpdateCommit, Patched, Combined, Relinked, TypeOK
    <3>2. app[i] \in AppRow
      BY DEF TypeOK
    <3>. HIDE DEF x
    <3>3. /\ app'[i].analysis \in {app[i].analysis, x.row.analysis}
          /\ app'[i].resume \in {app[i].resume, x.row.resume}
          /\ x.row.listing = x.seen.listing => app'[i].listing = app[i].listing
      BY <3>1, <3>2, WrittenColumns
    <3>4. app'[i].listing = app[i].listing
      BY <3>1, <3>3 DEF AllLooked, Looked, x
    <3>5. Scores(app'[i], resumes') \subseteq
            Scores(app[i], resumes) \cup Scores(x.row, resumes)
      BY <1>1, <3>3 DEF Scores
    <3>6. s \in Touching(i)
      BY <3>1 DEF Touching, x
    <3>7. Scores(x.row, resumes) \subseteq Shows(i)
      BY <3>6 DEF Shows, x
    <3>8. Scores(app[i], resumes) \subseteq Shows(i)
      BY DEF Shows
    <3>. QED BY <1>3, <3>4, <3>5, <3>7, <3>8
  <2>3. CASE DeleteCommit(s)
    <3>1. app'[i] = NoApp
      BY <1>5, <2>3 DEF DeleteCommit, TypeOK
    <3>2. Scores(app'[i], resumes') = {None}
      BY <3>1, Records DEF Scores
    <3>. QED BY <1>3, <3>1, <3>2, Records
  <2>. QED BY <2>1, <2>2, <2>3
<1>. QED BY <1>2, <1>4, <1>5, <1>1 DEF LinksKnown

LEMMA NextLinksKnown == TypeOK /\ AllLooked /\ LinksKnown /\ [Next]_vars => LinksKnown'
<1>. SUFFICES ASSUME TypeOK, AllLooked, LinksKnown, [Next]_vars PROVE LinksKnown'
  OBVIOUS
<1>1. ASSUME NEW a, resumes' = resumes \/ resumes' = Append(resumes, a),
             session' = session, Relinked' = Relinked,
             \A i \in Apps : /\ Scores(app'[i], resumes') = Scores(app[i], resumes)
                             /\ app'[i].listing \in {app[i].listing, None}
      PROVE  LinksKnown'
  <2>1. \A i \in Apps \ Relinked' : Coherent(Shows(i), app[i].listing, scored, rescored)'
    <3>1. \A i \in Apps : Scores(app[i], resumes) \subseteq Shows(i)
      BY DEF Shows
    <3>. QED BY <1>1, <3>1, ShowsLess
  <2>2. \A s \in Sessions : session'[s].op = "create" /\ ~session'[s].several =>
          Coherent(Scores(session[s].row, resumes), session[s].row.listing,
                   scored, rescored)'
    BY <1>1, CreatesStay
  <2>. QED BY <2>1, <2>2 DEF LinksKnown
<1>2. ASSUME NEW l \in Listings, NEW a \in Analyses, ScoreListing(l, a)
      PROVE  LinksKnown'
  <2>1. resumes' = resumes /\ session' = session /\ Relinked' = Relinked /\ app' = app
    BY <1>2 DEF ScoreListing, Relinked
  <2>. QED BY <1>1, <2>1
<1>3. ASSUME NEW a \in Analyses, StoreResume(a)
      PROVE  LinksKnown'
  <2>1. resumes' = Append(resumes, a) /\ session' = session /\ Relinked' = Relinked
        /\ app' = app
    BY <1>3 DEF StoreResume, Relinked
  <2>2. \A i \in Apps : Scores(app'[i], resumes') = Scores(app[i], resumes)
    BY <2>1, ScoresStay
  <2>. QED BY <1>1, <2>1, <2>2
<1>4. ASSUME NEW l \in Listings, DeleteListing(l)
      PROVE  LinksKnown'
  <2>1. /\ resumes' = resumes /\ session' = session /\ Relinked' = Relinked
        /\ app' = [i \in Apps |-> IF app[i].listing = l
                                  THEN [app[i] EXCEPT !.listing = None] ELSE app[i]]
    BY <1>4 DEF DeleteListing, Relinked
  <2>2. ASSUME NEW i \in Apps
        PROVE  /\ app'[i].analysis = app[i].analysis /\ app'[i].resume = app[i].resume
               /\ app'[i].listing \in {app[i].listing, None}
    BY <2>1 DEF TypeOK, AppRow
  <2>3. \A i \in Apps : Scores(app'[i], resumes') = Scores(app[i], resumes)
    BY <2>1, <2>2 DEF Scores
  <2>. QED BY <1>1, <2>1, <2>2, <2>3
<1>5. CASE UNCHANGED vars
  <2>1. resumes' = resumes /\ session' = session /\ Relinked' = Relinked /\ app' = app
    BY <1>5 DEF vars, links, Relinked
  <2>. QED BY <1>1, <2>1
<1>. QED BY <1>2, <1>3, <1>4, <1>5, CommitKnown, RequestKnown DEF Next

\* An application shows the resume of the analysis whose score it shows, unless a
\* PATCH named a link, a POST named several, or its listing was scored anew.
THEOREM LinksAlwaysAgree == Spec => []LinksAgree
<1>1. Init => AllLooked /\ LinksKnown
  <2>. SUFFICES ASSUME Init PROVE AllLooked /\ LinksKnown
    OBVIOUS
  <2>1. \A s \in Sessions : session[s] = Free
    BY DEF Init
  <2>2. \A i \in Apps : Shows(i) = {None} /\ app[i].listing = None
    BY <2>1, Records DEF Init, Shows, Scores, Touching
  <2>. QED BY <2>1, <2>2, Records DEF AllLooked, Looked, LinksKnown, Coherent
<1>2. TypeOK /\ LinksKnown => LinksAgree
  <2>. SUFFICES ASSUME TypeOK, LinksKnown, NEW i \in Stored,
                       app[i].resume # 0, app[i].analysis # None, i \notin Relinked
                PROVE  \/ resumes[app[i].resume] = app[i].analysis
                       \/ {app[i].analysis, resumes[app[i].resume]} \cap rescored # {}
    BY DEF LinksAgree, Relinked
  <2>1. app[i].resume \in 1..Len(resumes)
    BY TrackerAssumption DEF TypeOK, AppRow, Stored
  <2>2. resumes[app[i].resume] # None
    BY <2>1, TrackerAssumption DEF TypeOK
  <2>3. app[i].analysis \in Shows(i) /\ resumes[app[i].resume] \in Shows(i)
    BY DEF Shows, Scores
  <2>4. Coherent(Shows(i), app[i].listing, scored, rescored)
    BY DEF LinksKnown, Stored
  <2>. QED BY <2>2, <2>3, <2>4 DEF Coherent
<1>. QED BY <1>1, <1>2, NextLooked, NextLinksKnown, TypeCorrect, PTL DEF Spec
=============================================================================
