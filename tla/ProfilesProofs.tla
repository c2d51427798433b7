--------------------------- MODULE ProfilesProofs ----------------------------
(***************************************************************************)
(* Theorems about Profiles for every set of sessions, texts and proof      *)
(* points and every bound.                                                 *)
(***************************************************************************)
EXTENDS Profiles, WellFoundedInduction, TLAPS

----------------------------------------------------------------------------
(* Type correctness, and what the place of a request says of it.           *)

\* The profiles a tailoring has at hand: none but the one it works with.
AtHand(x) ==
  /\ x.pc = "baseline" => \E i \in 0..NoAnalysis : x.todo = {i} /\ i # NoAnalysis
  /\ x.pc \in {"points", "draft"} => \E i \in Ids : x.todo = {i}

\* The places of each operation, and what a request there has read and locked.
Place(x) ==
  /\ x.pc = "free" => x = Free
  /\ x.op = "none" => x.pc = "free"
  /\ x.op = "create" => x.pc \in {"clear", "commit", "file", "path"}
  /\ x.op = "update" => x.pc \in {"clear", "commit"}
  /\ x.op = "structure" => x.pc \in {"llm", "commit"}
  /\ x.op \in {"delete", "point"} => x.pc = "commit"
  /\ x.op = "evaluate" => x.pc = "llm"
  /\ x.op = "tailor" => x.pc \in {"baseline", "points", "draft"}
  /\ x.op \notin {"none", "point"} => x.id \in Ids
  /\ x.pc = "clear" => x.flag = "on" /\ x.todo \subseteq Ids
  /\ x.pc = "commit" => x.todo = {}
  /\ x.flag = "on" => x.op \in {"create", "update"}
  /\ x.locks # {} => x.pc \in {"clear", "commit"} /\ x.flag = "on"
  /\ x.op = "structure" => x.text = Keep /\ x.structured # Keep /\ x.todo = {}
  /\ x.op \in {"create", "update"} => x.structured = Keep
  /\ AtHand(x)

AllPlaced == \A s \in Sessions : Place(session[s])
Shape == TypeOK /\ AllPlaced

LEMMA RowTypes ==
  /\ NoRow \in ProfileRow
  /\ FirstText \in Texts
  /\ Free \in SessionRow /\ Free.pc = "free" /\ Free.op = "none"
  /\ Free.locks = {} /\ Free.todo = {} /\ Free.flag = "keep"
  /\ Place(Free)
<1>1. NoRow \in ProfileRow
  BY DEF NoRow, ProfileRow
<1>2. FirstText \in Texts
  BY ProfilesAssumption DEF FirstText
<1>3. Free = [pc |-> "free", op |-> "none", id |-> Global, seen |-> NoRow,
              text |-> Keep, flag |-> "keep", structured |-> Keep, todo |-> {},
              locks |-> {}, points |-> {}]
  BY DEF Free, Request
<1>4. Free \in SessionRow
  BY <1>1, <1>3 DEF SessionRow, Global, Places, Operations
<1>. QED BY <1>1, <1>2, <1>3, <1>4 DEF Place, AtHand

\* A request that arrives.
LEMMA ArriveShape ==
  ASSUME TypeOK, NEW s \in Sessions, NEW request, Arrive(s, request)
  PROVE  /\ session[s] = Free /\ session'[s] = request
         /\ \A t \in Sessions : t # s => session'[t] = session[t]
         /\ requests' \in 0..MaxRequests /\ restarts' \in 0..MaxRestarts
         /\ request \in SessionRow => session' \in [Sessions -> SessionRow]
BY ProfilesAssumption DEF Arrive, Idle, TypeOK

\* A request that ends.
LEMMA EndShape ==
  ASSUME TypeOK, NEW s \in Sessions, End(s)
  PROVE  /\ session'[s] = Free
         /\ \A t \in Sessions : t # s => session'[t] = session[t]
         /\ session' \in [Sessions -> SessionRow]
BY RowTypes DEF End, TypeOK

LEMMA MeetsType ==
  ASSUME TypeOK, NEW s \in Sessions, Meets(s)
  PROVE  mixed' \subseteq Sessions
BY DEF Meets, TypeOK

LEMMA RequestRow ==
  ASSUME NEW op \in Operations, NEW i \in Ids \cup {Global}, NEW seen \in ProfileRow,
         NEW r, r = Request(op, i, seen)
  PROVE  /\ r \in SessionRow
         /\ r.pc = "commit" /\ r.op = op /\ r.id = i /\ r.seen = seen
         /\ r.text = Keep /\ r.flag = "keep" /\ r.structured = Keep
         /\ r.todo = {} /\ r.locks = {} /\ r.points = {}
<1>1. "commit" \in Places
  BY DEF Places
<1>. QED BY <1>1 DEF Request, SessionRow

LEMMA SetOnlyDefaultRow ==
  ASSUME NEW x \in SessionRow, NEW others \in SUBSET Ids, NEW r, r = SetOnlyDefault(x, others)
  PROVE  /\ r \in SessionRow
         /\ r.op = x.op /\ r.id = x.id /\ r.seen = x.seen /\ r.text = x.text
         /\ r.flag = x.flag /\ r.structured = x.structured /\ r.locks = x.locks
         /\ r.points = x.points
         /\ r.pc = IF x.flag = "on" THEN "clear" ELSE x.pc
         /\ r.todo = IF x.flag = "on" THEN others ELSE x.todo
<1>1. "clear" \in Places
  BY DEF Places
<1>2. others \in SUBSET (0..NoAnalysis)
  BY ProfilesAssumption DEF Ids, NoAnalysis
<1>. QED BY <1>1, <1>2 DEF SetOnlyDefault, SessionRow

\* Session s has begun a request of that operation about profile i.
Arrived(s, op, i) ==
  /\ session[s] = Free
  /\ session'[s].op = op /\ session'[s].id = i /\ session'[s].locks = {}
  /\ \A t \in Sessions : t # s => session'[t] = session[t]

LEMMA CreateFlushShape ==
  ASSUME Shape, NEW s \in Sessions, NEW flag \in {"on", "off"}, NEW upload \in BOOLEAN,
         CreateFlush(s, flag, upload)
  PROVE  /\ Shape' /\ serial + 1 \in Ids /\ Arrived(s, "create", serial + 1)
         /\ session'[s].flag = flag
         /\ session'[s].pc = IF flag = "on" THEN "clear" ELSE "commit"
         /\ session'[s].todo = IF flag = "on" THEN Stored ELSE {}
<1>1. PICK i : i = serial + 1 /\ i \in Ids /\ serial' = i
  BY ProfilesAssumption DEF CreateFlush, Shape, TypeOK, Ids
<1>0. PICK others : others = Stored /\ others \in SUBSET Ids
  BY DEF Stored
<1>2. PICK q : q = Request("create", i, NoRow)
  OBVIOUS
<1>3. PICK x : x = [q EXCEPT !.flag = flag]
  OBVIOUS
<1>4. PICK r : r = SetOnlyDefault(x, others) /\ Arrive(s, r)
  BY <1>0, <1>1, <1>2, <1>3 DEF CreateFlush
<1>5. /\ q \in SessionRow /\ q.pc = "commit" /\ q.op = "create" /\ q.id = i
      /\ q.text = Keep /\ q.structured = Keep /\ q.todo = {} /\ q.locks = {}
  BY <1>1, <1>2, RequestRow, RowTypes DEF Operations
<1>6. /\ x \in SessionRow /\ x.pc = "commit" /\ x.op = "create" /\ x.id = i
      /\ x.text = Keep /\ x.flag = flag /\ x.structured = Keep /\ x.todo = {} /\ x.locks = {}
  BY <1>3, <1>5 DEF SessionRow
<1>7. /\ r \in SessionRow /\ r.op = "create" /\ r.id = i /\ r.locks = {} /\ r.flag = flag
      /\ r.structured = Keep
      /\ r.pc = IF flag = "on" THEN "clear" ELSE "commit"
      /\ r.todo = IF flag = "on" THEN others ELSE {}
  <2>0. x \in SessionRow /\ others \in SUBSET Ids /\ r = SetOnlyDefault(x, others)
    BY <1>0, <1>4, <1>6
  <2>1. /\ r \in SessionRow /\ r.op = x.op /\ r.id = x.id /\ r.flag = x.flag
        /\ r.structured = x.structured /\ r.locks = x.locks
        /\ r.pc = IF x.flag = "on" THEN "clear" ELSE x.pc
        /\ r.todo = IF x.flag = "on" THEN others ELSE x.todo
    BY <2>0, SetOnlyDefaultRow
  <2>. QED BY <1>6, <2>1
<1>8. Place(r)
  BY <1>0, <1>1, <1>7 DEF Place, AtHand
<1>9. TypeOK'
  <2>1. /\ session' \in [Sessions -> SessionRow]
        /\ requests' \in 0..MaxRequests /\ restarts' \in 0..MaxRestarts
    BY <1>4, <1>7, ArriveShape DEF Shape
  <2>2. mixed' \subseteq Sessions /\ uploaded' \subseteq Ids /\ serial' \in 0..MaxProfiles
    BY <1>1, MeetsType DEF CreateFlush, Shape, TypeOK, Ids
  <2>. QED BY <2>1, <2>2 DEF Shape, TypeOK, CreateFlush
<1>10. /\ session[s] = Free /\ session'[s] = r
       /\ \A t \in Sessions : t # s => session'[t] = session[t]
  BY <1>4, ArriveShape DEF Shape
<1>11. AllPlaced'
  BY <1>8, <1>10 DEF Shape, AllPlaced
<1>. QED BY <1>0, <1>1, <1>7, <1>9, <1>10, <1>11 DEF Shape, Arrived

LEMMA UpdateReadShape ==
  ASSUME Shape, NEW s \in Sessions, NEW i \in Ids, NEW text \in Texts \cup {Keep},
         NEW flag \in {"keep", "on", "off"}, UpdateRead(s, i, text, flag)
  PROVE  /\ Shape' /\ Arrived(s, "update", i)
         /\ session'[s].flag = flag /\ session'[s].seen = profile[i]
         /\ session'[s].pc \in {"clear", "commit"}
         /\ flag = "on" =>
              session'[s].pc = "clear" /\ session'[s].todo = Stored \ {i}
<1>1. profile[i] \in ProfileRow
  BY DEF Shape, TypeOK
<1>0. PICK others : others = Stored \ {i} /\ others \in SUBSET Ids
  BY DEF Stored
<1>2. PICK q : q = Request("update", i, profile[i])
  OBVIOUS
<1>3. PICK x : x = [q EXCEPT !.text = text, !.flag = flag]
  OBVIOUS
<1>4. PICK r : r = SetOnlyDefault(x, others) /\ Arrive(s, r)
  BY <1>0, <1>2, <1>3 DEF UpdateRead
<1>5. /\ q \in SessionRow /\ q.pc = "commit" /\ q.op = "update" /\ q.id = i
      /\ q.seen = profile[i] /\ q.structured = Keep /\ q.todo = {} /\ q.locks = {}
  BY <1>1, <1>2, RequestRow DEF Operations
<1>6. /\ x \in SessionRow /\ x.pc = "commit" /\ x.op = "update" /\ x.id = i
      /\ x.seen = profile[i] /\ x.flag = flag /\ x.structured = Keep /\ x.todo = {}
      /\ x.locks = {}
  BY <1>3, <1>5 DEF SessionRow
<1>7. /\ r \in SessionRow /\ r.op = "update" /\ r.id = i /\ r.locks = {} /\ r.flag = flag
      /\ r.seen = profile[i] /\ r.structured = Keep
      /\ r.pc = IF flag = "on" THEN "clear" ELSE "commit"
      /\ r.todo = IF flag = "on" THEN others ELSE {}
  BY <1>0, <1>4, <1>6, SetOnlyDefaultRow
<1>8. Place(r)
  BY <1>0, <1>7 DEF Place, AtHand
<1>9. TypeOK'
  <2>1. /\ session' \in [Sessions -> SessionRow]
        /\ requests' \in 0..MaxRequests /\ restarts' \in 0..MaxRestarts
    BY <1>4, <1>7, ArriveShape DEF Shape
  <2>. QED BY <2>1, MeetsType DEF Shape, TypeOK, UpdateRead, rows
<1>10. /\ session[s] = Free /\ session'[s] = r
       /\ \A t \in Sessions : t # s => session'[t] = session[t]
  BY <1>4, ArriveShape DEF Shape
<1>11. AllPlaced'
  BY <1>8, <1>10 DEF Shape, AllPlaced
<1>. QED BY <1>0, <1>7, <1>9, <1>10, <1>11 DEF Shape, Arrived

LEMMA StructureReadShape ==
  ASSUME Shape, NEW s \in Sessions, NEW i \in Ids, NEW data \in {"none", "manual"},
         StructureRead(s, i, data)
  PROVE  /\ Shape' /\ Arrived(s, "structure", i)
         /\ session'[s].pc = "commit" /\ session'[s].flag = "keep"
         /\ session'[s].seen = profile[i] /\ session'[s].structured = data
<1>1. profile[i] \in ProfileRow
  BY DEF Shape, TypeOK
<1>2. PICK q : q = Request("structure", i, profile[i])
  OBVIOUS
<1>3. PICK r : r = [q EXCEPT !.structured = data] /\ Arrive(s, r)
  BY <1>2 DEF StructureRead
<1>4. /\ q \in SessionRow /\ q.pc = "commit" /\ q.op = "structure" /\ q.id = i
      /\ q.seen = profile[i] /\ q.text = Keep /\ q.flag = "keep" /\ q.todo = {}
      /\ q.locks = {}
  BY <1>1, <1>2, RequestRow DEF Operations
<1>5. /\ r \in SessionRow /\ r.pc = "commit" /\ r.op = "structure" /\ r.id = i
      /\ r.seen = profile[i] /\ r.text = Keep /\ r.flag = "keep" /\ r.todo = {}
      /\ r.locks = {} /\ r.structured = data
  BY <1>3, <1>4 DEF SessionRow
<1>6. Place(r)
  BY <1>5, ProfilesAssumption DEF Place, AtHand
<1>7. TypeOK'
  <2>1. /\ session' \in [Sessions -> SessionRow]
        /\ requests' \in 0..MaxRequests /\ restarts' \in 0..MaxRestarts
    BY <1>3, <1>5, ArriveShape DEF Shape
  <2>. QED BY <2>1, MeetsType DEF Shape, TypeOK, StructureRead, rows
<1>8. /\ session[s] = Free /\ session'[s] = r
      /\ \A t \in Sessions : t # s => session'[t] = session[t]
  BY <1>3, ArriveShape DEF Shape
<1>9. AllPlaced'
  BY <1>6, <1>8 DEF Shape, AllPlaced
<1>. QED BY <1>5, <1>7, <1>8, <1>9 DEF Shape, Arrived

LEMMA ExtractReadShape ==
  ASSUME Shape, NEW s \in Sessions, NEW i \in Ids, profile[i].text \in Texts,
         ExtractRead(s, i)
  PROVE  /\ Shape' /\ Arrived(s, "structure", i)
         /\ session'[s].pc = "llm" /\ session'[s].flag = "keep"
         /\ session'[s].seen = profile[i] /\ session'[s].structured = profile[i].text
<1>1. profile[i] \in ProfileRow
  BY DEF Shape, TypeOK
<1>2. PICK q : q = Request("structure", i, profile[i])
  OBVIOUS
<1>3. PICK r : r = [q EXCEPT !.structured = profile[i].text, !.pc = "llm"] /\ Arrive(s, r)
  BY <1>2 DEF ExtractRead
<1>4. /\ q \in SessionRow /\ q.op = "structure" /\ q.id = i
      /\ q.seen = profile[i] /\ q.text = Keep /\ q.flag = "keep" /\ q.todo = {}
      /\ q.locks = {}
  BY <1>1, <1>2, RequestRow DEF Operations
<1>5. /\ r \in SessionRow /\ r.pc = "llm" /\ r.op = "structure" /\ r.id = i
      /\ r.seen = profile[i] /\ r.text = Keep /\ r.flag = "keep" /\ r.todo = {}
      /\ r.locks = {} /\ r.structured = profile[i].text
  BY <1>3, <1>4 DEF SessionRow, Places
<1>6. Place(r)
  BY <1>5, ProfilesAssumption DEF Place, AtHand
<1>7. TypeOK'
  <2>1. /\ session' \in [Sessions -> SessionRow]
        /\ requests' \in 0..MaxRequests /\ restarts' \in 0..MaxRestarts
    BY <1>3, <1>5, ArriveShape DEF Shape
  <2>. QED BY <2>1, MeetsType DEF Shape, TypeOK, ExtractRead, rows
<1>8. /\ session[s] = Free /\ session'[s] = r
      /\ \A t \in Sessions : t # s => session'[t] = session[t]
  BY <1>3, ArriveShape DEF Shape
<1>9. AllPlaced'
  BY <1>6, <1>8 DEF Shape, AllPlaced
<1>. QED BY <1>5, <1>7, <1>8, <1>9 DEF Shape, Arrived

LEMMA DeleteReadShape ==
  ASSUME Shape, NEW s \in Sessions, NEW i \in Ids, DeleteRead(s, i)
  PROVE  /\ Shape' /\ Arrived(s, "delete", i)
         /\ session'[s].pc = "commit" /\ session'[s].flag = "keep"
<1>1. profile[i] \in ProfileRow
  BY DEF Shape, TypeOK
<1>2. PICK r : r = Request("delete", i, profile[i]) /\ Arrive(s, r)
  BY DEF DeleteRead
<1>3. /\ r \in SessionRow /\ r.pc = "commit" /\ r.op = "delete" /\ r.id = i
      /\ r.flag = "keep" /\ r.todo = {} /\ r.locks = {}
  BY <1>1, <1>2, RequestRow DEF Operations
<1>4. Place(r)
  BY <1>3 DEF Place, AtHand
<1>5. TypeOK'
  <2>1. /\ session' \in [Sessions -> SessionRow]
        /\ requests' \in 0..MaxRequests /\ restarts' \in 0..MaxRestarts
    BY <1>2, <1>3, ArriveShape DEF Shape
  <2>. QED BY <2>1, MeetsType DEF Shape, TypeOK, DeleteRead, rows
<1>6. /\ session[s] = Free /\ session'[s] = r
      /\ \A t \in Sessions : t # s => session'[t] = session[t]
  BY <1>2, ArriveShape DEF Shape
<1>7. AllPlaced'
  BY <1>4, <1>6 DEF Shape, AllPlaced
<1>. QED BY <1>3, <1>5, <1>6, <1>7 DEF Shape, Arrived

LEMMA PointReadShape ==
  ASSUME Shape, NEW s \in Sessions, NEW q \in Points, NEW i \in Ids \cup {Global},
         PointRead(s, q, i)
  PROVE  /\ Shape' /\ Arrived(s, "point", i)
         /\ session'[s].pc = "commit" /\ session'[s].flag = "keep"
         /\ session'[s].points = {<<q, point[q]>>}
<1>1. PICK x : x = Request("point", i, NoRow)
  OBVIOUS
<1>2. PICK r : r = [x EXCEPT !.points = {<<q, point[q]>>}] /\ Arrive(s, r)
  BY <1>1 DEF PointRead
<1>3. /\ x \in SessionRow /\ x.pc = "commit" /\ x.op = "point" /\ x.id = i
      /\ x.flag = "keep" /\ x.todo = {} /\ x.locks = {}
  BY <1>1, RequestRow, RowTypes DEF Operations
<1>4. {<<q, point[q]>>} \in SUBSET Evidence
  BY DEF Evidence, Shape, TypeOK
<1>5. /\ r \in SessionRow /\ r.pc = "commit" /\ r.op = "point" /\ r.id = i
      /\ r.flag = "keep" /\ r.todo = {} /\ r.locks = {} /\ r.points = {<<q, point[q]>>}
  BY <1>2, <1>3, <1>4 DEF SessionRow
<1>6. Place(r)
  BY <1>5 DEF Place, AtHand
<1>7. TypeOK'
  <2>1. /\ session' \in [Sessions -> SessionRow]
        /\ requests' \in 0..MaxRequests /\ restarts' \in 0..MaxRestarts
    BY <1>2, <1>5, ArriveShape DEF Shape
  <2>. QED BY <2>1 DEF Shape, TypeOK, PointRead, rows, history
<1>8. /\ session[s] = Free /\ session'[s] = r
      /\ \A t \in Sessions : t # s => session'[t] = session[t]
  BY <1>2, ArriveShape DEF Shape
<1>9. AllPlaced'
  BY <1>6, <1>8 DEF Shape, AllPlaced
<1>. QED BY <1>5, <1>7, <1>8, <1>9 DEF Shape, Arrived

LEMMA EvaluateReadShape ==
  ASSUME Shape, NEW s \in Sessions, NEW i \in Ids, EvaluateRead(s, i)
  PROVE  /\ Shape' /\ Arrived(s, "evaluate", i)
         /\ session'[s].pc = "llm" /\ session'[s].flag = "keep"
<1>1. profile[i] \in ProfileRow
  BY DEF Shape, TypeOK
<1>2. PICK x : x = Request("evaluate", i, profile[i])
  OBVIOUS
<1>3. PICK r : r = [x EXCEPT !.pc = "llm"] /\ Arrive(s, r)
  BY <1>2 DEF EvaluateRead
<1>4. /\ x \in SessionRow /\ x.op = "evaluate" /\ x.id = i
      /\ x.flag = "keep" /\ x.todo = {} /\ x.locks = {}
  BY <1>1, <1>2, RequestRow DEF Operations
<1>5. /\ r \in SessionRow /\ r.pc = "llm" /\ r.op = "evaluate" /\ r.id = i
      /\ r.flag = "keep" /\ r.todo = {} /\ r.locks = {}
  BY <1>3, <1>4 DEF SessionRow, Places
<1>6. Place(r)
  BY <1>5 DEF Place, AtHand
<1>7. TypeOK'
  <2>1. /\ session' \in [Sessions -> SessionRow]
        /\ requests' \in 0..MaxRequests /\ restarts' \in 0..MaxRestarts
    BY <1>3, <1>5, ArriveShape DEF Shape
  <2>. QED BY <2>1 DEF Shape, TypeOK, EvaluateRead, rows, history
<1>8. /\ session[s] = Free /\ session'[s] = r
      /\ \A t \in Sessions : t # s => session'[t] = session[t]
  BY <1>3, ArriveShape DEF Shape
<1>9. AllPlaced'
  BY <1>6, <1>8 DEF Shape, AllPlaced
<1>. QED BY <1>5, <1>7, <1>8, <1>9 DEF Shape, Arrived

LEMMA TailorReadShape ==
  ASSUME Shape, NEW s \in Sessions, NEW a \in Ids, TailorRead(s, a)
  PROVE  /\ Shape' /\ Arrived(s, "tailor", a)
         /\ session'[s].pc = "baseline" /\ session'[s].flag = "keep"
         /\ session'[s].todo = {analysis[a]} /\ analysis[a] # NoAnalysis
<1>1. analysis[a] \in 0..NoAnalysis /\ analysis[a] # NoAnalysis
  BY DEF Shape, TypeOK, TailorRead
<1>2. PICK x : x = Request("tailor", a, NoRow)
  OBVIOUS
<1>3. PICK r : r = [x EXCEPT !.pc = "baseline", !.todo = {analysis[a]}] /\ Arrive(s, r)
  BY <1>2 DEF TailorRead
<1>4. /\ x \in SessionRow /\ x.op = "tailor" /\ x.id = a
      /\ x.flag = "keep" /\ x.locks = {}
  BY <1>2, RequestRow, RowTypes DEF Operations
<1>5. /\ r \in SessionRow /\ r.pc = "baseline" /\ r.op = "tailor" /\ r.id = a
      /\ r.flag = "keep" /\ r.todo = {analysis[a]} /\ r.locks = {}
  BY <1>1, <1>3, <1>4 DEF SessionRow, Places
<1>6. Place(r)
  BY <1>1, <1>5 DEF Place, AtHand
<1>7. TypeOK'
  <2>1. /\ session' \in [Sessions -> SessionRow]
        /\ requests' \in 0..MaxRequests /\ restarts' \in 0..MaxRestarts
    BY <1>3, <1>5, ArriveShape DEF Shape
  <2>. QED BY <2>1 DEF Shape, TypeOK, TailorRead, rows, history
<1>8. /\ session[s] = Free /\ session'[s] = r
      /\ \A t \in Sessions : t # s => session'[t] = session[t]
  BY <1>3, ArriveShape DEF Shape
<1>9. AllPlaced'
  BY <1>6, <1>8 DEF Shape, AllPlaced
<1>. QED BY <1>1, <1>5, <1>7, <1>8, <1>9 DEF Shape, Arrived

\* Session s goes on with its request; the others stay where they are.
Goes(s) ==
  /\ session'[s].op = session[s].op /\ session'[s].id = session[s].id
  /\ session'[s].flag = session[s].flag /\ session'[s].seen = session[s].seen
  /\ session'[s].structured = session[s].structured
  /\ \A t \in Sessions : t # s => session'[t] = session[t]

\* Session s has ended its request.
Ended(s) ==
  /\ session'[s] = Free
  /\ \A t \in Sessions : t # s => session'[t] = session[t]

LEMMA GoesShape ==
  ASSUME Shape, NEW s \in Sessions, NEW r \in SessionRow, Place(r),
         session' = [session EXCEPT ![s] = r]
  PROVE  /\ session' \in [Sessions -> SessionRow] /\ AllPlaced'
         /\ session'[s] = r
         /\ \A t \in Sessions : t # s => session'[t] = session[t]
BY DEF Shape, TypeOK, AllPlaced

LEMMA EndPlaced ==
  ASSUME Shape, NEW s \in Sessions, End(s)
  PROVE  session' \in [Sessions -> SessionRow] /\ AllPlaced' /\ Ended(s)
<1>1. session' = [session EXCEPT ![s] = Free]
  BY DEF End
<1>. QED BY <1>1, GoesShape, RowTypes DEF Ended

LEMMA ClearRowShape ==
  ASSUME Shape, NEW s \in Sessions, ClearRow(s)
  PROVE  /\ Shape' /\ Goes(s)
         /\ session[s].pc = "clear" /\ session'[s].pc = "clear"
         /\ \E i \in session[s].todo :
              /\ session'[s].todo = session[s].todo \ {i}
              /\ session'[s].locks =
                   IF Exists(i) THEN session[s].locks \cup {i} ELSE session[s].locks
<1>1. PICK x : x = session[s]
  OBVIOUS
<1>2. /\ x \in SessionRow /\ Place(x) /\ x.pc = "clear"
  BY <1>1 DEF Shape, TypeOK, AllPlaced, ClearRow
<1>3. PICK i \in x.todo :
        session' = [session EXCEPT
            ![s].todo = @ \ {i},
            ![s].locks = IF Exists(i) THEN @ \cup {i} ELSE @]
  BY <1>1 DEF ClearRow
<1>4. PICK locks : locks = IF Exists(i) THEN x.locks \cup {i} ELSE x.locks
  OBVIOUS
<1>5. PICK r : r = [x EXCEPT !.todo = @ \ {i}, !.locks = locks]
  OBVIOUS
<1>6. session' = [session EXCEPT ![s] = r]
  BY <1>1, <1>3, <1>4, <1>5 DEF Shape, TypeOK
<1>7. i \in Ids /\ x.todo \subseteq Ids /\ locks \in SUBSET Ids
  BY <1>2, <1>3, <1>4 DEF Place, SessionRow
<1>8. /\ r \in SessionRow /\ r.pc = "clear" /\ r.op = x.op /\ r.id = x.id
      /\ r.seen = x.seen /\ r.text = x.text /\ r.flag = x.flag
      /\ r.structured = x.structured /\ r.todo = x.todo \ {i} /\ r.locks = locks
  BY <1>2, <1>5, <1>7 DEF SessionRow
<1>9. Place(r)
  BY <1>2, <1>7, <1>8 DEF Place, AtHand
<1>10. /\ session' \in [Sessions -> SessionRow] /\ AllPlaced'
       /\ session'[s] = r /\ \A t \in Sessions : t # s => session'[t] = session[t]
  BY <1>6, <1>8, <1>9, GoesShape
<1>11. TypeOK'
  BY <1>10 DEF Shape, TypeOK, ClearRow, rows, history
<1>. QED BY <1>1, <1>2, <1>3, <1>4, <1>8, <1>10, <1>11 DEF Shape, Goes

\* A step that changes nothing but the place of session s.
LEMMA PlaceShape ==
  ASSUME Shape, NEW s \in Sessions, NEW pc \in Places,
         session' = [session EXCEPT ![s].pc = pc]
  PROVE  /\ session' \in [Sessions -> SessionRow] /\ Goes(s)
         /\ session'[s].pc = pc /\ session'[s].todo = session[s].todo
         /\ session'[s].locks = session[s].locks
         /\ session'[s].points = session[s].points /\ session'[s].text = session[s].text
         /\ Place(session'[s]) => AllPlaced'
<1>1. PICK r : r = [session[s] EXCEPT !.pc = pc]
  OBVIOUS
<1>2. /\ r \in SessionRow /\ r.pc = pc /\ r.op = session[s].op
      /\ r.id = session[s].id /\ r.flag = session[s].flag /\ r.seen = session[s].seen
      /\ r.structured = session[s].structured /\ r.todo = session[s].todo
      /\ r.locks = session[s].locks /\ r.points = session[s].points
      /\ r.text = session[s].text
  BY <1>1 DEF Shape, TypeOK, SessionRow
<1>3. session' = [session EXCEPT ![s] = r]
  BY <1>1 DEF Shape, TypeOK
<1>4. session' \in [Sessions -> SessionRow] /\ session'[s] = r
      /\ \A t \in Sessions : t # s => session'[t] = session[t]
  BY <1>2, <1>3 DEF Shape, TypeOK
<1>5. Place(r) => AllPlaced'
  BY <1>4 DEF Shape, AllPlaced
<1>. QED BY <1>2, <1>4, <1>5 DEF Goes

LEMMA ClearDoneShape ==
  ASSUME Shape, NEW s \in Sessions, ClearDone(s)
  PROVE  /\ Shape' /\ Goes(s)
         /\ session[s].pc = "clear" /\ session'[s].pc = "commit"
         /\ session[s].todo = {} /\ session'[s].todo = {}
         /\ session'[s].locks = session[s].locks
<1>1. "commit" \in Places /\ session[s].pc = "clear" /\ session[s].todo = {}
      /\ session' = [session EXCEPT ![s].pc = "commit"]
  BY DEF Places, ClearDone
<1>2. Place(session[s])
  BY DEF Shape, AllPlaced
<1>3. Place(session'[s])
  BY <1>1, <1>2, PlaceShape DEF Place, AtHand, Goes
<1>4. TypeOK'
  BY <1>1, PlaceShape DEF Shape, TypeOK, ClearDone, rows, history
<1>. QED BY <1>1, <1>3, <1>4, PlaceShape DEF Shape

LEMMA CommittedType ==
  ASSUME Shape, NEW s \in Sessions, NEW r \in ProfileRow, Committed(s, r)
  PROVE  profile' \in [Ids -> ProfileRow]
<1>1. \A i \in Ids : [profile[i] EXCEPT !.default = FALSE] \in ProfileRow
  BY DEF Shape, TypeOK, ProfileRow
<1>. QED BY <1>1 DEF Committed, Shape, TypeOK

LEMMA CreateCommitShape ==
  ASSUME Shape, NEW s \in Sessions, CreateCommit(s)
  PROVE  /\ Shape'
         /\ session[s].pc = "commit" /\ session[s].op = "create" /\ session[s].id \in Ids
         /\ session[s].todo = {}
         /\ IF session[s].id \in uploaded
            THEN Goes(s) /\ session'[s].pc = "file"
            ELSE Ended(s)
<1>1. /\ session[s].pc = "commit" /\ session[s].op = "create"
      /\ session[s] \in SessionRow /\ Place(session[s])
  BY DEF CreateCommit, Shape, TypeOK, AllPlaced
<1>2. session[s].id \in Ids /\ session[s].todo = {}
  BY <1>1 DEF Place
<1>3. profile' \in [Ids -> ProfileRow]
  <2>1. PICK r : r = [NoRow EXCEPT !.text = FirstText, !.default = (session[s].flag = "on")]
    OBVIOUS
  <2>2. r \in ProfileRow
    BY <2>1, RowTypes DEF ProfileRow
  <2>. QED BY <2>1, <2>2, CommittedType DEF CreateCommit
<1>4. /\ session' \in [Sessions -> SessionRow] /\ AllPlaced'
      /\ IF session[s].id \in uploaded
         THEN Goes(s) /\ session'[s].pc = "file"
         ELSE Ended(s)
  <2>1. CASE session[s].id \notin uploaded
    BY <2>1, EndPlaced DEF CreateCommit
  <2>2. CASE session[s].id \in uploaded
    <3>1. PICK r : r = [session[s] EXCEPT !.pc = "file", !.locks = {}]
      OBVIOUS
    <3>2. /\ r \in SessionRow /\ r.pc = "file" /\ r.op = "create" /\ r.id = session[s].id
          /\ r.flag = session[s].flag /\ r.seen = session[s].seen
          /\ r.structured = session[s].structured /\ r.todo = {} /\ r.locks = {}
      BY <1>1, <1>2, <3>1 DEF SessionRow, Places
    <3>3. session' = [session EXCEPT ![s] = r]
      BY <2>2, <3>1 DEF Shape, TypeOK, CreateCommit
    <3>4. Place(r)
      BY <1>1, <1>2, <3>2 DEF Place, AtHand
    <3>. QED BY <1>1, <2>2, <3>2, <3>3, <3>4, GoesShape DEF Goes
  <2>. QED BY <2>1, <2>2
<1>5. TypeOK'
  BY <1>3, <1>4 DEF Shape, TypeOK, CreateCommit, history
<1>. QED BY <1>1, <1>2, <1>4, <1>5 DEF Shape

LEMMA SaveFileShape ==
  ASSUME Shape, NEW s \in Sessions, SaveFile(s)
  PROVE  /\ Shape' /\ session[s].id \in Ids /\ session[s].pc = "file"
         /\ \/ Goes(s) /\ session'[s].pc = "path" /\ cut' = cut
               /\ file' = file \cup {session[s].id}
            \/ Ended(s) /\ cut' = cut \cup {session[s].id} /\ file' = file
<1>1. /\ "path" \in Places /\ session[s].pc = "file" /\ Place(session[s])
      /\ session[s] \in SessionRow
  BY DEF Places, SaveFile, Shape, AllPlaced, TypeOK
<1>2. session[s].op = "create" /\ session[s].id \in Ids
  BY <1>1 DEF Place, SessionRow, Operations
<1>3. CASE session' = [session EXCEPT ![s].pc = "path"] /\ cut' = cut
           /\ file' = file \cup {session[s].id}
  <2>1. Place(session'[s])
    BY <1>1, <1>2, <1>3, PlaceShape DEF Place, AtHand, Goes
  <2>2. TypeOK'
    BY <1>1, <1>2, <1>3, PlaceShape DEF Shape, TypeOK, SaveFile
  <2>. QED BY <1>1, <1>2, <1>3, <2>1, <2>2, PlaceShape DEF Shape
<1>4. CASE End(s) /\ cut' = cut \cup {session[s].id} /\ file' = file
  <2>1. TypeOK'
    BY <1>2, <1>4, EndPlaced DEF Shape, TypeOK, SaveFile
  <2>. QED BY <1>1, <1>2, <1>4, <2>1, EndPlaced DEF Shape
<1>. QED BY <1>3, <1>4 DEF SaveFile

LEMMA SavePathShape ==
  ASSUME Shape, NEW s \in Sessions, SavePath(s)
  PROVE  /\ Shape' /\ Ended(s) /\ session[s].id \in Ids
         /\ session[s].pc = "path" /\ session[s].op = "create"
<1>1. /\ session[s].pc = "path" /\ Place(session[s]) /\ session[s] \in SessionRow
      /\ End(s)
  BY DEF SavePath, Shape, AllPlaced, TypeOK
<1>2. session[s].op = "create" /\ session[s].id \in Ids
  BY <1>1 DEF Place, SessionRow, Operations
<1>3. profile' \in [Ids -> ProfileRow]
  <2>1. PICK r : r = [profile[session[s].id] EXCEPT !.pdf = TRUE]
    OBVIOUS
  <2>0. profile[session[s].id] \in ProfileRow
    BY <1>2 DEF Shape, TypeOK
  <2>2. r \in ProfileRow
    BY <2>0, <2>1 DEF ProfileRow
  <2>3. profile' = [profile EXCEPT ![session[s].id] = r] \/ profile' = profile
    BY <1>2, <2>1 DEF SavePath, Shape, TypeOK
  <2>. QED BY <1>2, <2>2, <2>3 DEF Shape, TypeOK
<1>4. TypeOK'
  BY <1>1, <1>3, EndPlaced DEF Shape, TypeOK, SavePath, history
<1>. QED BY <1>1, <1>2, <1>4, EndPlaced DEF Shape

LEMMA ExtractAnswerShape ==
  ASSUME Shape, NEW s \in Sessions, ExtractAnswer(s)
  PROVE  /\ Shape' /\ session[s].pc = "llm" /\ session[s].op = "structure"
         /\ \/ Goes(s) /\ session'[s].pc = "commit" /\ session'[s].locks = session[s].locks
            \/ Ended(s)
<1>1. /\ session[s].pc = "llm" /\ session[s].op = "structure" /\ Place(session[s])
      /\ "commit" \in Places
  BY DEF ExtractAnswer, Shape, AllPlaced, Places
<1>2. CASE session' = [session EXCEPT ![s].pc = "commit"]
  <2>1. Place(session'[s])
    BY <1>1, <1>2, PlaceShape DEF Place, AtHand, Goes
  <2>2. TypeOK'
    BY <1>1, <1>2, PlaceShape DEF Shape, TypeOK, ExtractAnswer, rows, history
  <2>. QED BY <1>1, <1>2, <2>1, <2>2, PlaceShape DEF Shape
<1>3. CASE End(s)
  <2>1. TypeOK'
    BY <1>1, <1>3, EndPlaced DEF Shape, TypeOK, ExtractAnswer, rows, history
  <2>. QED BY <1>1, <1>3, <2>1, EndPlaced DEF Shape
<1>. QED BY <1>2, <1>3 DEF ExtractAnswer

\* The row r is cur with the columns written that differ from what x has read.
IsWritten(r, cur, x) ==
  /\ r \in ProfileRow /\ r.pdf = cur.pdf
  /\ r.text = IF x.text \in {Keep, x.seen.text} THEN cur.text ELSE x.text
  /\ r.default = IF x.flag = "on" /\ ~x.seen.default THEN TRUE
                 ELSE IF x.flag = "off" /\ x.seen.default THEN FALSE ELSE cur.default
  /\ r.structured = IF x.structured \in {Keep, x.seen.structured}
                    THEN cur.structured ELSE x.structured

LEMMA WrittenRow ==
  ASSUME NEW cur \in ProfileRow, NEW x \in SessionRow
  PROVE  IsWritten(Written(cur, x), cur, x)
<1>0. PICK r : r = Written(cur, x)
  OBVIOUS
<1>1. PICK a : a = IF x.text \in {Keep, x.seen.text} THEN cur.text ELSE x.text
  OBVIOUS
<1>2. PICK b : b = IF x.flag = "on" /\ ~x.seen.default THEN TRUE
                   ELSE IF x.flag = "off" /\ x.seen.default THEN FALSE ELSE cur.default
  OBVIOUS
<1>3. PICK c : c = IF x.structured \in {Keep, x.seen.structured}
                   THEN cur.structured ELSE x.structured
  OBVIOUS
<1>4. r = [cur EXCEPT !.text = a, !.default = b, !.structured = c]
  BY <1>0, <1>1, <1>2, <1>3 DEF Written, ProfileRow
<1>5. /\ a \in Texts \cup {Keep} /\ b \in BOOLEAN
      /\ c \in Texts \cup {"none", "manual"}
  BY <1>1, <1>2, <1>3 DEF ProfileRow, SessionRow
<1>6. /\ r \in ProfileRow /\ r.pdf = cur.pdf /\ r.text = a /\ r.default = b
      /\ r.structured = c
  BY <1>4, <1>5 DEF ProfileRow
<1>. QED BY <1>0, <1>1, <1>2, <1>3, <1>6 DEF IsWritten

LEMMA ChangeCommitShape ==
  ASSUME Shape, NEW s \in Sessions, ChangeCommit(s)
  PROVE  /\ Shape' /\ Ended(s) /\ session[s].id \in Ids /\ session[s].todo = {}
         /\ session[s].pc = "commit" /\ session[s].op \in {"update", "structure"}
<1>1. /\ session[s].pc = "commit" /\ session[s].op \in {"update", "structure"}
      /\ session[s] \in SessionRow /\ Place(session[s]) /\ End(s)
  BY DEF ChangeCommit, Shape, TypeOK, AllPlaced
<1>2. session[s].id \in Ids /\ session[s].todo = {}
  BY <1>1 DEF Place
<1>3. profile' \in [Ids -> ProfileRow]
  <2>1. profile[session[s].id] \in ProfileRow /\ profile \in [Ids -> ProfileRow]
    BY <1>2 DEF Shape, TypeOK
  <2>2. Written(profile[session[s].id], session[s]) \in ProfileRow
    BY <1>1, <2>1, WrittenRow DEF IsWritten
  <2>. QED BY <2>1, <2>2, CommittedType DEF ChangeCommit
<1>4. TypeOK'
  BY <1>1, <1>3, EndPlaced DEF Shape, TypeOK, ChangeCommit, history
<1>. QED BY <1>1, <1>2, <1>4, EndPlaced DEF Shape

LEMMA DeleteCommitShape ==
  ASSUME Shape, NEW s \in Sessions, DeleteCommit(s)
  PROVE  /\ Shape' /\ Ended(s) /\ session[s].id \in Ids
         /\ session[s].pc = "commit" /\ session[s].op = "delete"
<1>1. /\ session[s].pc = "commit" /\ session[s].op = "delete"
      /\ Place(session[s]) /\ End(s)
  BY DEF DeleteCommit, Shape, AllPlaced
<1>2. session[s].id \in Ids
  BY <1>1 DEF Place
<1>3. profile' \in [Ids -> ProfileRow]
  BY <1>2, RowTypes DEF DeleteCommit, Shape, TypeOK
<1>4. point' \in [Points -> 0..NoPoint] /\ analysis' \in [Ids -> 0..NoAnalysis]
  BY <1>2, ProfilesAssumption DEF DeleteCommit, Shape, TypeOK, Global, NoPoint, NoAnalysis
<1>5. TypeOK'
  BY <1>1, <1>2, <1>3, <1>4, EndPlaced DEF Shape, TypeOK, DeleteCommit
<1>. QED BY <1>1, <1>2, <1>5, EndPlaced DEF Shape

LEMMA PointCommitShape ==
  ASSUME Shape, NEW s \in Sessions, PointCommit(s)
  PROVE  /\ Shape' /\ Ended(s)
         /\ session[s].pc = "commit" /\ session[s].op = "point"
         /\ \/ UNCHANGED <<point, given>>
            \/ \E q, i : /\ point' = [point EXCEPT ![q] = i]
                         /\ given' = [given EXCEPT ![q] = i]
<1>1. /\ session[s].pc = "commit" /\ session[s].op = "point"
      /\ session[s] \in SessionRow /\ End(s)
  BY DEF PointCommit, Shape, TypeOK
<1>2. session[s].id \in 0..NoPoint
  BY <1>1, ProfilesAssumption DEF SessionRow, Ids, Global, NoPoint
<1>3. PICK q : q = (CHOOSE p \in session[s].points : TRUE)[1]
  OBVIOUS
<1>4. \/ UNCHANGED <<point, given>>
      \/ /\ point' = [point EXCEPT ![q] = session[s].id]
         /\ given' = [given EXCEPT ![q] = session[s].id]
  BY <1>3 DEF PointCommit
<1>5. point' \in [Points -> 0..NoPoint] /\ given' \in [Points -> 0..NoPoint]
  BY <1>2, <1>4 DEF Shape, TypeOK
<1>6. TypeOK'
  BY <1>1, <1>5, EndPlaced DEF Shape, TypeOK, PointCommit
<1>. QED BY <1>1, <1>4, <1>6, EndPlaced DEF Shape

LEMMA EvaluateCommitShape ==
  ASSUME Shape, NEW s \in Sessions, EvaluateCommit(s)
  PROVE  /\ Shape' /\ Ended(s) /\ session[s].id \in Ids
         /\ session[s].pc = "llm" /\ session[s].op = "evaluate"
<1>1. /\ session[s].pc = "llm" /\ session[s].op = "evaluate" /\ Place(session[s])
      /\ End(s)
  BY DEF EvaluateCommit, Shape, AllPlaced
<1>2. session[s].id \in Ids /\ session[s].id \in 0..NoAnalysis
  BY <1>1, ProfilesAssumption DEF Place, Ids, NoAnalysis
<1>3. analysis' \in [Ids -> 0..NoAnalysis]
  BY <1>2 DEF EvaluateCommit, Shape, TypeOK
<1>4. TypeOK'
  BY <1>1, <1>3, EndPlaced DEF Shape, TypeOK, EvaluateCommit, history
<1>. QED BY <1>1, <1>2, <1>4, EndPlaced DEF Shape

\* The greatest member of a set of natural numbers with an upper bound.
LEMMA MaxIsMember ==
  ASSUME NEW n \in Nat, NEW S \in SUBSET (0..n), S # {}
  PROVE  Max(S) \in S
<1>. DEFINE T == {n - y : y \in S}
<1>1. T \subseteq Nat /\ T # {}
  <2>1. \A y \in S : n - y \in Nat
    OBVIOUS
  <2>. QED BY <2>1
<1>2. PICK t \in T : \A u \in T : ~(<<u, t>> \in OpToRel(<, Nat))
  <2>. HIDE DEF T
  <2>. QED BY <1>1, NatLessThanWellFounded, WFMin
<1>3. \A u \in T : ~(u < t)
  BY <1>1, <1>2 DEF OpToRel
<1>4. PICK x \in S : t = n - x
  OBVIOUS
<1>5. \A y \in S : x >= y
  <2>. TAKE y \in S
  <2>1. ~(n - y < n - x)
    BY <1>3, <1>4
  <2>. QED BY <2>1
<1>. QED BY <1>4, <1>5 DEF Max

LEMMA DefaultIsStored == DefaultProfile \in Stored \cup {Global}
<1>1. Stored \in SUBSET (0..MaxProfiles) /\ Defaults \in SUBSET Stored /\ MaxProfiles \in Nat
  BY ProfilesAssumption DEF Stored, Defaults, Ids
<1>2. Defaults # {} => Max(Defaults) \in Stored
  BY <1>1, MaxIsMember
<1>3. Stored # {} => Max(Stored) \in Stored
  BY <1>1, MaxIsMember
<1>. QED BY <1>2, <1>3 DEF DefaultProfile

LEMMA TailorBaselineShape ==
  ASSUME Shape, NEW s \in Sessions, TailorBaseline(s)
  PROVE  /\ Shape' /\ session[s].pc = "baseline"
         /\ \/ Ended(s)
            \/ /\ Goes(s) /\ session'[s].pc = "points"
               /\ session'[s].locks = session[s].locks
               /\ \E l \in 0..MaxProfiles, b \in Ids :
                    /\ session[s].todo = {l} /\ session'[s].todo = {b}
                    /\ l # Global => b = l
<1>1. /\ session[s].pc = "baseline" /\ Place(session[s]) /\ session[s] \in SessionRow
  BY DEF TailorBaseline, Shape, AllPlaced, TypeOK
<1>2. PICK l \in 0..NoAnalysis : session[s].todo = {l} /\ l # NoAnalysis
  BY <1>1 DEF Place, AtHand
<1>3. l \in 0..MaxProfiles
  BY <1>2, ProfilesAssumption DEF NoAnalysis
<1>4. PICK b : b = Baseline(l)
  OBVIOUS
<1>5. b \in Stored \cup {Global} /\ (l # Global /\ b # Global => b = l)
  BY <1>3, <1>4, DefaultIsStored, ProfilesAssumption DEF Baseline, Stored, Ids, Global
<1>6. IF b = Global THEN End(s)
      ELSE session' = [session EXCEPT ![s].pc = "points", ![s].todo = {b}]
  <2>1. (CHOOSE i \in session[s].todo : TRUE) = l
    BY <1>2
  <2>. QED BY <1>4, <2>1 DEF TailorBaseline
<1>7. CASE b = Global
  <2>1. TypeOK'
    BY <1>6, <1>7, EndPlaced DEF Shape, TypeOK, TailorBaseline, rows, history
  <2>. QED BY <1>1, <1>6, <1>7, <2>1, EndPlaced DEF Shape
<1>8. CASE b # Global
  <2>1. b \in Ids /\ b \in 0..NoAnalysis
    BY <1>5, <1>8, ProfilesAssumption DEF Stored, Ids, NoAnalysis
  <2>2. PICK r : r = [session[s] EXCEPT !.pc = "points", !.todo = {b}]
    OBVIOUS
  <2>3. /\ r \in SessionRow /\ r.pc = "points" /\ r.op = session[s].op
        /\ r.id = session[s].id /\ r.flag = session[s].flag /\ r.seen = session[s].seen
        /\ r.structured = session[s].structured /\ r.todo = {b}
        /\ r.locks = session[s].locks
    BY <1>1, <2>1, <2>2 DEF SessionRow, Places
  <2>4. r.op = "tailor"
    BY <1>1, <2>3 DEF Place, SessionRow, Operations
  <2>5. Place(r)
    BY <1>1, <2>1, <2>3, <2>4 DEF Place, AtHand
  <2>6. session' = [session EXCEPT ![s] = r]
    BY <1>6, <1>8, <2>2 DEF Shape, TypeOK
  <2>7. /\ session' \in [Sessions -> SessionRow] /\ AllPlaced'
        /\ session'[s] = r /\ \A t \in Sessions : t # s => session'[t] = session[t]
    BY <2>3, <2>5, <2>6, GoesShape
  <2>8. TypeOK'
    BY <2>7 DEF Shape, TypeOK, TailorBaseline, rows, history
  <2>. QED BY <1>1, <1>2, <1>3, <1>5, <1>8, <2>1, <2>3, <2>7, <2>8 DEF Shape, Goes
<1>. QED BY <1>7, <1>8

LEMMA TailorPointsShape ==
  ASSUME Shape, NEW s \in Sessions, TailorPoints(s)
  PROVE  /\ Shape' /\ Goes(s) /\ session[s].pc = "points" /\ session'[s].pc = "draft"
         /\ session'[s].locks = session[s].locks
         /\ \E b \in Ids :
              /\ session[s].todo = {b} /\ session'[s].todo = {b}
              /\ session'[s].points = {<<q, given[q]>> : q \in Eligible(b)}
<1>1. /\ session[s].pc = "points" /\ Place(session[s]) /\ session[s] \in SessionRow
  BY DEF TailorPoints, Shape, AllPlaced, TypeOK
<1>2. PICK b \in Ids : session[s].todo = {b}
  BY <1>1 DEF Place, AtHand
<1>3. PICK ev : ev = {<<q, given[q]>> : q \in Eligible(b)}
  OBVIOUS
<1>4. ev \in SUBSET Evidence
  BY <1>3 DEF Evidence, Eligible, Shape, TypeOK
<1>5. PICK r : r = [session[s] EXCEPT !.pc = "draft", !.points = ev]
  OBVIOUS
<1>6. session' = [session EXCEPT ![s] = r]
  <2>1. (CHOOSE i \in session[s].todo : TRUE) = b
    BY <1>2
  <2>2. session' = [session EXCEPT ![s].pc = "draft", ![s].points = ev]
    BY <1>3, <2>1 DEF TailorPoints
  <2>. QED BY <1>5, <2>2 DEF Shape, TypeOK
<1>7. /\ r \in SessionRow /\ r.pc = "draft" /\ r.op = session[s].op
      /\ r.id = session[s].id /\ r.flag = session[s].flag /\ r.seen = session[s].seen
      /\ r.structured = session[s].structured /\ r.todo = {b}
      /\ r.locks = session[s].locks /\ r.points = ev
  BY <1>1, <1>2, <1>4, <1>5 DEF SessionRow, Places
<1>8. r.op = "tailor"
  BY <1>1, <1>7 DEF Place, SessionRow, Operations
<1>9. Place(r)
  BY <1>1, <1>7, <1>8 DEF Place, AtHand
<1>10. /\ session' \in [Sessions -> SessionRow] /\ AllPlaced'
       /\ session'[s] = r /\ \A t \in Sessions : t # s => session'[t] = session[t]
  BY <1>6, <1>7, <1>9, GoesShape
<1>11. TypeOK'
  BY <1>10 DEF Shape, TypeOK, TailorPoints, rows, history
<1>. QED BY <1>1, <1>2, <1>3, <1>7, <1>10, <1>11 DEF Shape, Goes

LEMMA TailorStoreShape ==
  ASSUME Shape, NEW s \in Sessions, TailorStore(s)
  PROVE  /\ Shape' /\ Ended(s) /\ session[s].pc = "draft" /\ session[s].id \in Ids
         /\ \E b \in Ids :
              /\ session[s].todo = {b}
              /\ resumes' \in {resumes, resumes \cup
                   {[of |-> session[s].id, baseline |-> b, points |-> session[s].points]}}
<1>1. /\ session[s].pc = "draft" /\ Place(session[s]) /\ session[s] \in SessionRow
      /\ End(s)
  BY DEF TailorStore, Shape, AllPlaced, TypeOK
<1>2. PICK b \in Ids : session[s].todo = {b}
  BY <1>1 DEF Place, AtHand
<1>3. session[s].id \in Ids /\ session[s].points \in SUBSET Evidence
  <2>1. session[s].op = "tailor"
    BY <1>1 DEF Place, SessionRow, Operations
  <2>. QED BY <1>1, <2>1 DEF Place, SessionRow
<1>4. resumes' \in {resumes, resumes \cup
        {[of |-> session[s].id, baseline |-> b, points |-> session[s].points]}}
  <2>1. (CHOOSE i \in session[s].todo : TRUE) = b
    BY <1>2
  <2>. QED BY <2>1 DEF TailorStore
<1>5. TypeOK'
  BY <1>1, <1>3, <1>4, EndPlaced DEF Shape, TypeOK, TailorStore, history
<1>. QED BY <1>1, <1>2, <1>3, <1>4, <1>5, EndPlaced DEF Shape

LEMMA AbortShape ==
  ASSUME Shape, NEW s \in Sessions, Abort(s)
  PROVE  Shape' /\ Ended(s)
<1>1. TypeOK'
  BY EndPlaced DEF Abort, Shape, TypeOK, rows, history
<1>. QED BY <1>1, EndPlaced DEF Abort, Shape

LEMMA PointDeleteShape ==
  ASSUME Shape, NEW q \in Points, PointDelete(q)
  PROVE  Shape' /\ UNCHANGED session
<1>1. NoPoint \in 0..NoPoint
  BY ProfilesAssumption DEF NoPoint
<1>2. point' \in [Points -> 0..NoPoint] /\ given' \in [Points -> 0..NoPoint]
  BY <1>1 DEF PointDelete, Shape, TypeOK
<1>3. TypeOK'
  BY <1>2, ProfilesAssumption DEF PointDelete, Shape, TypeOK
<1>. QED BY <1>3 DEF PointDelete, Shape, AllPlaced

LEMMA RestartShape ==
  ASSUME Shape, Restart
  PROVE  Shape' /\ \A s \in Sessions : session'[s] = Free
<1>1. \A s \in Sessions : session'[s] = Free
  BY DEF Restart
<1>2. session' \in [Sessions -> SessionRow] /\ AllPlaced'
  BY <1>1, RowTypes DEF Restart, AllPlaced
<1>3. cut' \subseteq Ids
  <2>1. ASSUME NEW s \in Sessions, session[s].pc \in {"file", "path"}
        PROVE  session[s].id \in Ids
    <3>1. session[s] \in SessionRow /\ Place(session[s])
      BY DEF Shape, TypeOK, AllPlaced
    <3>. QED BY <2>1, <3>1 DEF Place, SessionRow, Operations
  <2>. QED BY <2>1 DEF Restart, Shape, TypeOK
<1>4. TypeOK'
  BY <1>2, <1>3, ProfilesAssumption DEF Restart, Shape, TypeOK, rows
<1>. QED BY <1>1, <1>2, <1>4 DEF Shape

----------------------------------------------------------------------------
(* What a new request, and a step of a request, do.                         *)

Writers == {"create", "update", "structure", "delete"}

Begins(s) ==
  /\ session[s] = Free
  /\ session'[s].op \in Operations /\ session'[s].locks = {}
  /\ session'[s].pc \in {"clear", "commit", "llm", "baseline"}
  /\ \A t \in Sessions : t # s => session'[t] = session[t]
  /\ UNCHANGED <<profile, file, point, analysis, resumes, deleted, given, cut>>
  /\ rivals \subseteq rivals'
  /\ IF session'[s].op = "create"
     THEN /\ serial' = serial + 1 /\ session'[s].id = serial + 1
          /\ uploaded' \subseteq uploaded \cup {serial + 1}
          /\ \A t \in Sessions : SetsDefault(t) => {serial + 1, session[t].id} \in rivals'
     ELSE serial' = serial /\ uploaded' = uploaded
  /\ session'[s].flag = "on" =>
       /\ session'[s].pc = "clear"
       /\ session'[s].todo = Stored \ {session'[s].id}
       /\ \A t \in Sessions : Opens(t) => {session'[s].id, session[t].id} \in rivals'
  /\ session'[s].op = "tailor" =>
       /\ session'[s].pc = "baseline" /\ session'[s].todo = {analysis[session'[s].id]}
       /\ analysis[session'[s].id] # NoAnalysis
  /\ IF session'[s].op \in Writers THEN Meets(s) ELSE mixed' = mixed
  /\ session'[s].op \in {"update", "structure"} => session'[s].seen = profile[session'[s].id]
  /\ session'[s].op = "structure" /\ session'[s].structured \in Texts =>
       session'[s].structured = session'[s].seen.text

\* Profiles are numbered in the order they are created; a profile that is being
\* created is not stored yet, and no UPDATE that clears flags has met its row.
Births ==
  /\ \A i \in Stored : i <= serial /\ profile[i].text \in Texts
  /\ uploaded \subseteq 1..serial
  /\ \A s \in Sessions : Opens(s) => session[s].id <= serial /\ session[s].id \notin Stored
  /\ \A s, t \in Sessions : Opens(s) /\ Opens(t) /\ session[s].id = session[t].id => s = t
  /\ \A s, t \in Sessions : session[s].pc = "clear" =>
       /\ session[s].todo \subseteq 1..serial
       /\ Opens(t) => session[t].id \notin session[s].todo

LEMMA NewRequestShape ==
  ASSUME Shape, Births, NEW s \in Sessions, NewRequest(s)
  PROVE  Shape' /\ Begins(s)
<1>1. ASSUME NEW flag \in {"on", "off"}, NEW upload \in BOOLEAN, CreateFlush(s, flag, upload)
      PROVE  Shape' /\ Begins(s)
  <2>1. /\ Shape' /\ serial + 1 \in Ids /\ Arrived(s, "create", serial + 1)
        /\ session'[s].flag = flag
        /\ session'[s].pc = IF flag = "on" THEN "clear" ELSE "commit"
        /\ session'[s].todo = IF flag = "on" THEN Stored ELSE {}
    BY <1>1, CreateFlushShape
  <2>2. serial + 1 \notin Stored
    BY ProfilesAssumption DEF Births, Shape, TypeOK, Stored
  <2>3. /\ serial' = serial + 1 /\ uploaded' \subseteq uploaded \cup {serial + 1} /\ Meets(s)
        /\ UNCHANGED <<profile, file, point, analysis, resumes, deleted, given, cut>>
    BY <1>1 DEF CreateFlush
  <2>4. rivals' = rivals \cup {{serial + 1, session[t].id} :
          t \in {u \in Sessions : SetsDefault(u) \/ (flag = "on" /\ Opens(u))}}
    BY <1>1 DEF CreateFlush, Pair
  <2>. QED BY <2>1, <2>2, <2>3, <2>4 DEF Begins, Arrived, Writers, Operations
<1>2. ASSUME NEW i \in Ids, NEW text \in Texts \cup {Keep},
             NEW flag \in {"keep", "on", "off"}, UpdateRead(s, i, text, flag)
      PROVE  Shape' /\ Begins(s)
  <2>1. /\ Shape' /\ Arrived(s, "update", i)
        /\ session'[s].flag = flag /\ session'[s].seen = profile[i]
        /\ session'[s].pc \in {"clear", "commit"}
        /\ flag = "on" => session'[s].pc = "clear" /\ session'[s].todo = Stored \ {i}
    BY <1>2, UpdateReadShape
  <2>2. /\ Meets(s) /\ UNCHANGED <<serial, uploaded>>
        /\ UNCHANGED <<profile, file, point, analysis, resumes, deleted, given, cut>>
    BY <1>2 DEF UpdateRead, rows
  <2>3. rivals' = rivals \cup {{i, session[t].id} :
          t \in IF flag = "on" THEN {u \in Sessions : Opens(u)} ELSE {}}
    BY <1>2 DEF UpdateRead, Pair
  <2>. QED BY <2>1, <2>2, <2>3 DEF Begins, Arrived, Writers, Operations
<1>3. ASSUME NEW i \in Ids, NEW data \in {"none", "manual"}, StructureRead(s, i, data)
      PROVE  Shape' /\ Begins(s)
  <2>1. /\ Shape' /\ Arrived(s, "structure", i)
        /\ session'[s].pc = "commit" /\ session'[s].flag = "keep"
        /\ session'[s].seen = profile[i] /\ session'[s].structured = data
    BY <1>3, StructureReadShape
  <2>2. data \notin Texts
    BY ProfilesAssumption
  <2>. QED BY <1>3, <2>1, <2>2 DEF StructureRead, Begins, Arrived, Writers, Operations, rows
<1>4. ASSUME NEW i \in Ids, ExtractRead(s, i)
      PROVE  Shape' /\ Begins(s)
  <2>1. profile[i].text \in Texts
    BY <1>4 DEF ExtractRead, Births, Stored
  <2>2. /\ Shape' /\ Arrived(s, "structure", i)
        /\ session'[s].pc = "llm" /\ session'[s].flag = "keep"
        /\ session'[s].seen = profile[i] /\ session'[s].structured = profile[i].text
    BY <1>4, <2>1, ExtractReadShape
  <2>. QED BY <1>4, <2>2 DEF ExtractRead, Begins, Arrived, Writers, Operations, rows
<1>5. ASSUME NEW i \in Ids, DeleteRead(s, i)
      PROVE  Shape' /\ Begins(s)
  BY <1>5, DeleteReadShape DEF DeleteRead, Begins, Arrived, Writers, Operations, rows
<1>6. ASSUME NEW i \in Ids, EvaluateRead(s, i)
      PROVE  Shape' /\ Begins(s)
  BY <1>6, EvaluateReadShape
     DEF EvaluateRead, Begins, Arrived, Writers, Operations, rows, history
<1>7. ASSUME NEW i \in Ids, TailorRead(s, i)
      PROVE  Shape' /\ Begins(s)
  <2>1. /\ Shape' /\ Arrived(s, "tailor", i)
        /\ session'[s].pc = "baseline" /\ session'[s].flag = "keep"
        /\ session'[s].todo = {analysis[i]} /\ analysis[i] # NoAnalysis
    BY <1>7, TailorReadShape
  <2>2. UNCHANGED rows /\ UNCHANGED history
    BY <1>7 DEF TailorRead
  <2>. QED BY <2>1, <2>2 DEF Begins, Arrived, Writers, Operations, rows, history
<1>8. ASSUME NEW q \in Points, NEW i \in Ids \cup {Global}, PointRead(s, q, i)
      PROVE  Shape' /\ Begins(s)
  BY <1>8, PointReadShape
     DEF PointRead, Begins, Arrived, Writers, Operations, rows, history
<1>. QED BY <1>1, <1>2, <1>3, <1>4, <1>5, <1>6, <1>7, <1>8 DEF NewRequest

\* The places a request goes through.
Moves(s) ==
  LET before == session[s].pc
      after == session'[s].pc
  IN
  \/ before = "clear" /\ after = "clear" /\ session'[s].todo \subseteq session[s].todo
  \/ before = "clear" /\ after = "commit"
  \/ before = "commit" /\ after = "file" /\ session[s].op = "create"
  \/ before = "file" /\ after = "path"
  \/ before = "llm" /\ after = "commit" /\ session[s].op = "structure"
  \/ before = "baseline" /\ after = "points"
  \/ before = "points" /\ after = "draft"

LEMMA StepShape ==
  ASSUME Shape, NEW s \in Sessions, Step(s)
  PROVE  Shape' /\ (Ended(s) \/ (Goes(s) /\ Moves(s)))
<1>1. CASE ClearRow(s) BY <1>1, ClearRowShape DEF Moves
<1>2. CASE ClearDone(s) BY <1>2, ClearDoneShape DEF Moves
<1>3. CASE CreateCommit(s) BY <1>3, CreateCommitShape DEF Moves
<1>4. CASE SaveFile(s) BY <1>4, SaveFileShape DEF Moves
<1>5. CASE SavePath(s) BY <1>5, SavePathShape
<1>6. CASE ExtractAnswer(s) BY <1>6, ExtractAnswerShape DEF Moves
<1>7. CASE ChangeCommit(s) BY <1>7, ChangeCommitShape
<1>8. CASE DeleteCommit(s) BY <1>8, DeleteCommitShape
<1>9. CASE PointCommit(s) BY <1>9, PointCommitShape
<1>10. CASE EvaluateCommit(s) BY <1>10, EvaluateCommitShape
<1>11. CASE TailorBaseline(s) BY <1>11, TailorBaselineShape DEF Moves
<1>12. CASE TailorPoints(s) BY <1>12, TailorPointsShape DEF Moves
<1>13. CASE TailorStore(s) BY <1>13, TailorStoreShape
<1>14. CASE Abort(s) BY <1>14, AbortShape
<1>. QED BY <1>1, <1>2, <1>3, <1>4, <1>5, <1>6, <1>7, <1>8, <1>9, <1>10, <1>11,
            <1>12, <1>13, <1>14 DEF Step

LEMMA StutterShape ==
  ASSUME Shape, UNCHANGED vars
  PROVE  Shape'
<1>1. UNCHANGED rows /\ UNCHANGED <<session, requests, restarts>> /\ UNCHANGED history
  BY DEF vars
<1>2. TypeOK'
  BY <1>1 DEF Shape, TypeOK, rows, history
<1>. QED BY <1>1, <1>2 DEF Shape, AllPlaced

----------------------------------------------------------------------------
(* What becomes of the rows.                                                *)

LEMMA RowFields ==
  /\ NoRow.text = Keep /\ ~NoRow.default /\ ~NoRow.pdf /\ Keep \notin Texts
  /\ \A i \in Ids : profile[i].text \in Texts => Exists(i)
BY ProfilesAssumption DEF NoRow, Exists

\* A commit writes the row r, and takes the default flag from the rows it locked.
LEMMA CommittedRows ==
  ASSUME Shape, Births, NEW s \in Sessions, NEW r \in ProfileRow, session[s].id \in Ids,
         Committed(s, r), r.text \in Texts
  PROVE  /\ profile'[session[s].id] = r /\ Stored' = Stored \cup {session[s].id}
         /\ \A i \in Stored' :
              /\ profile'[i].text \in Texts
              /\ i # session[s].id => i \in Stored /\ profile'[i].pdf = profile[i].pdf
              /\ i # session[s].id /\ profile'[i].default =>
                   i \in Defaults /\ i \notin session[s].locks
<1>1. profile'[session[s].id] = r /\ r # NoRow
  BY RowFields DEF Committed
<1>2. ASSUME NEW i \in Ids, i # session[s].id
      PROVE  /\ i \in Stored' <=> i \in Stored
             /\ i \in Stored => /\ profile'[i].text \in Texts /\ profile'[i].pdf = profile[i].pdf
                                /\ profile'[i].default =>
                                     i \in Defaults /\ i \notin session[s].locks
  <2>0. profile[i] \in ProfileRow
    BY DEF Shape, TypeOK
  <2>1. CASE i \notin session[s].locks
    <3>1. profile'[i] = profile[i]
      BY <1>2, <2>1 DEF Committed
    <3>. QED BY <2>1, <3>1 DEF Stored, Exists, Births, Defaults
  <2>2. CASE i \in session[s].locks
    <3>0. PICK d : d = [profile[i] EXCEPT !.default = FALSE]
      OBVIOUS
    <3>1. profile'[i] = d
      BY <1>2, <2>2, <3>0 DEF Committed
    <3>2. d.text = profile[i].text /\ d.pdf = profile[i].pdf /\ ~d.default
      BY <2>0, <3>0 DEF ProfileRow
    <3>3. CASE i \in Stored
      <4>1. d.text \in Texts
        BY <3>2, <3>3 DEF Births
      <4>2. d # NoRow
        BY <4>1, RowFields
      <4>. QED BY <3>1, <3>2, <3>3, <4>1, <4>2 DEF Stored, Exists
    <3>4. CASE i \notin Stored
      <4>1. profile[i] = NoRow
        BY <3>4 DEF Stored, Exists
      <4>2. d = NoRow
        <5>1. d = [NoRow EXCEPT !.default = FALSE]
          BY <3>0, <4>1
        <5>. QED BY <5>1 DEF NoRow
      <4>. QED BY <3>1, <3>4, <4>2 DEF Stored, Exists
    <3>. QED BY <3>3, <3>4
  <2>. QED BY <2>1, <2>2
<1>3. session[s].id \in Stored'
  BY <1>1 DEF Stored, Exists
<1>4. Stored' \subseteq Ids /\ Stored \subseteq Ids
  BY DEF Stored
<1>5. Stored' = Stored \cup {session[s].id}
  BY <1>2, <1>3, <1>4
<1>. QED BY <1>1, <1>2, <1>4, <1>5

LEMMA CreateCommitRows ==
  ASSUME Shape, Births, NEW s \in Sessions, CreateCommit(s)
  PROVE  /\ Opens(s) /\ session[s].id \in Ids /\ session[s].todo = {}
         /\ session[s].id \notin Stored /\ Stored' = Stored \cup {session[s].id}
         /\ \A i \in Stored' :
              /\ profile'[i].text \in Texts
              /\ i # session[s].id => profile'[i].pdf = profile[i].pdf
              /\ profile'[i].default =>
                   IF i = session[s].id THEN session[s].flag = "on"
                   ELSE i \in Defaults /\ i \notin session[s].locks
         /\ session[s].flag = "on" => session[s].id \in Defaults'
<1>1. /\ session[s].pc = "commit" /\ session[s].op = "create" /\ session[s].id \in Ids
      /\ session[s].todo = {}
  BY CreateCommitShape
<1>2. Opens(s) /\ session[s].id \notin Stored
  BY <1>1 DEF Opens, Births, Stored
<1>3. PICK r : r = [NoRow EXCEPT !.text = FirstText, !.default = (session[s].flag = "on")]
  OBVIOUS
<1>4. r \in ProfileRow /\ r.text \in Texts /\ r.default = (session[s].flag = "on")
  BY <1>3, RowTypes DEF ProfileRow
<1>5. Committed(s, r)
  BY <1>3 DEF CreateCommit
<1>6. /\ profile'[session[s].id] = r /\ Stored' = Stored \cup {session[s].id}
      /\ \A i \in Stored' :
           /\ profile'[i].text \in Texts
           /\ i # session[s].id => i \in Stored /\ profile'[i].pdf = profile[i].pdf
           /\ i # session[s].id /\ profile'[i].default =>
                i \in Defaults /\ i \notin session[s].locks
  BY <1>1, <1>4, <1>5, CommittedRows
<1>. QED BY <1>1, <1>2, <1>4, <1>6 DEF Defaults

LEMMA ChangeRows ==
  ASSUME Shape, Births, NEW s \in Sessions, ChangeCommit(s), Exists(session[s].id)
  PROVE  /\ session[s].id \in Stored /\ Stored' = Stored
         /\ profile'[session[s].id] = Written(profile[session[s].id], session[s])
         /\ \A i \in Stored' :
              /\ profile'[i].text \in Texts /\ profile'[i].pdf = profile[i].pdf
              /\ profile'[i].default =>
                   IF i = session[s].id THEN i \in Defaults \/ session[s].flag = "on"
                   ELSE i \in Defaults /\ i \notin session[s].locks
<1>1. /\ session[s].id \in Ids /\ Exists(session[s].id)
      /\ Committed(s, Written(profile[session[s].id], session[s]))
      /\ session[s] \in SessionRow /\ profile[session[s].id] \in ProfileRow
  BY ChangeCommitShape DEF ChangeCommit, Shape, TypeOK
<1>2. PICK r : r = Written(profile[session[s].id], session[s])
  OBVIOUS
<1>3. /\ r \in ProfileRow /\ r.pdf = profile[session[s].id].pdf
      /\ r.text = IF session[s].text \in {Keep, session[s].seen.text}
                  THEN profile[session[s].id].text ELSE session[s].text
      /\ r.default = IF session[s].flag = "on" /\ ~session[s].seen.default THEN TRUE
                     ELSE IF session[s].flag = "off" /\ session[s].seen.default THEN FALSE
                     ELSE profile[session[s].id].default
  <2>1. IsWritten(r, profile[session[s].id], session[s])
    BY <1>1, <1>2, WrittenRow
  <2>. QED BY <2>1 DEF IsWritten
<1>4. session[s].id \in Stored /\ profile[session[s].id].text \in Texts
  BY <1>1 DEF Stored, Births
<1>5. r.text \in Texts /\ (r.default => session[s].id \in Defaults \/ session[s].flag = "on")
  BY <1>1, <1>3, <1>4 DEF SessionRow, Defaults
<1>6. /\ profile'[session[s].id] = r /\ Stored' = Stored \cup {session[s].id}
      /\ \A i \in Stored' :
           /\ profile'[i].text \in Texts
           /\ i # session[s].id => i \in Stored /\ profile'[i].pdf = profile[i].pdf
           /\ i # session[s].id /\ profile'[i].default =>
                i \in Defaults /\ i \notin session[s].locks
  BY <1>1, <1>2, <1>3, <1>5, CommittedRows
<1>. QED BY <1>2, <1>3, <1>4, <1>5, <1>6

LEMMA ChangeCommitRows ==
  ASSUME Shape, Births, NEW s \in Sessions, ChangeCommit(s), profile' # profile
  PROVE  /\ session[s].id \in Stored /\ Stored' = Stored
         /\ profile'[session[s].id] = Written(profile[session[s].id], session[s])
         /\ \A i \in Stored' :
              /\ profile'[i].text \in Texts /\ profile'[i].pdf = profile[i].pdf
              /\ profile'[i].default =>
                   IF i = session[s].id THEN i \in Defaults \/ session[s].flag = "on"
                   ELSE i \in Defaults /\ i \notin session[s].locks
<1>1. Exists(session[s].id)
  BY DEF ChangeCommit
<1>. QED BY <1>1, ChangeRows

\* Any other step leaves the rows, or marks one as having its PDF, or deletes one.
LEMMA OtherRows ==
  ASSUME Shape, Births, NEW s \in Sessions, Step(s), ~CreateCommit(s), ~ChangeCommit(s)
  PROVE  \A i \in Stored' :
           /\ i \in Stored /\ profile'[i].text = profile[i].text
           /\ profile'[i].default = profile[i].default /\ (profile[i].pdf => profile'[i].pdf)
<1>1. CASE UNCHANGED profile
  BY <1>1 DEF Stored, Exists
<1>2. CASE SavePath(s) /\ profile' # profile
  <2>1. session[s].id \in Ids /\ Exists(session[s].id)
    BY <1>2, SavePathShape DEF SavePath
  <2>2. PICK r : r = [profile[session[s].id] EXCEPT !.pdf = TRUE]
    OBVIOUS
  <2>3. profile' = [profile EXCEPT ![session[s].id] = r]
    BY <1>2, <2>1, <2>2 DEF SavePath, Shape, TypeOK
  <2>4. profile[session[s].id] \in ProfileRow
    BY <2>1 DEF Shape, TypeOK
  <2>5. r.text = profile[session[s].id].text /\ r.default = profile[session[s].id].default
        /\ r.pdf
    BY <2>2, <2>4 DEF ProfileRow
  <2>. QED BY <2>1, <2>3, <2>5 DEF Stored, Exists, Shape, TypeOK
<1>3. CASE DeleteCommit(s)
  BY <1>3, DeleteCommitShape DEF DeleteCommit, Stored, Exists, Shape, TypeOK
<1>. QED BY <1>1, <1>2, <1>3
     DEF Step, ClearRow, ClearDone, SaveFile, ExtractAnswer, PointCommit, EvaluateCommit,
         TailorBaseline, TailorPoints, TailorStore, Abort, rows

LEMMA SessionsCalm ==
  ASSUME Shape, NEW s \in Sessions, Step(s), NEW t \in Sessions
  PROVE  /\ Opens(t)' => Opens(t) /\ session'[t].id = session[t].id
         /\ SetsDefault(t)' => SetsDefault(t) /\ session'[t].id = session[t].id
         /\ session'[t].pc = "clear" =>
              session[t].pc = "clear" /\ session'[t].todo \subseteq session[t].todo
<1>1. Ended(s) \/ (Goes(s) /\ Moves(s))
  BY StepShape
<1>2. Place(session[s])
  BY DEF Shape, AllPlaced
<1>3. CASE t # s
  <2>1. session'[t] = session[t]
    BY <1>1, <1>3 DEF Ended, Goes
  <2>. QED BY <2>1 DEF Opens, SetsDefault
<1>4. CASE t = s /\ Ended(s)
  BY <1>4, RowTypes DEF Ended, Opens, SetsDefault
<1>5. CASE t = s /\ Goes(s) /\ Moves(s)
  BY <1>2, <1>5 DEF Goes, Moves, Opens, SetsDefault, Place
<1>. QED BY <1>1, <1>3, <1>4, <1>5

LEMMA OpenIds ==
  ASSUME Shape, NEW s \in Sessions, Opens(s)
  PROVE  session[s].id \in Ids
<1>1. Place(session[s])
  BY DEF Shape, AllPlaced
<1>. QED BY <1>1 DEF Opens, Place

LEMMA BirthsBegin ==
  ASSUME Shape, Shape', Births, NEW s \in Sessions, Begins(s)
  PROVE  Births'
<1>1. /\ session[s] = Free /\ \A t \in Sessions : t # s => session'[t] = session[t]
      /\ UNCHANGED profile /\ Stored' = Stored /\ Stored \subseteq Ids
      /\ serial \in Nat
  BY ProfilesAssumption DEF Begins, Stored, Exists, Shape, TypeOK
<1>2. serial' \in Nat /\ serial <= serial'
  BY <1>1 DEF Begins
<1>3. \A i \in Stored' : i <= serial' /\ profile'[i].text \in Texts
  BY <1>1, <1>2 DEF Births, Ids
<1>4. uploaded' \subseteq 1..serial'
  <2>1. \/ serial' = serial + 1 /\ uploaded' \subseteq uploaded \cup {serial + 1}
        \/ serial' = serial /\ uploaded' = uploaded
    BY DEF Begins
  <2>2. uploaded \subseteq 1..serial
    BY DEF Births
  <2>3. 1..serial \subseteq 1..serial' /\ (serial' = serial + 1 => serial + 1 \in 1..serial')
    BY <1>1, <1>2
  <2>. QED BY <2>1, <2>2, <2>3
<1>5. /\ ~Opens(s) /\ session[s].pc # "clear"
      /\ Opens(s)' => /\ serial' = serial + 1 /\ session'[s].id = serial + 1
                      /\ serial + 1 \in Ids /\ serial + 1 \notin Stored
  <2>1. Opens(s)' => session'[s].id \in Ids
    <3>1. Place(session'[s])
      BY DEF Shape, AllPlaced
    <3>. QED BY <3>1 DEF Opens, Place
  <2>2. Opens(s)' => serial' = serial + 1 /\ session'[s].id = serial + 1
    BY DEF Begins, Opens
  <2>3. serial + 1 \notin Stored
    BY <1>1 DEF Births, Ids
  <2>. QED BY <1>1, <2>1, <2>2, <2>3, RowTypes DEF Opens
<1>6. \A t \in Sessions : Opens(t) => session[t].id \in Ids /\ session[t].id <= serial
  BY OpenIds DEF Births
<1>7. ASSUME NEW t \in Sessions, t # s
      PROVE  (Opens(t)' <=> Opens(t)) /\ session'[t] = session[t]
  BY <1>1, <1>7 DEF Opens
<1>8. ASSUME NEW t \in Sessions, Opens(t)'
      PROVE  session'[t].id <= serial' /\ session'[t].id \notin Stored'
  <2>1. CASE t = s
    BY <1>1, <1>2, <1>5, <1>8, <2>1
  <2>2. CASE t # s
    BY <1>1, <1>2, <1>6, <1>7, <1>8, <2>2 DEF Births, Ids
  <2>. QED BY <2>1, <2>2
<1>9. ASSUME NEW t \in Sessions, NEW u \in Sessions, Opens(t)', Opens(u)',
             session'[t].id = session'[u].id
      PROVE  t = u
  <2>1. ASSUME NEW v \in Sessions, v # s, Opens(v)', Opens(s)' PROVE session'[v].id # session'[s].id
    BY <1>1, <1>5, <1>6, <1>7, <2>1 DEF Ids
  <2>2. CASE t # s /\ u # s
    BY <1>7, <1>9, <2>2 DEF Births
  <2>. QED BY <1>9, <2>1, <2>2
<1>10. ASSUME NEW t \in Sessions, NEW u \in Sessions, session'[t].pc = "clear"
       PROVE  /\ session'[t].todo \subseteq 1..serial'
              /\ Opens(u)' => session'[u].id \notin session'[t].todo
  <2>1. CASE t = s
    <3>1. session'[s].flag = "on"
      <4>1. Place(session'[s])
        BY DEF Shape, AllPlaced
      <4>. QED BY <1>10, <2>1, <4>1 DEF Place
    <3>2. session'[s].todo = Stored \ {session'[s].id}
      BY <3>1 DEF Begins
    <3>3. session'[t].todo \subseteq 1..serial'
      <4>1. \A i \in Stored : i \in Ids /\ i <= serial
        BY <1>1 DEF Births
      <4>2. Stored \subseteq 1..serial'
        BY <1>1, <1>2, <4>1 DEF Ids
      <4>. QED BY <2>1, <3>2, <4>2
    <3>4. Opens(u)' => session'[u].id \notin Stored
      BY <1>5, <1>7 DEF Births, Stored
    <3>. QED BY <2>1, <3>2, <3>3, <3>4
  <2>2. CASE t # s
    <3>1. session[t].pc = "clear" /\ session[t].todo \subseteq 1..serial
          /\ session'[t].todo = session[t].todo
      BY <1>7, <1>10, <2>2 DEF Births
    <3>2. CASE u = s
      BY <1>1, <1>2, <1>5, <3>1, <3>2
    <3>3. CASE u # s
      BY <1>1, <1>2, <1>7, <3>1, <3>3 DEF Births
    <3>. QED BY <3>2, <3>3
  <2>. QED BY <2>1, <2>2
<1>. QED BY <1>3, <1>4, <1>8, <1>9, <1>10 DEF Births

LEMMA BirthsStep ==
  ASSUME Shape, Births, NEW s \in Sessions, Step(s)
  PROVE  Births'
<1>1. UNCHANGED <<serial, uploaded>> /\ serial \in Nat
  BY ProfilesAssumption DEF Step, ClearRow, ClearDone, CreateCommit, SaveFile, SavePath,
     ExtractAnswer, ChangeCommit, DeleteCommit, PointCommit, EvaluateCommit, TailorBaseline,
     TailorPoints, TailorStore, Abort, rows, history, Shape, TypeOK
<1>2. \A t \in Sessions :
         /\ Opens(t)' => Opens(t) /\ session'[t].id = session[t].id
         /\ session'[t].pc = "clear" =>
              session[t].pc = "clear" /\ session'[t].todo \subseteq session[t].todo
  BY SessionsCalm
<1>3. \A i \in Stored' : i <= serial /\ profile'[i].text \in Texts
  <2>1. CASE CreateCommit(s)
    BY <2>1, CreateCommitRows DEF Births
  <2>2. CASE ChangeCommit(s) /\ profile' # profile
    BY <2>2, ChangeCommitRows DEF Births
  <2>3. CASE ~CreateCommit(s) /\ ~ChangeCommit(s)
    BY <2>3, OtherRows DEF Births
  <2>4. CASE profile' = profile
    BY <2>4 DEF Births, Stored, Exists
  <2>. QED BY <2>1, <2>2, <2>3, <2>4
<1>4. ASSUME NEW t \in Sessions, Opens(t)'
      PROVE  session'[t].id \notin Stored'
  <2>0. Opens(t) /\ session'[t].id = session[t].id /\ session[t].id \notin Stored
        /\ session[t].id \in Ids
    BY <1>2, <1>4, OpenIds DEF Births, Stored
  <2>1. CASE CreateCommit(s)
    <3>1. Stored' = Stored \cup {session[s].id} /\ Opens(s)
      BY <2>1, CreateCommitRows
    <3>2. t # s
      <4>1. ~(Opens(s)')
        BY <2>1, CreateCommitShape, RowTypes DEF Opens, Ended
      <4>. QED BY <1>4, <4>1
    <3>3. session[t].id # session[s].id
      BY <2>0, <3>1, <3>2 DEF Births
    <3>. QED BY <2>0, <3>1, <3>3
  <2>2. CASE ~CreateCommit(s)
    <3>1. Stored' \subseteq Stored
      BY <2>2, ChangeCommitRows, OtherRows DEF Stored, Exists
    <3>. QED BY <2>0, <3>1
  <2>. QED BY <2>1, <2>2
<1>5. uploaded' \subseteq 1..serial'
  BY <1>1 DEF Births
<1>6. \A t \in Sessions : Opens(t)' => session'[t].id <= serial' /\ session'[t].id \notin Stored'
  BY <1>1, <1>2, <1>4 DEF Births
<1>7. \A t, u \in Sessions : Opens(t)' /\ Opens(u)' /\ session'[t].id = session'[u].id => t = u
  BY <1>2 DEF Births
<1>8. \A t, u \in Sessions : session'[t].pc = "clear" =>
        /\ session'[t].todo \subseteq 1..serial'
        /\ Opens(u)' => session'[u].id \notin session'[t].todo
  BY <1>1, <1>2 DEF Births
<1>. QED BY <1>1, <1>3, <1>5, <1>6, <1>7, <1>8 DEF Births

LEMMA BirthsRestart ==
  ASSUME Births, Restart
  PROVE  Births'
<1>1. \A s \in Sessions : session'[s].pc = "free"
  BY RowTypes DEF Restart
<1>2. UNCHANGED <<profile, serial, uploaded>>
  BY DEF Restart, rows
<1>. QED BY <1>1, <1>2 DEF Births, Opens, Stored, Exists

LEMMA BirthsSame ==
  ASSUME Births, UNCHANGED <<profile, serial, uploaded, session>>
  PROVE  Births'
BY DEF Births, Opens, Stored, Exists

LEMMA InitShape ==
  ASSUME Init
  PROVE  Shape /\ Births
<1>1. PICK d : d = [NoRow EXCEPT !.text = FirstText, !.default = TRUE]
  OBVIOUS
<1>2. PICK e : e = [NoRow EXCEPT !.text = FirstText, !.default = FALSE]
  OBVIOUS
<1>3. d \in ProfileRow /\ e \in ProfileRow /\ d.text \in Texts /\ e.text \in Texts
  BY <1>1, <1>2, RowTypes DEF ProfileRow
<1>4. \A i \in Ids : profile[i] \in {d, e, NoRow} /\ (i > Existing => profile[i] = NoRow)
  <2>1. \A i \in Ids : /\ i <= Existing /\ i = 1 => profile[i] = d
                       /\ i <= Existing /\ i # 1 => profile[i] = e
                       /\ ~(i <= Existing) => profile[i] = NoRow
    BY <1>1, <1>2 DEF Init
  <2>. QED BY <2>1, ProfilesAssumption DEF Ids
<1>5. \A s \in Sessions : session[s] = Free
  BY DEF Init
<1>6. TypeOK
  <2>1. profile \in [Ids -> ProfileRow]
    BY <1>3, <1>4, RowTypes DEF Init
  <2>2. /\ analysis \in [Ids -> 0..NoAnalysis] /\ point \in [Points -> 0..NoPoint]
        /\ given \in [Points -> 0..NoPoint]
    <3>1. NoPoint \in 0..NoPoint /\ NoAnalysis \in 0..NoAnalysis
      BY ProfilesAssumption DEF NoPoint, NoAnalysis
    <3>2. \A i \in Ids : i \in 0..NoAnalysis
      BY ProfilesAssumption DEF Ids, NoAnalysis
    <3>. QED BY <3>1, <3>2 DEF Init
  <2>3. session \in [Sessions -> SessionRow]
    BY RowTypes DEF Init
  <2>4. serial \in 0..MaxProfiles /\ requests \in 0..MaxRequests /\ restarts \in 0..MaxRestarts
    <3>1. serial = Existing /\ requests = 0 /\ restarts = 0
      BY DEF Init
    <3>. QED BY <3>1, ProfilesAssumption
  <2>5. /\ file = {} /\ resumes = {} /\ deleted = {} /\ mixed = {} /\ cut = {}
        /\ uploaded = {}
    BY DEF Init
  <2>. QED BY <2>1, <2>2, <2>3, <2>4, <2>5 DEF TypeOK
<1>7. AllPlaced
  BY <1>5, RowTypes DEF AllPlaced
<1>8. Births
  <2>1. \A i \in Stored : i <= serial /\ profile[i].text \in Texts
    BY <1>3, <1>4, ProfilesAssumption DEF Init, Stored, Exists, Ids
  <2>2. \A s \in Sessions : session[s].pc = "free"
    BY <1>5, RowTypes
  <2>. QED BY <2>1, <2>2 DEF Births, Opens, Init
<1>. QED BY <1>6, <1>7, <1>8 DEF Shape

LEMMA ShapeNext ==
  ASSUME Shape, Births, [Next]_vars
  PROVE  Shape' /\ Births'
<1>1. ASSUME NEW s \in Sessions, NewRequest(s) PROVE Shape' /\ Births'
  BY <1>1, NewRequestShape, BirthsBegin
<1>2. ASSUME NEW s \in Sessions, Step(s) PROVE Shape' /\ Births'
  BY <1>2, StepShape, BirthsStep
<1>3. ASSUME NEW q \in Points, PointDelete(q) PROVE Shape' /\ Births'
  BY <1>3, PointDeleteShape, BirthsSame DEF PointDelete
<1>4. CASE Restart
  BY <1>4, RestartShape, BirthsRestart
<1>5. CASE UNCHANGED vars
  BY <1>5, StutterShape, BirthsSame DEF vars, rows, history
<1>. QED BY <1>1, <1>2, <1>3, <1>4, <1>5 DEF Next

\* Rows and requests hold the values they can hold, and a request is at a place
\* of its operation.
THEOREM TypeCorrect == Spec => []TypeOK
<1>1. Init => Shape /\ Births
  BY InitShape
<1>2. Shape /\ Births /\ [Next]_vars => Shape' /\ Births'
  BY ShapeNext
<1>3. Shape => TypeOK
  BY DEF Shape
<1>. QED BY <1>1, <1>2, <1>3, PTL DEF Spec

----------------------------------------------------------------------------
(* An uploaded PDF.                                                         *)

\* Only a request that holds locks is ever aborted: one that holds none keeps
\* nobody waiting, and a deadlock is a smallest set of sessions that wait for
\* each other.
LEMMA AbortLocks ==
  ASSUME NEW s \in Sessions, Abort(s)
  PROVE  session[s].locks # {}
<1>1. SUFFICES ASSUME session[s].locks = {} PROVE FALSE
  OBVIOUS
<1>2. PICK S \in SUBSET Sessions :
        s \in S /\ DeadlockOf(S) /\ \A T \in SUBSET S : DeadlockOf(T) => T = S
  BY DEF Abort
<1>3. PICK T : T = S \ {s}
  OBVIOUS
<1>4. \A t \in S : \E u \in T : WaitsFor(t, u)
  BY <1>1, <1>2, <1>3 DEF DeadlockOf, WaitsFor
<1>5. DeadlockOf(T)
  BY <1>2, <1>3, <1>4 DEF DeadlockOf
<1>. QED BY <1>2, <1>3, <1>5

LEMMA AbortPlace ==
  ASSUME Shape, NEW s \in Sessions, Abort(s)
  PROVE  session[s].pc \in {"clear", "commit"} /\ session[s].flag = "on"
<1>1. Place(session[s])
  BY DEF Shape, AllPlaced
<1>. QED BY <1>1, AbortLocks DEF Place

LEMMA FileSteps ==
  ASSUME Shape, NEW s \in Sessions, Step(s), session[s].pc \in {"file", "path"}
  PROVE  SaveFile(s) \/ SavePath(s)
<1>1. ~Abort(s)
  BY AbortPlace
<1>. QED BY <1>1 DEF Step, ClearRow, ClearDone, CreateCommit, ExtractAnswer, ChangeCommit,
       DeleteCommit, PointCommit, EvaluateCommit, TailorBaseline, TailorPoints, TailorStore

LEMMA StepLeaves ==
  ASSUME NEW s \in Sessions, Step(s)
  PROVE  /\ UNCHANGED <<serial, uploaded, requests, restarts, mixed, rivals>>
         /\ cut \subseteq cut'
         /\ ~SaveFile(s) => file' = file
         /\ ~PointCommit(s) => given' = given
         /\ ~PointCommit(s) /\ ~DeleteCommit(s) => point' = point
         /\ ~EvaluateCommit(s) /\ ~DeleteCommit(s) => analysis' = analysis
         /\ ~TailorStore(s) => resumes' = resumes
         /\ deleted \subseteq deleted'
BY DEF Step, ClearRow, ClearDone, CreateCommit, SaveFile, SavePath, ExtractAnswer,
       ChangeCommit, DeleteCommit, PointCommit, EvaluateCommit, TailorBaseline,
       TailorPoints, TailorStore, Abort, rows, history

\* The request that stores the path has written the file before.
Uploads ==
  /\ UploadKept
  /\ \A s \in Sessions : session[s].pc = "path" => session[s].id \in file

LEMMA UploadsStep ==
  ASSUME Shape, Births, Uploads, NEW s \in Sessions, Step(s)
  PROVE  Uploads'
<1>1. /\ uploaded' = uploaded /\ cut \subseteq cut'
      /\ \A t \in Sessions : t # s => session'[t] = session[t]
      /\ Ended(s) \/ (Goes(s) /\ Moves(s))
  BY StepLeaves, StepShape DEF Ended, Goes
<1>2. CASE session[s].pc \notin {"file", "path"} /\ ~CreateCommit(s)
  <2>1. file' = file
    BY <1>2, StepLeaves DEF SaveFile
  <2>2. \A i \in Stored' : i \in Stored /\ (profile[i].pdf => profile'[i].pdf)
    <3>1. CASE profile' = profile
      BY <3>1 DEF Stored, Exists
    <3>2. CASE ChangeCommit(s) /\ profile' # profile
      BY <3>2, ChangeCommitRows
    <3>3. CASE ~ChangeCommit(s)
      BY <1>2, <3>3, OtherRows
    <3>. QED BY <3>1, <3>2, <3>3
  <2>3. session'[s].pc \notin {"file", "path"}
    <3>1. Ended(s) => session'[s].pc = "free"
      BY RowTypes DEF Ended
    <3>2. ~(session[s].pc = "commit" /\ session[s].op = "create" /\ session'[s].pc = "file")
      <4>1. SUFFICES ASSUME session[s].pc = "commit", session[s].op = "create",
                            session'[s].pc = "file"
                     PROVE  FALSE
        OBVIOUS
      <4>2. ~Abort(s)
        BY <4>1, RowTypes DEF Abort, End, Shape, TypeOK
      <4>. QED BY <1>2, <4>1, <4>2 DEF Step, ClearRow, ClearDone, SaveFile, SavePath,
             ExtractAnswer, ChangeCommit, DeleteCommit, PointCommit, EvaluateCommit,
             TailorBaseline, TailorPoints, TailorStore
    <3>. QED BY <1>1, <1>2, <3>1, <3>2 DEF Moves
  <2>4. \A i \in Stored' \cap uploaded' :
          \/ profile'[i].pdf /\ i \in file'
          \/ i \in cut'
          \/ \E t \in Sessions : session'[t].id = i /\ session'[t].pc \in {"file", "path"}
    <3>. TAKE i \in Stored' \cap uploaded'
    <3>1. \/ profile[i].pdf /\ i \in file
          \/ i \in cut
          \/ \E t \in Sessions : session[t].id = i /\ session[t].pc \in {"file", "path"}
      BY <1>1, <2>2 DEF Uploads, UploadKept
    <3>. QED BY <1>1, <1>2, <2>1, <2>2, <3>1
  <2>. QED BY <1>1, <2>1, <2>3, <2>4 DEF Uploads, UploadKept
<1>3. CASE CreateCommit(s)
  <2>1. file' = file
    BY <1>3 DEF CreateCommit
  <2>2. /\ session[s].pc = "commit"
        /\ IF session[s].id \in uploaded
           THEN session'[s].id = session[s].id /\ session'[s].pc = "file"
           ELSE session'[s].pc = "free"
    BY <1>3, CreateCommitShape, RowTypes DEF Goes, Ended
  <2>3. /\ Stored' = Stored \cup {session[s].id}
        /\ \A i \in Stored' : i # session[s].id => profile'[i].pdf = profile[i].pdf
    BY <1>3, CreateCommitRows
  <2>4. \A i \in Stored' \cap uploaded' :
          \/ profile'[i].pdf /\ i \in file'
          \/ i \in cut'
          \/ \E t \in Sessions : session'[t].id = i /\ session'[t].pc \in {"file", "path"}
    <3>. TAKE i \in Stored' \cap uploaded'
    <3>1. CASE i = session[s].id
      BY <1>1, <2>2, <3>1
    <3>2. CASE i # session[s].id
      <4>1. \/ profile[i].pdf /\ i \in file
            \/ i \in cut
            \/ \E t \in Sessions : session[t].id = i /\ session[t].pc \in {"file", "path"}
        BY <1>1, <2>3, <3>2 DEF Uploads, UploadKept
      <4>. QED BY <1>1, <2>1, <2>2, <2>3, <3>2, <4>1
    <3>. QED BY <3>1, <3>2
  <2>. QED BY <1>1, <2>1, <2>2, <2>4 DEF Uploads, UploadKept
<1>4. CASE SaveFile(s)
  <2>1. /\ \/ /\ session'[s].id = session[s].id /\ session'[s].pc = "path"
              /\ file' = file \cup {session[s].id}
           \/ /\ session'[s].pc = "free" /\ session[s].id \in cut'
              /\ file' = file
        /\ profile' = profile
    BY <1>4, SaveFileShape, RowTypes DEF Goes, Ended, SaveFile
  <2>2. Stored' = Stored
    BY <2>1 DEF Stored, Exists
  <2>3. \A i \in Stored' \cap uploaded' :
          \/ profile'[i].pdf /\ i \in file'
          \/ i \in cut'
          \/ \E t \in Sessions : session'[t].id = i /\ session'[t].pc \in {"file", "path"}
    <3>. TAKE i \in Stored' \cap uploaded'
    <3>1. \/ profile[i].pdf /\ i \in file
          \/ i \in cut
          \/ \E t \in Sessions : session[t].id = i /\ session[t].pc \in {"file", "path"}
      BY <1>1, <2>2 DEF Uploads, UploadKept
    <3>. QED BY <1>1, <2>1, <3>1
  <2>. QED BY <1>1, <2>1, <2>3 DEF Uploads, UploadKept
<1>5. CASE SavePath(s)
  <2>1. /\ session'[s].pc = "free" /\ session[s].id \in Ids /\ session[s].id \in file
        /\ file' = file
    BY <1>5, SavePathShape, RowTypes DEF Ended, SavePath, Uploads
  <2>2. \A i \in Stored' : i \in Stored /\ (profile[i].pdf => profile'[i].pdf)
    <3>1. ~CreateCommit(s) /\ ~ChangeCommit(s)
      BY <1>5 DEF SavePath, CreateCommit, ChangeCommit
    <3>. QED BY <3>1, OtherRows
  <2>3. session[s].id \in Stored' => profile'[session[s].id].pdf
    <3>1. CASE Exists(session[s].id)
      <4>1. profile[session[s].id] \in ProfileRow /\ profile \in [Ids -> ProfileRow]
        BY <2>1 DEF Shape, TypeOK
      <4>2. profile' = [profile EXCEPT ![session[s].id].pdf = TRUE]
        BY <1>5, <3>1 DEF SavePath
      <4>. QED BY <2>1, <4>1, <4>2 DEF ProfileRow
    <3>2. CASE ~Exists(session[s].id)
      BY <2>2, <3>2 DEF Stored
    <3>. QED BY <3>1, <3>2
  <2>4. \A i \in Stored' \cap uploaded' :
          \/ profile'[i].pdf /\ i \in file'
          \/ i \in cut'
          \/ \E t \in Sessions : session'[t].id = i /\ session'[t].pc \in {"file", "path"}
    <3>. TAKE i \in Stored' \cap uploaded'
    <3>1. \/ profile[i].pdf /\ i \in file
          \/ i \in cut
          \/ \E t \in Sessions : session[t].id = i /\ session[t].pc \in {"file", "path"}
      BY <1>1, <2>2 DEF Uploads, UploadKept
    <3>. QED BY <1>1, <2>1, <2>2, <2>3, <3>1
  <2>. QED BY <1>1, <2>1, <2>4 DEF Uploads, UploadKept
<1>. QED BY <1>2, <1>3, <1>4, <1>5, FileSteps

LEMMA UploadsNext ==
  ASSUME Shape, Births, Uploads, [Next]_vars
  PROVE  Uploads'
<1>1. ASSUME NEW s \in Sessions, NewRequest(s) PROVE Uploads'
  <2>1. Begins(s)
    BY <1>1, NewRequestShape
  <2>2. /\ session'[s].pc \notin {"file", "path"} /\ session[s].pc = "free"
        /\ \A t \in Sessions : t # s => session'[t] = session[t]
        /\ UNCHANGED <<profile, file, cut>> /\ Stored' = Stored
        /\ uploaded' \subseteq uploaded \cup {serial + 1}
    BY <2>1, RowTypes DEF Begins, Stored, Exists
  <2>3. serial + 1 \notin Stored
    BY ProfilesAssumption DEF Births, Stored, Shape, TypeOK, Ids
  <2>4. \A i \in Stored' \cap uploaded' :
          \/ profile'[i].pdf /\ i \in file'
          \/ i \in cut'
          \/ \E t \in Sessions : session'[t].id = i /\ session'[t].pc \in {"file", "path"}
    <3>. TAKE i \in Stored' \cap uploaded'
    <3>1. \/ profile[i].pdf /\ i \in file
          \/ i \in cut
          \/ \E t \in Sessions : session[t].id = i /\ session[t].pc \in {"file", "path"}
      BY <2>2, <2>3 DEF Uploads, UploadKept
    <3>. QED BY <2>2, <3>1
  <2>. QED BY <2>2, <2>4 DEF Uploads, UploadKept
<1>2. ASSUME NEW s \in Sessions, Step(s) PROVE Uploads'
  BY <1>2, UploadsStep
<1>3. CASE \/ \E q \in Points : PointDelete(q)
           \/ UNCHANGED vars
  <2>1. UNCHANGED <<profile, uploaded, file, cut, session>>
    BY <1>3 DEF PointDelete, vars, rows, history
  <2>. QED BY <2>1 DEF Uploads, UploadKept, Stored, Exists
<1>4. CASE Restart
  <2>1. /\ \A t \in Sessions : session'[t].pc = "free"
        /\ UNCHANGED <<profile, file, uploaded>> /\ Stored' = Stored
        /\ cut \subseteq cut'
        /\ \A t \in Sessions : session[t].pc \in {"file", "path"} => session[t].id \in cut'
    BY <1>4, RowTypes DEF Restart, rows, Stored, Exists
  <2>. QED BY <2>1 DEF Uploads, UploadKept
<1>. QED BY <1>1, <1>2, <1>3, <1>4 DEF Next

LEMMA UploadsInit == Init => Uploads
<1>1. ASSUME Init, NEW s \in Sessions PROVE session[s].pc = "free"
  BY <1>1, RowTypes DEF Init
<1>. QED BY <1>1 DEF Init, Uploads, UploadKept

\* A profile created by an upload has its PDF on disk and on its row, unless its
\* request is at work or was broken off by a restart between its two commits.
THEOREM UploadsKept == Spec => []UploadKept
<1>1. Init => Shape /\ Births /\ Uploads
  BY InitShape, UploadsInit
<1>2. Shape /\ Births /\ Uploads /\ [Next]_vars => (Shape /\ Births /\ Uploads)'
  BY ShapeNext, UploadsNext
<1>3. Uploads => UploadKept
  BY DEF Uploads
<1>. QED BY <1>1, <1>2, <1>3, PTL DEF Spec

----------------------------------------------------------------------------
(* The default profile.                                                     *)

\* A request that makes its profile the default has locked, or has still to
\* lock, every other profile; the exceptions are its rivals.
Clears ==
  \A s, t \in Sessions : SetsDefault(s) =>
    /\ \A j \in Stored \ {session[s].id} :
         \/ j \in session[s].todo \cup session[s].locks
         \/ {j, session[s].id} \in rivals
    /\ Opens(t) /\ s # t => {session[t].id, session[s].id} \in rivals

Defaulted == OneDefault /\ Clears

LEMMA ClearsBegin ==
  ASSUME Shape, Shape', Births, Defaulted, NEW s \in Sessions, Begins(s)
  PROVE  Defaulted'
<1>1. /\ \A t \in Sessions : t # s => session'[t] = session[t]
      /\ Stored' = Stored /\ Defaults' = Defaults /\ rivals \subseteq rivals'
      /\ ~SetsDefault(s) /\ ~Opens(s)
  BY RowTypes DEF Begins, Stored, Exists, Defaults, SetsDefault, Opens
<1>2. OneDefault'
  BY <1>1 DEF Defaulted, OneDefault
<1>3. ASSUME NEW t \in Sessions, SetsDefault(t)', NEW j \in Stored', j # session'[t].id
      PROVE  j \in session'[t].todo \cup session'[t].locks \/ {j, session'[t].id} \in rivals'
  <2>1. CASE t = s
    <3>1. session'[s].todo = Stored \ {session'[s].id}
      BY <1>3, <2>1 DEF Begins, SetsDefault
    <3>. QED BY <1>1, <1>3, <2>1, <3>1
  <2>2. CASE t # s
    <3>1. session'[t] = session[t] /\ SetsDefault(t)
      BY <1>1, <1>3, <2>2 DEF SetsDefault
    <3>. QED BY <1>1, <1>3, <3>1 DEF Defaulted, Clears
  <2>. QED BY <2>1, <2>2
<1>4. ASSUME NEW t \in Sessions, NEW u \in Sessions, SetsDefault(t)', Opens(u)', t # u
      PROVE  {session'[u].id, session'[t].id} \in rivals'
  <2>1. CASE t = s
    <3>1. Opens(u) /\ session'[u] = session[u]
      BY <1>1, <1>4, <2>1 DEF Opens
    <3>2. {session'[s].id, session[u].id} \in rivals'
      BY <1>4, <2>1, <3>1 DEF Begins, SetsDefault
    <3>3. {session'[s].id, session[u].id} = {session[u].id, session'[s].id}
      OBVIOUS
    <3>. QED BY <2>1, <3>1, <3>2, <3>3
  <2>2. CASE u = s
    <3>1. SetsDefault(t) /\ session'[t] = session[t]
      BY <1>1, <1>4, <2>2 DEF SetsDefault
    <3>2. {session'[s].id, session[t].id} \in rivals'
      BY <1>4, <2>2, <3>1 DEF Begins, Opens
    <3>. QED BY <2>2, <3>1, <3>2
  <2>3. CASE t # s /\ u # s
    <3>1. /\ SetsDefault(t) /\ session'[t] = session[t]
          /\ Opens(u) /\ session'[u] = session[u]
      BY <1>1, <1>4, <2>3 DEF SetsDefault, Opens
    <3>. QED BY <1>1, <1>4, <3>1 DEF Defaulted, Clears
  <2>. QED BY <2>1, <2>2, <2>3
<1>5. Clears'
  BY <1>3, <1>4 DEF Clears
<1>. QED BY <1>2, <1>5 DEF Defaulted

\* A commit that sets the flag leaves it with the profile it is about, with those
\* that were no default before, and with its rivals.
LEMMA OneDefaultStep ==
  ASSUME Shape, Births, Defaulted, NEW s \in Sessions, Step(s)
  PROVE  OneDefault'
<1>1. rivals' = rivals
  BY StepLeaves
<1>2. CASE /\ session[s].todo = {}
           /\ session[s].pc = "commit"
           /\ \A i \in Defaults' :
                IF i = session[s].id THEN i \in Defaults \/ session[s].flag = "on"
                ELSE i \in Defaults /\ i \notin session[s].locks
  <2>1. CASE session[s].flag = "on"
    <3>1. SetsDefault(s)
      BY <1>2, <2>1 DEF SetsDefault
    <3>2. \A i \in Defaults' : i # session[s].id =>
            i \in Defaults /\ {i, session[s].id} \in rivals
      BY <1>2, <3>1 DEF Defaulted, Clears, Defaults
    <3>3. ASSUME NEW i \in Defaults', NEW j \in Defaults', i # j
          PROVE  {i, j} \in rivals
      <4>1. CASE i = session[s].id
        <5>1. {j, i} \in rivals /\ {j, i} = {i, j}
          BY <3>2, <3>3, <4>1
        <5>. QED BY <5>1
      <4>2. CASE j = session[s].id
        BY <3>2, <3>3, <4>2
      <4>3. CASE i # session[s].id /\ j # session[s].id
        BY <3>2, <3>3, <4>3 DEF Defaulted, OneDefault
      <4>. QED BY <4>1, <4>2, <4>3
    <3>. QED BY <1>1, <3>3 DEF OneDefault
  <2>2. CASE session[s].flag # "on"
    BY <1>1, <1>2, <2>2 DEF Defaulted, OneDefault
  <2>. QED BY <2>1, <2>2
<1>3. CASE Defaults' \subseteq Defaults
  BY <1>1, <1>3 DEF Defaulted, OneDefault
<1>4. CASE CreateCommit(s)
  <2>1. session[s].todo = {} /\ session[s].pc = "commit"
    BY <1>4, CreateCommitShape
  <2>. QED BY <1>2, <1>4, <2>1, CreateCommitRows DEF Defaults
<1>5. CASE ChangeCommit(s) /\ profile' # profile
  <2>1. session[s].todo = {} /\ session[s].pc = "commit"
    BY <1>5, ChangeCommitShape
  <2>. QED BY <1>2, <1>5, <2>1, ChangeCommitRows DEF Defaults
<1>6. CASE profile' = profile
  <2>1. Defaults' = Defaults
    BY <1>6 DEF Defaults, Stored, Exists
  <2>. QED BY <1>3, <2>1
<1>7. CASE ~CreateCommit(s) /\ ~ChangeCommit(s)
  <2>1. Defaults' \subseteq Defaults
    BY <1>7, OtherRows DEF Defaults
  <2>. QED BY <1>3, <2>1
<1>. QED BY <1>4, <1>5, <1>6, <1>7

LEMMA ClearsStep ==
  ASSUME Shape, Births, Defaulted, NEW s \in Sessions, Step(s)
  PROVE  Clears'
<1>1. rivals' = rivals
  BY StepLeaves
<1>2. \A t \in Sessions :
         /\ Opens(t)' => Opens(t) /\ session'[t].id = session[t].id
         /\ SetsDefault(t)' => SetsDefault(t) /\ session'[t].id = session[t].id
  BY SessionsCalm
<1>3. Stored' \subseteq Stored \cup (IF Opens(s) THEN {session[s].id} ELSE {})
  <2>1. CASE CreateCommit(s) BY <2>1, CreateCommitRows
  <2>2. CASE ChangeCommit(s) /\ profile' # profile BY <2>2, ChangeCommitRows
  <2>3. CASE ~CreateCommit(s) /\ ~ChangeCommit(s) BY <2>3, OtherRows
  <2>4. CASE profile' = profile BY <2>4 DEF Stored, Exists
  <2>. QED BY <2>1, <2>2, <2>3, <2>4
<1>4. ASSUME NEW t \in Sessions, SetsDefault(t)', NEW j \in Stored', j # session'[t].id
      PROVE  j \in session'[t].todo \cup session'[t].locks \/ {j, session'[t].id} \in rivals'
  <2>0. SetsDefault(t) /\ session'[t].id = session[t].id
    BY <1>2, <1>4
  <2>1. \/ j \in session[t].todo \cup session[t].locks
        \/ {j, session[t].id} \in rivals
    BY <1>3, <1>4, <2>0 DEF Defaulted, Clears
  <2>2. CASE t # s
    <3>1. session'[t] = session[t]
      BY <2>2, StepShape DEF Ended, Goes
    <3>. QED BY <1>1, <2>1, <3>1
  <2>3. CASE t = s
    <3>1. session'[s].pc # "free"
      BY <1>4, <2>3 DEF SetsDefault
    <3>2. ~Ended(s)
      BY <3>1, RowTypes DEF Ended
    <3>3. session[s].pc = "clear"
      <4>1. Goes(s) /\ Moves(s) /\ Place(session[s])
        BY <3>2, StepShape DEF Shape, AllPlaced
      <4>. QED BY <1>4, <2>0, <2>3, <4>1 DEF Moves, SetsDefault, Place
    <3>4. ClearRow(s) \/ ClearDone(s)
      <4>1. ~Abort(s)
        BY <3>2, AbortShape
      <4>. QED BY <3>3, <4>1 DEF Step, CreateCommit, SaveFile, SavePath,
             ExtractAnswer, ChangeCommit, DeleteCommit, PointCommit, EvaluateCommit,
             TailorBaseline, TailorPoints, TailorStore
    <3>5. CASE ClearDone(s)
      BY <1>1, <2>1, <2>3, <3>5, ClearDoneShape DEF Goes
    <3>6. CASE ClearRow(s)
      <4>1. PICK i \in session[s].todo :
              /\ session'[s].todo = session[s].todo \ {i}
              /\ session'[s].locks =
                   IF Exists(i) THEN session[s].locks \cup {i} ELSE session[s].locks
        BY <3>6, ClearRowShape
      <4>2. Stored' = Stored
        BY <3>6 DEF ClearRow, rows, Stored, Exists
      <4>. QED BY <1>1, <1>4, <2>0, <2>1, <2>3, <4>1, <4>2 DEF Stored
    <3>. QED BY <3>4, <3>5, <3>6
  <2>. QED BY <2>2, <2>3
<1>5. ASSUME NEW t \in Sessions, NEW u \in Sessions, SetsDefault(t)', Opens(u)', t # u
      PROVE  {session'[u].id, session'[t].id} \in rivals'
  BY <1>1, <1>2, <1>5 DEF Defaulted, Clears
<1>. QED BY <1>4, <1>5 DEF Clears

LEMMA DefaultedNext ==
  ASSUME Shape, Births, Defaulted, [Next]_vars
  PROVE  Defaulted'
<1>1. ASSUME NEW s \in Sessions, NewRequest(s) PROVE Defaulted'
  BY <1>1, NewRequestShape, ClearsBegin
<1>2. ASSUME NEW s \in Sessions, Step(s) PROVE Defaulted'
  BY <1>2, OneDefaultStep, ClearsStep DEF Defaulted
<1>3. CASE \/ \E q \in Points : PointDelete(q)
           \/ UNCHANGED vars
  <2>1. UNCHANGED <<profile, rivals, session>>
    BY <1>3 DEF PointDelete, vars, rows, history
  <2>. QED BY <2>1
       DEF Defaulted, OneDefault, Clears, Defaults, Stored, Exists, SetsDefault, Opens
<1>4. CASE Restart
  <2>1. /\ \A t \in Sessions : session'[t].pc = "free"
        /\ UNCHANGED <<profile, rivals>>
    BY <1>4, RowTypes DEF Restart, rows
  <2>. QED BY <2>1
       DEF Defaulted, OneDefault, Clears, Defaults, Stored, Exists, SetsDefault
<1>. QED BY <1>1, <1>2, <1>3, <1>4 DEF Next

LEMMA DefaultedInit == Init => Defaulted
<1>1. ASSUME Init PROVE Defaulted
  <2>1. \A s \in Sessions : session[s].pc = "free"
    BY <1>1, RowTypes DEF Init
  <2>2. \A i \in Defaults : i = 1
    <3>1. ASSUME NEW i \in Ids, i # 1 PROVE ~profile[i].default
      BY <1>1, <3>1 DEF Init, NoRow
    <3>. QED BY <3>1 DEF Defaults, Stored
  <2>. QED BY <2>1, <2>2 DEF Defaulted, OneDefault, Clears, SetsDefault
<1>. QED BY <1>1

\* At most one profile is the default, unless one of the two was still being
\* created when the request that made the other one the default began.
THEOREM DefaultIsOne == Spec => []OneDefault
<1>1. Init => Shape /\ Births /\ Defaulted
  BY InitShape, DefaultedInit
<1>2. Shape /\ Births /\ Defaulted /\ [Next]_vars => (Shape /\ Births /\ Defaulted)'
  BY ShapeNext, DefaultedNext
<1>3. Defaulted => OneDefault
  BY DEF Defaulted
<1>. QED BY <1>1, <1>2, <1>3, PTL DEF Spec

----------------------------------------------------------------------------
(* The profile and the evidence behind a resume.                            *)

\* An analysis, and a tailoring at any place, goes back to the profile that has
\* scored, or that profile has been deleted.
Baselines ==
  /\ BaselineKept
  /\ \A a \in Ids : analysis[a] \in {a, NoAnalysis} \/ (analysis[a] = Global /\ a \in deleted)
  /\ \A s \in Sessions :
       /\ session[s].pc = "baseline" => \A l \in session[s].todo :
            l = session[s].id \/ (l = Global /\ session[s].id \in deleted)
       /\ session[s].pc \in {"points", "draft"} => \A b \in session[s].todo :
            b = session[s].id \/ session[s].id \in deleted

\* A proof point belongs to the profile it was given to, or that was deleted.
Ownership ==
  /\ EvidenceOwned
  /\ \A q \in Points : point[q] = given[q] \/ (point[q] = Global /\ given[q] \in deleted)
  /\ \A s \in Sessions : session[s].pc = "draft" =>
       \A b \in session[s].todo, p \in session[s].points : p[2] \in {b, Global} \cup deleted

Sources == Baselines /\ Ownership

\* The steps of the other requests, and the first step of any request.
LEMMA SourcesElsewhere ==
  ASSUME Shape, Sources, NEW s \in Sessions,
         \A t \in Sessions : t # s => session'[t] = session[t],
         session'[s].pc \notin {"baseline", "points", "draft"},
         UNCHANGED <<resumes, analysis, point, given>>, deleted \subseteq deleted'
  PROVE  Sources'
<1>1. Baselines'
  BY DEF Sources, Baselines, BaselineKept
<1>2. Ownership'
  BY DEF Sources, Ownership, EvidenceOwned
<1>. QED BY <1>1, <1>2 DEF Sources

LEMMA SourcesBegin ==
  ASSUME Shape, Sources, Shape', NEW s \in Sessions, Begins(s)
  PROVE  Sources'
<1>1. /\ \A t \in Sessions : t # s => session'[t] = session[t]
      /\ UNCHANGED <<resumes, analysis, point, given, deleted>>
      /\ session'[s].pc \notin {"points", "draft"}
  BY DEF Begins
<1>2. CASE session'[s].pc # "baseline"
  BY <1>1, <1>2, SourcesElsewhere
<1>3. CASE session'[s].pc = "baseline"
  <2>1. session'[s].op = "tailor" /\ session'[s].id \in Ids
    <3>1. Place(session'[s])
      BY DEF Shape, AllPlaced
    <3>. QED BY <1>3, <3>1 DEF Begins, Place, Operations
  <2>2. /\ session'[s].todo = {analysis[session'[s].id]}
        /\ analysis[session'[s].id] # NoAnalysis
    BY <2>1 DEF Begins
  <2>3. \A l \in session'[s].todo :
          l = session'[s].id \/ (l = Global /\ session'[s].id \in deleted')
    BY <1>1, <2>1, <2>2 DEF Sources, Baselines
  <2>4. Baselines'
    BY <1>1, <1>3, <2>3 DEF Sources, Baselines, BaselineKept
  <2>5. Ownership'
    BY <1>1, <1>3 DEF Sources, Ownership, EvidenceOwned
  <2>. QED BY <2>4, <2>5 DEF Sources
<1>. QED BY <1>2, <1>3

LEMMA SourcesStep ==
  ASSUME Shape, Sources, NEW s \in Sessions, Step(s)
  PROVE  Sources'
<1>1. /\ \A t \in Sessions : t # s => session'[t] = session[t]
      /\ deleted \subseteq deleted'
      /\ Ended(s) => session'[s].pc = "free"
  BY StepShape, StepLeaves, RowTypes DEF Ended, Goes
<1>2. CASE TailorBaseline(s)
  <2>0. UNCHANGED <<resumes, analysis, point, given, deleted>>
    BY <1>2 DEF TailorBaseline, rows, history
  <2>1. CASE Ended(s)
    BY <1>1, <2>0, <2>1, SourcesElsewhere
  <2>2. CASE ~Ended(s)
    <3>1. PICK l \in 0..MaxProfiles, b \in Ids :
            /\ session[s].todo = {l} /\ session'[s].todo = {b}
            /\ l # Global => b = l
      BY <1>2, <2>2, TailorBaselineShape
    <3>2. /\ session[s].pc = "baseline" /\ session'[s].pc = "points"
          /\ session'[s].id = session[s].id
      BY <1>2, <2>2, TailorBaselineShape DEF Goes
    <3>3. b = session[s].id \/ session[s].id \in deleted
      <4>1. l = session[s].id \/ (l = Global /\ session[s].id \in deleted)
        <5>1. l \in session[s].todo
          BY <3>1
        <5>. QED BY <3>2, <5>1 DEF Sources, Baselines
      <4>2. session[s].id # Global
        <5>1. Place(session[s]) /\ session[s] \in SessionRow
          BY DEF Shape, TypeOK, AllPlaced
        <5>2. session[s].id \in Ids
          BY <3>2, <5>1 DEF Place, SessionRow, Operations
        <5>. QED BY <5>2, ProfilesAssumption DEF Ids, Global
      <4>. QED BY <3>1, <4>1, <4>2
    <3>4. Baselines'
      BY <1>1, <2>0, <3>1, <3>2, <3>3 DEF Sources, Baselines, BaselineKept
    <3>5. Ownership'
      BY <1>1, <2>0, <3>2 DEF Sources, Ownership, EvidenceOwned
    <3>. QED BY <3>4, <3>5 DEF Sources
  <2>. QED BY <2>1, <2>2
<1>3. CASE TailorPoints(s)
  <2>0. UNCHANGED <<resumes, analysis, point, given, deleted>>
    BY <1>3 DEF TailorPoints, rows, history
  <2>1. PICK b \in Ids :
          /\ session[s].todo = {b} /\ session'[s].todo = {b}
          /\ session'[s].points = {<<q, given[q]>> : q \in Eligible(b)}
    BY <1>3, TailorPointsShape
  <2>2. /\ session[s].pc = "points" /\ session'[s].pc = "draft"
        /\ session'[s].id = session[s].id
    BY <1>3, TailorPointsShape DEF Goes
  <2>3. \A q \in Eligible(b) : given[q] \in {b, Global} \cup deleted
    BY DEF Eligible, Sources, Ownership
  <2>4. \A p \in session'[s].points : p[2] \in {b, Global} \cup deleted
    BY <2>1, <2>3
  <2>5. Baselines'
    BY <1>1, <2>0, <2>1, <2>2 DEF Sources, Baselines, BaselineKept
  <2>6. Ownership'
    BY <1>1, <2>0, <2>1, <2>2, <2>4 DEF Sources, Ownership, EvidenceOwned
  <2>. QED BY <2>5, <2>6 DEF Sources
<1>4. CASE TailorStore(s)
  <2>0. UNCHANGED <<analysis, point, given, deleted>>
    BY <1>4 DEF TailorStore, history
  <2>1. PICK b \in Ids :
          /\ session[s].todo = {b}
          /\ resumes' \in {resumes, resumes \cup
               {[of |-> session[s].id, baseline |-> b, points |-> session[s].points]}}
    BY <1>4, TailorStoreShape
  <2>2. session[s].pc = "draft" /\ session'[s].pc = "free"
    BY <1>1, <1>4, TailorStoreShape
  <2>3. PICK r : r = [of |-> session[s].id, baseline |-> b, points |-> session[s].points]
    OBVIOUS
  <2>4. r.of = session[s].id /\ r.baseline = b /\ r.points = session[s].points
    BY <2>3
  <2>5. r.baseline = r.of \/ r.of \in deleted
    BY <2>1, <2>2, <2>4 DEF Sources, Baselines
  <2>6. \A p \in r.points : p[2] \in {r.baseline, Global} \cup deleted
    BY <2>1, <2>2, <2>4 DEF Sources, Ownership
  <2>7. \A x \in resumes' : x \in resumes \/ x = r
    BY <2>1, <2>3
  <2>8. BaselineKept' /\ EvidenceOwned'
    BY <2>0, <2>5, <2>6, <2>7
       DEF Sources, Baselines, BaselineKept, Ownership, EvidenceOwned
  <2>9. Baselines'
    BY <1>1, <2>0, <2>2, <2>8 DEF Sources, Baselines
  <2>10. Ownership'
    BY <1>1, <2>0, <2>2, <2>8 DEF Sources, Ownership
  <2>. QED BY <2>9, <2>10 DEF Sources
<1>5. CASE DeleteCommit(s)
  <2>1. /\ session[s].id \in Ids /\ session'[s].pc = "free"
        /\ analysis' = [a \in Ids |-> IF analysis[a] = session[s].id THEN Global ELSE analysis[a]]
        /\ point' = [q \in Points |-> IF point[q] = session[s].id THEN Global ELSE point[q]]
        /\ deleted' = deleted \cup {session[s].id} /\ UNCHANGED <<resumes, given>>
    BY <1>1, <1>5, DeleteCommitShape DEF DeleteCommit
  <2>2. session[s].id # Global /\ session[s].id # NoAnalysis
    BY <2>1, ProfilesAssumption DEF Ids, Global, NoAnalysis
  <2>3. \A a \in Ids :
          analysis'[a] \in {a, NoAnalysis} \/ (analysis'[a] = Global /\ a \in deleted')
    BY <2>1, <2>2 DEF Sources, Baselines
  <2>4. \A q \in Points :
          point'[q] = given'[q] \/ (point'[q] = Global /\ given'[q] \in deleted')
    BY <2>1, <2>2 DEF Sources, Ownership
  <2>5. Baselines'
    BY <1>1, <2>1, <2>3 DEF Sources, Baselines, BaselineKept
  <2>6. Ownership'
    BY <1>1, <2>1, <2>4 DEF Sources, Ownership, EvidenceOwned
  <2>. QED BY <2>5, <2>6 DEF Sources
<1>6. CASE EvaluateCommit(s)
  <2>1. /\ session'[s].pc = "free" /\ UNCHANGED <<resumes, point, given, deleted>>
        /\ \A a \in Ids : analysis'[a] \in {a, analysis[a]}
    BY <1>1, <1>6, EvaluateCommitShape DEF EvaluateCommit, history, Shape, TypeOK
  <2>2. Baselines'
    BY <1>1, <2>1 DEF Sources, Baselines, BaselineKept
  <2>3. Ownership'
    BY <1>1, <2>1 DEF Sources, Ownership, EvidenceOwned
  <2>. QED BY <2>2, <2>3 DEF Sources
<1>7. CASE PointCommit(s)
  <2>1. /\ session'[s].pc = "free" /\ UNCHANGED <<resumes, analysis, deleted>>
        /\ \/ UNCHANGED <<point, given>>
           \/ \E q, i : /\ point' = [point EXCEPT ![q] = i]
                        /\ given' = [given EXCEPT ![q] = i]
    BY <1>1, <1>7, PointCommitShape DEF PointCommit
  <2>2. \A q \in Points :
          point'[q] = given'[q] \/ (point'[q] = point[q] /\ given'[q] = given[q])
    BY <2>1 DEF Shape, TypeOK
  <2>3. Baselines'
    BY <1>1, <2>1 DEF Sources, Baselines, BaselineKept
  <2>4. Ownership'
    BY <1>1, <2>1, <2>2 DEF Sources, Ownership, EvidenceOwned
  <2>. QED BY <2>3, <2>4 DEF Sources
<1>8. CASE /\ ~TailorBaseline(s) /\ ~TailorPoints(s) /\ ~TailorStore(s)
           /\ ~DeleteCommit(s) /\ ~EvaluateCommit(s) /\ ~PointCommit(s)
  <2>1. UNCHANGED <<resumes, analysis, point, given>>
    BY <1>8, StepLeaves
  <2>2. session'[s].pc \notin {"baseline", "points", "draft"}
    <3>1. session[s].pc \notin {"baseline", "points"} \/ Ended(s)
      <4>1. SUFFICES ASSUME session[s].pc \in {"baseline", "points"} PROVE Ended(s)
        OBVIOUS
      <4>2. Abort(s)
        BY <1>8, <4>1 DEF Step, ClearRow, ClearDone, CreateCommit, SaveFile, SavePath,
           ExtractAnswer, ChangeCommit
      <4>. QED BY <4>2, AbortShape
    <3>. QED BY <1>1, <3>1, StepShape DEF Moves
  <2>. QED BY <1>1, <2>1, <2>2, SourcesElsewhere
<1>. QED BY <1>2, <1>3, <1>4, <1>5, <1>6, <1>7, <1>8

LEMMA SourcesNext ==
  ASSUME Shape, Births, Sources, [Next]_vars
  PROVE  Sources'
<1>1. ASSUME NEW s \in Sessions, NewRequest(s) PROVE Sources'
  BY <1>1, NewRequestShape, SourcesBegin
<1>2. ASSUME NEW s \in Sessions, Step(s) PROVE Sources'
  BY <1>2, SourcesStep
<1>3. ASSUME NEW q \in Points, PointDelete(q) PROVE Sources'
  <2>1. /\ UNCHANGED <<resumes, analysis, session, deleted>>
        /\ \A x \in Points :
             point'[x] = given'[x] \/ (point'[x] = point[x] /\ given'[x] = given[x])
    BY <1>3 DEF PointDelete, Shape, TypeOK
  <2>2. Baselines'
    BY <2>1 DEF Sources, Baselines, BaselineKept
  <2>3. Ownership'
    BY <2>1 DEF Sources, Ownership, EvidenceOwned
  <2>. QED BY <2>2, <2>3 DEF Sources
<1>4. CASE Restart
  <2>1. /\ \A t \in Sessions : session'[t].pc = "free"
        /\ UNCHANGED <<resumes, analysis, point, given, deleted>>
    BY <1>4, RowTypes DEF Restart, rows
  <2>2. Baselines'
    BY <2>1 DEF Sources, Baselines, BaselineKept
  <2>3. Ownership'
    BY <2>1 DEF Sources, Ownership, EvidenceOwned
  <2>. QED BY <2>2, <2>3 DEF Sources
<1>5. CASE UNCHANGED vars
  <2>1. UNCHANGED <<resumes, analysis, point, given, deleted, session>>
    BY <1>5 DEF vars, rows, history
  <2>. QED BY <2>1 DEF Sources, Baselines, BaselineKept, Ownership, EvidenceOwned
<1>. QED BY <1>1, <1>2, <1>3, <1>4, <1>5 DEF Next

LEMMA SourcesInit == Init => Sources
<1>1. ASSUME Init, NEW s \in Sessions PROVE session[s].pc = "free"
  BY <1>1, RowTypes DEF Init
<1>2. ASSUME Init PROVE Baselines
  BY <1>1, <1>2 DEF Init, Baselines, BaselineKept
<1>3. ASSUME Init PROVE Ownership
  BY <1>1, <1>3 DEF Init, Ownership, EvidenceOwned
<1>. QED BY <1>2, <1>3 DEF Sources

LEMMA SourcesAlways == Spec => []Sources
<1>1. Init => Shape /\ Births /\ Sources
  BY InitShape, SourcesInit
<1>2. Shape /\ Births /\ Sources /\ [Next]_vars => (Shape /\ Births /\ Sources)'
  BY ShapeNext, SourcesNext
<1>. QED BY <1>1, <1>2, PTL DEF Spec

\* A resume is tailored from the profile that scored its analysis, unless that
\* profile has been deleted.
THEOREM BaselineIsKept == Spec => []BaselineKept
<1>1. Sources => BaselineKept
  BY DEF Sources, Baselines
<1>. QED BY <1>1, SourcesAlways, PTL

\* The evidence of a resume is that of its baseline, or global, or was given to a
\* profile that has been deleted.
THEOREM EvidenceIsOwned == Spec => []EvidenceOwned
<1>1. Sources => EvidenceOwned
  BY DEF Sources, Ownership
<1>. QED BY <1>1, SourcesAlways, PTL

----------------------------------------------------------------------------
(* A request that meets no other writer of profiles.                        *)

\* Nobody else writes profiles, the row is still the one it has read, and it has
\* locked, or has still to lock, every other profile.
Alone ==
  /\ \A s \in Sessions \ mixed : Writes(s) =>
       /\ \A t \in Sessions : t # s => ~Writes(t)
       /\ session[s].op \in {"update", "structure"} => profile[session[s].id] = session[s].seen
       /\ SetsDefault(s) => Stored \ {session[s].id} \subseteq session[s].todo \cup session[s].locks
  /\ \A s \in Sessions : session[s].op = "structure" /\ session[s].structured \in Texts =>
       session[s].structured = session[s].seen.text

LEMMA FreeWritesNot ==
  /\ \A s \in Sessions : session[s] = Free => ~Writes(s)
  /\ \A s \in Sessions : session[s].op \in Writers <=> Writes(s)
BY RowTypes DEF Writes, Idle, Writers

LEMMA AloneBegin ==
  ASSUME Shape, Alone, NEW s \in Sessions, Begins(s)
  PROVE  Alone'
<1>1. /\ \A t \in Sessions : t # s => session'[t] = session[t]
      /\ session[s] = Free /\ profile' = profile /\ Stored' = Stored
  BY DEF Begins, Stored, Exists
<1>2. /\ ~Writes(s) /\ (Writes(s)' => session'[s].op \in Writers)
      /\ \A t \in Sessions : t # s => (Writes(t)' <=> Writes(t))
  <2>1. ~Writes(s)
    BY <1>1, FreeWritesNot
  <2>2. Writes(s)' => session'[s].op \in Writers
    BY DEF Writes, Writers
  <2>3. \A t \in Sessions : t # s => (Writes(t)' <=> Writes(t))
    BY <1>1 DEF Writes, Idle
  <2>. QED BY <2>1, <2>2, <2>3
<1>3. \A t \in Sessions : session'[t].op = "structure" /\ session'[t].structured \in Texts =>
        session'[t].structured = session'[t].seen.text
  <2>. TAKE t \in Sessions
  <2>1. CASE t = s BY <2>1 DEF Begins
  <2>2. CASE t # s BY <1>1, <2>2 DEF Alone
  <2>. QED BY <2>1, <2>2
<1>4. CASE session'[s].op \notin Writers
  <2>1. mixed' = mixed /\ ~(Writes(s)')
    BY <1>2, <1>4 DEF Begins
  <2>2. ASSUME NEW t \in Sessions, t \notin mixed', Writes(t)'
        PROVE  /\ \A u \in Sessions : u # t => ~(Writes(u)')
               /\ session'[t].op \in {"update", "structure"} =>
                    profile'[session'[t].id] = session'[t].seen
               /\ SetsDefault(t)' =>
                    Stored' \ {session'[t].id} \subseteq session'[t].todo \cup session'[t].locks
    <3>1. t # s /\ t \notin mixed /\ Writes(t) /\ session'[t] = session[t]
      BY <1>1, <1>2, <2>1, <2>2
    <3>2. \A u \in Sessions : u # t => ~(Writes(u)')
      BY <1>2, <2>1, <3>1 DEF Alone
    <3>3. SetsDefault(t)' => SetsDefault(t)
      BY <3>1 DEF SetsDefault
    <3>. QED BY <1>1, <3>1, <3>2, <3>3 DEF Alone
  <2>. QED BY <1>3, <2>2 DEF Alone
<1>5. CASE session'[s].op \in Writers
  <2>1. PICK others : others = {t \in Sessions \ {s} : Writes(t)}
    OBVIOUS
  <2>2. mixed' = IF others = {} THEN mixed \ {s} ELSE mixed \cup others \cup {s}
    BY <1>5, <2>1 DEF Begins, Meets
  <2>3. ASSUME NEW t \in Sessions, t \notin mixed', Writes(t)'
        PROVE  t = s /\ others = {}
    BY <1>2, <2>1, <2>2, <2>3
  <2>4. ASSUME NEW t \in Sessions, t \notin mixed', Writes(t)'
        PROVE  /\ \A u \in Sessions : u # t => ~(Writes(u)')
               /\ session'[t].op \in {"update", "structure"} =>
                    profile'[session'[t].id] = session'[t].seen
               /\ SetsDefault(t)' =>
                    Stored' \ {session'[t].id} \subseteq session'[t].todo \cup session'[t].locks
    <3>1. t = s /\ others = {}
      BY <2>3, <2>4
    <3>2. \A u \in Sessions : u # t => ~(Writes(u)')
      BY <1>2, <2>1, <3>1
    <3>3. session'[s].op \in {"update", "structure"} =>
            profile'[session'[s].id] = session'[s].seen
      BY <1>1 DEF Begins
    <3>4. SetsDefault(s)' => session'[s].todo = Stored \ {session'[s].id}
      BY DEF Begins, SetsDefault
    <3>. QED BY <1>1, <3>1, <3>2, <3>3, <3>4
  <2>. QED BY <1>3, <2>4 DEF Alone
<1>. QED BY <1>4, <1>5

\* Only writers of profiles change the rows of profiles, and a request stays a
\* writer until it ends.
LEMMA RowWriters ==
  ASSUME Shape, NEW s \in Sessions, Step(s)
  PROVE  /\ profile' # profile => Writes(s)
         /\ \A t \in Sessions : Writes(t)' => Writes(t)
<1>1. profile' # profile => session[s].op \in Writers
  <2>1. CASE SavePath(s) BY <2>1, SavePathShape DEF Writers
  <2>2. CASE CreateCommit(s) BY <2>2 DEF CreateCommit, Writers
  <2>3. CASE ChangeCommit(s) BY <2>3 DEF ChangeCommit, Writers
  <2>4. CASE DeleteCommit(s) BY <2>4 DEF DeleteCommit, Writers
  <2>5. CASE ~SavePath(s) /\ ~CreateCommit(s) /\ ~ChangeCommit(s) /\ ~DeleteCommit(s)
    <3>1. profile' = profile
      BY <2>5 DEF Step, ClearRow, ClearDone, SaveFile, ExtractAnswer, PointCommit,
         EvaluateCommit, TailorBaseline, TailorPoints, TailorStore, Abort, rows
    <3>. QED BY <3>1
  <2>. QED BY <2>1, <2>2, <2>3, <2>4, <2>5
<1>2. \A t \in Sessions : Writes(t)' => Writes(t)
  <2>1. \A t \in Sessions : Writes(t)' => session'[t].op \in Writers
    BY DEF Writes, Writers
  <2>2. \A t \in Sessions : session'[t].op \in {session[t].op, "none"}
    BY StepShape, RowTypes DEF Ended, Goes
  <2>3. "none" \notin Writers
    BY DEF Writers
  <2>. QED BY <2>1, <2>2, <2>3, FreeWritesNot
<1>. QED BY <1>1, <1>2, FreeWritesNot

LEMMA AloneStep ==
  ASSUME Shape, Births, Alone, NEW s \in Sessions, Step(s)
  PROVE  Alone'
<1>1. /\ mixed' = mixed
      /\ Ended(s) \/ (Goes(s) /\ Moves(s))
      /\ \A t \in Sessions : t # s => session'[t] = session[t]
      /\ Place(session[s])
  BY StepLeaves, StepShape DEF Ended, Goes, Shape, AllPlaced
<1>2. /\ profile' # profile => Writes(s)
      /\ \A t \in Sessions : Writes(t)' => Writes(t)
  BY RowWriters
<1>3. \A t \in Sessions : session'[t].op = "structure" /\ session'[t].structured \in Texts =>
        session'[t].structured = session'[t].seen.text
  <2>. TAKE t \in Sessions
  <2>1. CASE t = s BY <1>1, <2>1, RowTypes DEF Alone, Ended, Goes
  <2>2. CASE t # s BY <1>1, <2>2 DEF Alone
  <2>. QED BY <2>1, <2>2
<1>4. ASSUME NEW t \in Sessions, t \notin mixed', Writes(t)', t # s
      PROVE  /\ session'[t].op \in {"update", "structure"} =>
                    profile'[session'[t].id] = session'[t].seen
             /\ SetsDefault(t)' =>
                    Stored' \ {session'[t].id} \subseteq session'[t].todo \cup session'[t].locks
  <2>1. Writes(t) /\ t \notin mixed /\ session'[t] = session[t] /\ ~Writes(s)
    BY <1>1, <1>2, <1>4 DEF Alone
  <2>2. profile' = profile /\ Stored' = Stored
    BY <1>2, <2>1 DEF Stored, Exists
  <2>3. SetsDefault(t)' => SetsDefault(t)
    BY <2>1 DEF SetsDefault
  <2>. QED BY <2>1, <2>2, <2>3 DEF Alone
<1>5. ASSUME s \notin mixed', Writes(s)'
      PROVE  /\ session'[s].op \in {"update", "structure"} =>
                    profile'[session'[s].id] = session'[s].seen
             /\ SetsDefault(s)' =>
                    Stored' \ {session'[s].id} \subseteq session'[s].todo \cup session'[s].locks
  <2>1. Writes(s) /\ s \notin mixed
    BY <1>1, <1>2, <1>5
  <2>2. ~Ended(s)
    BY <1>5 DEF Ended, Writes, Idle
  <2>3. Goes(s) /\ Moves(s) /\ ~Abort(s)
    BY <1>1, <2>2, AbortShape
  <2>4. ASSUME session'[s].op \in {"update", "structure"}
        PROVE  profile'[session'[s].id] = session'[s].seen
    <3>1. session[s].op \in {"update", "structure"}
      BY <2>3, <2>4 DEF Goes
    <3>2. ~ChangeCommit(s)
      BY <2>2, ChangeCommitShape
    <3>3. session[s].pc # "path"
      BY <1>1, <3>1 DEF Place
    <3>4. profile' = profile
      BY <2>3, <3>1, <3>2, <3>3
         DEF Step, ClearRow, ClearDone, CreateCommit, SaveFile, SavePath, ExtractAnswer,
             DeleteCommit, PointCommit, EvaluateCommit, TailorBaseline, TailorPoints,
             TailorStore, rows
    <3>. QED BY <2>1, <2>3, <3>1, <3>4 DEF Goes, Alone
  <2>5. ASSUME SetsDefault(s)'
        PROVE  Stored' \ {session'[s].id} \subseteq session'[s].todo \cup session'[s].locks
    <3>1. SetsDefault(s) /\ session'[s].id = session[s].id
      BY <2>5, SessionsCalm
    <3>2. Stored \ {session[s].id} \subseteq session[s].todo \cup session[s].locks
      BY <2>1, <3>1 DEF Alone
    <3>3. session[s].pc = "clear"
      BY <1>1, <2>3, <2>5 DEF Moves, SetsDefault, Goes, Place
    <3>4. CASE ClearDone(s)
      <4>1. Stored' = Stored
        BY <3>4 DEF ClearDone, rows, Stored, Exists
      <4>. QED BY <3>1, <3>2, <3>4, <4>1, ClearDoneShape
    <3>5. CASE ClearRow(s)
      <4>1. PICK i \in session[s].todo :
              /\ session'[s].todo = session[s].todo \ {i}
              /\ session'[s].locks =
                   IF Exists(i) THEN session[s].locks \cup {i} ELSE session[s].locks
        BY <3>5, ClearRowShape
      <4>2. Stored' = Stored
        BY <3>5 DEF ClearRow, rows, Stored, Exists
      <4>. QED BY <3>1, <3>2, <4>1, <4>2 DEF Stored
    <3>. QED BY <2>3, <3>3, <3>4, <3>5 DEF Step, CreateCommit, SaveFile, SavePath,
           ExtractAnswer, ChangeCommit, DeleteCommit, PointCommit, EvaluateCommit,
           TailorBaseline, TailorPoints, TailorStore
  <2>. QED BY <2>4, <2>5
<1>6. ASSUME NEW t \in Sessions, t \notin mixed', Writes(t)'
      PROVE  /\ \A u \in Sessions : u # t => ~(Writes(u)')
             /\ session'[t].op \in {"update", "structure"} =>
                    profile'[session'[t].id] = session'[t].seen
             /\ SetsDefault(t)' =>
                    Stored' \ {session'[t].id} \subseteq session'[t].todo \cup session'[t].locks
  <2>1. \A u \in Sessions : u # t => ~(Writes(u)')
    BY <1>1, <1>2, <1>6 DEF Alone
  <2>2. CASE t = s BY <1>5, <1>6, <2>1, <2>2
  <2>3. CASE t # s BY <1>4, <1>6, <2>1, <2>3
  <2>. QED BY <2>2, <2>3
<1>. QED BY <1>3, <1>6 DEF Alone

LEMMA AloneNext ==
  ASSUME Shape, Births, Alone, [Next]_vars
  PROVE  Alone'
<1>1. ASSUME NEW s \in Sessions, NewRequest(s) PROVE Alone'
  BY <1>1, NewRequestShape, AloneBegin
<1>2. ASSUME NEW s \in Sessions, Step(s) PROVE Alone'
  BY <1>2, AloneStep
<1>3. CASE \/ \E q \in Points : PointDelete(q)
           \/ UNCHANGED vars
  <2>1. UNCHANGED <<profile, mixed, session>>
    BY <1>3 DEF PointDelete, vars, rows, history
  <2>. QED BY <2>1 DEF Alone, Writes, Idle, SetsDefault, Stored, Exists
<1>4. CASE Restart
  <2>1. \A t \in Sessions : session'[t] = Free /\ session'[t].op = "none"
    BY <1>4, RowTypes DEF Restart
  <2>. QED BY <2>1 DEF Alone, Writes, Idle
<1>. QED BY <1>1, <1>2, <1>3, <1>4 DEF Next

LEMMA AloneInit == Init => Alone
<1>1. ASSUME Init, NEW s \in Sessions PROVE session[s] = Free /\ session[s].op = "none"
  BY <1>1, RowTypes DEF Init
<1>. QED BY <1>1 DEF Alone, Writes, Idle

\* A session that is alone is never aborted: only writers hold locks.
LEMMA AloneNotAborted ==
  ASSUME Shape, Alone, NEW s \in Sessions \ mixed, Writes(s)
  PROVE  ~Abort(s)
<1>1. SUFFICES ASSUME Abort(s) PROVE FALSE
  OBVIOUS
<1>2. PICK S \in SUBSET Sessions : s \in S /\ DeadlockOf(S)
  BY <1>1 DEF Abort
<1>3. PICK t \in S : WaitsFor(s, t)
  BY <1>2 DEF DeadlockOf
<1>4. t \in Sessions /\ t # s /\ session[t].locks # {} /\ Place(session[t])
  BY <1>3 DEF WaitsFor, Shape, AllPlaced
<1>5. session[t].op \in Writers
  BY <1>4 DEF Place, Writers
<1>6. Writes(t)
  BY <1>4, <1>5, FreeWritesNot
<1>. QED BY <1>4, <1>6 DEF Alone

LEMMA PromiseStep ==
  ASSUME Shape, Births, Alone, [Next]_vars,
         NEW s \in Sessions \ mixed, session[s].pc = "commit",
         session[s].op \in {"create", "update", "structure"},
         session'[s].pc \in {"free", "file"}, restarts' = restarts,
         profile'[session[s].id] # NoRow
  PROVE  /\ session[s].flag = "on" => Defaults' = {session[s].id}
         /\ session[s].op = "structure" /\ session[s].structured \in Texts =>
              profile'[session[s].id].structured = profile'[session[s].id].text
<1>1. /\ Place(session[s]) /\ session[s] \in SessionRow /\ session[s] # Free
      /\ session[s].id \in Ids /\ session[s].todo = {} /\ Writes(s)
  <2>1. Place(session[s]) /\ session[s] \in SessionRow /\ session[s] # Free
    BY RowTypes DEF Shape, TypeOK, AllPlaced
  <2>2. session[s].id \in Ids /\ session[s].todo = {}
    BY <2>1 DEF Place
  <2>3. Writes(s)
    BY FreeWritesNot DEF Writers
  <2>. QED BY <2>1, <2>2, <2>3
<1>2. Step(s)
  <2>1. ASSUME NEW t \in Sessions, NewRequest(t) PROVE FALSE
    BY <1>1, <2>1, NewRequestShape DEF Begins
  <2>2. ASSUME NEW t \in Sessions, Step(t), t # s PROVE FALSE
    BY <2>2, StepShape DEF Ended, Goes
  <2>3. ASSUME Restart PROVE FALSE
    BY <2>3 DEF Restart, Shape, TypeOK
  <2>4. ASSUME UNCHANGED session PROVE FALSE
    BY <2>4
  <2>. QED BY <2>1, <2>2, <2>3, <2>4 DEF Next, PointDelete, vars
<1>3. CreateCommit(s) \/ ChangeCommit(s)
  <2>1. ~Abort(s)
    BY <1>1, AloneNotAborted
  <2>. QED BY <1>2, <2>1 DEF Step, ClearRow, ClearDone, SaveFile, SavePath,
         ExtractAnswer, DeleteCommit, PointCommit, EvaluateCommit,
         TailorBaseline, TailorPoints, TailorStore
<1>4. session[s].flag = "on" => Stored \ {session[s].id} \subseteq session[s].locks
  BY <1>1 DEF Alone, SetsDefault
<1>5. CASE CreateCommit(s)
  <2>1. session[s].flag = "on" => Defaults' = {session[s].id}
    <3>1. \A i \in Defaults' : i # session[s].id =>
            i \in Stored /\ i \notin session[s].locks
      BY <1>5, CreateCommitRows DEF Defaults
    <3>. QED BY <1>4, <1>5, <3>1, CreateCommitRows
  <2>. QED BY <1>5, <2>1 DEF CreateCommit
<1>6. CASE ChangeCommit(s)
  <2>1. Exists(session[s].id)
    BY <1>6 DEF ChangeCommit, Exists
  <2>2. /\ session[s].id \in Stored /\ Stored' = Stored
        /\ \A i \in Stored' : profile'[i].default /\ i # session[s].id =>
             i \in Defaults /\ i \notin session[s].locks
    BY <1>6, <2>1, ChangeRows
  <2>3. IsWritten(profile'[session[s].id], profile[session[s].id], session[s])
    <3>1. profile[session[s].id] \in ProfileRow
      BY <1>1 DEF Shape, TypeOK
    <3>2. profile'[session[s].id] = Written(profile[session[s].id], session[s])
      BY <1>6, <2>1, ChangeRows
    <3>. QED BY <1>1, <3>1, <3>2, WrittenRow
  <2>4. profile[session[s].id] = session[s].seen
    BY <1>1, <1>6 DEF Alone, ChangeCommit
  <2>5. session[s].flag = "on" => profile'[session[s].id].default
    BY <2>3, <2>4 DEF IsWritten
  <2>6. session[s].flag = "on" => Defaults' = {session[s].id}
    BY <1>4, <2>2, <2>5 DEF Defaults
  <2>7. ASSUME session[s].op = "structure", session[s].structured \in Texts
        PROVE  profile'[session[s].id].structured = profile'[session[s].id].text
    <3>1. session[s].text = Keep /\ session[s].structured # Keep
      BY <1>1, <2>7 DEF Place
    <3>2. session[s].structured = session[s].seen.text
      BY <2>7 DEF Alone
    <3>. QED BY <2>3, <2>4, <3>1, <3>2 DEF IsWritten
  <2>. QED BY <2>6, <2>7
<1>. QED BY <1>3, <1>5, <1>6

\* A request that met no other writer leaves the default it sets as the only one,
\* and structured data that is that of the text.
THEOREM AloneIsKept == Spec => AloneKeepsPromise
<1>1. Init => Shape /\ Births /\ Alone
  BY InitShape, AloneInit
<1>2. Shape /\ Births /\ Alone /\ [Next]_vars => (Shape /\ Births /\ Alone)'
  BY ShapeNext, AloneNext
<1>3. Shape /\ Births /\ Alone /\ [Next]_vars =>
      [\A s \in Sessions \ mixed :
       LET x == session[s] IN
       x.pc = "commit" /\ x.op \in {"create", "update", "structure"}
         /\ session'[s].pc \in {"free", "file"}
         /\ restarts' = restarts /\ profile'[x.id] # NoRow =>
         /\ x.flag = "on" => Defaults' = {x.id}
         /\ x.op = "structure" /\ x.structured \in Texts
              => profile'[x.id].structured = profile'[x.id].text]_vars
  BY PromiseStep
<1>. QED BY <1>1, <1>2, <1>3, PTL DEF Spec, AloneKeepsPromise
=============================================================================
