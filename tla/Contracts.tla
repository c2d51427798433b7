----------------------------- MODULE Contracts -------------------------------
(***************************************************************************)
(* The contracts an LLM answer has to meet before it is stored             *)
(* (services/llm/contracts.py).  A field is known by the class of its      *)
(* value, which is all a contract looks at:                                *)
(*   ok       a value of the right type, within its bounds                 *)
(*   padded   ok, between blanks                                           *)
(*   longpad  ok, but with its blanks over the length limit                *)
(*   long     over the limit without them                                  *)
(*   blank    only blanks, or empty                                        *)
(*   none     (of a list) no item at all                                   *)
(*   wrong    a value of another type, or out of range                     *)
(*   null, absent                                                          *)
(* and for documents: fenced, preamble, fragment (an HTML part is          *)
(* missing), unsafe, invented (a fact the resume does not have).           *)
(***************************************************************************)

Steps == {"evaluate", "tailor", "extract", "beautify"}

Plain == {"ok", "padded", "longpad", "long", "blank", "wrong", "null", "absent"}
Items == Plain \cup {"none"}
Document == Plain \cup {"fenced", "preamble", "fragment", "unsafe", "invented"}

\* The fields of an answer, as far as contracts tell them apart: the number, the
\* text, the list and the document of the step, and the token counts.
Fields(step) ==
  CASE step = "evaluate" -> [score |-> {"ok", "wrong", "null", "absent"},
                             text |-> Plain, list |-> Items]
    [] step = "tailor"   -> [doc |-> Document \ {"fragment", "unsafe"},
                             list |-> Items, tokens |-> {"absent", "ok", "wrong"}]
    [] step = "extract"  -> [text |-> Plain, list |-> Items, skills |-> Items]
    [] step = "beautify" -> [doc |-> Document]

AsAsked(step) == [f \in DOMAIN Fields(step) |-> IF f = "tokens" THEN "absent" ELSE "ok"]

\* Answers with at most one field that is not as asked for, and those that say
\* nothing at all.
Payloads(step) ==
  {p \in {[AsAsked(step) EXCEPT ![f] = c] :
             f \in DOMAIN Fields(step), c \in Document \cup Items}
         \cup [DOMAIN Fields(step) -> {"absent", "none"}] :
     \A f \in DOMAIN p : p[f] \in Fields(step)[f]}

\* An answer is JSON text: an object, with or without an unknown field, another
\* value, or broken, in a code fence or not.  HTML comes as it is.
Answer(fence, form, extra, p) ==
  [fence |-> fence, form |-> form, extra |-> extra, fields |-> p]

Answers(step) ==
  {Answer("none", "object", FALSE, p) : p \in Payloads(step)} \cup
  (IF step = "beautify" THEN {}
   ELSE {Answer(n, m, x, AsAsked(step)) : n \in {"none", "closed", "open"},
           m \in {"object", "array", "broken"}, x \in BOOLEAN})

----------------------------------------------------------------------------
(* Values.  A length limit is checked before the blanks are stripped, except *)
(* in the texts of a profile, which are stripped first.                      *)

Text(c) == c \in {"ok", "padded"}
ProfileText(c) == c \in {"ok", "padded", "longpad"}
Absent(c) == c \in {"null", "absent"}
List(c) == c \in {"ok", "padded", "none"}

Stripped(c) == IF c \in {"padded", "longpad"} THEN "ok"
               ELSE IF c = "null" THEN "absent" ELSE c

\* EvaluationOutputContract: the score is an integer from 0 to 100.
EvaluationOk(p) == p.score = "ok" /\ Text(p.text) /\ List(p.list)

\* TailorOutputContract, which has no opinion on the token counts
\* and none on the facts of the resume.
TailorOk(p) == (Text(p.doc) \/ p.doc = "invented") /\ List(p.list)

\* StructuredExtractionOutputContract: every part may be missing, not all.
\* A list may be empty, the skills may not.
ExtractionOk(p) ==
  /\ ProfileText(p.text) \/ Absent(p.text)
  /\ List(p.list) \/ Absent(p.list)
  /\ Text(p.skills) \/ Absent(p.skills)
  /\ \/ ~Absent(p.text)
     \/ ~Absent(p.list) /\ p.list # "none"
     \/ ~Absent(p.skills)

\* _HTMLContractParser: what loads or runs something is noted.
Unsafe(c) == c = "unsafe"

\* _validate_beautify_html: a whole HTML document, not in a fence or after a
\* preamble, safe, and without the inventions that are known.
HtmlOk(c) == c \notin {"fragment", "fenced", "preamble", "invented"} /\ ~Unsafe(c)

\* BeautifyOutputContract: a text, whatever is in it, and then the HTML.
BeautifyOk(p) == (Text(p.doc) \/ p.doc \in Document \ Plain) /\ HtmlOk(p.doc)

Meets(step, p) ==
  CASE step = "evaluate" -> EvaluationOk(p)
    [] step = "tailor"   -> TailorOk(p)
    [] step = "extract"  -> ExtractionOk(p)
    [] step = "beautify" -> BeautifyOk(p)

\* strip_json_code_fence: one closed fence around the object is taken off.
Parses(a) == a.fence # "open" /\ a.form # "broken"

\* The value handed on: blanks stripped, empty parts left out.
Normal(a) ==
  [a EXCEPT !.fence = "none",
            !.fields = [f \in DOMAIN a.fields |-> Stripped(a.fields[f])]]

\* The answer as the client reads it from the text of the model, ...
ClientAccepts(step, a) ==
  IF step = "beautify" THEN BeautifyOk(Normal(a).fields)
  ELSE Parses(a) /\ a.form = "object" /\ ~a.extra /\ Meets(step, a.fields)

\* ... and the value the caller is handed and checks again.
CallerAccepts(step, a) ==
  step # "evaluate" => a.form = "object" /\ ~a.extra /\ Meets(step, a.fields)
=============================================================================
