----------------------------- MODULE Validation -----------------------------
(***************************************************************************)
(* Fixtures as they are written (src/src/fixture.rs): the methods that     *)
(* build one in code, and validate(), which every fixture passes before it *)
(* is served.  A draft is a record with a field for each of the struct's;  *)
(* what is not set is None.                                                *)
(***************************************************************************)
EXTENDS MatchRule

CONSTANTS Lower,   \* header name |-> its lower case form; those outside its
                   \* domain are no tokens of RFC 7230
          Unprintable, \* a word with a character that no header may carry
          NaN      \* a number that is not finite

MAX_JITTER_MS == 60 * 60 * 1000

IsFinite(x) == x # NaN

\* HeaderValue::from_str accepts it.
IsHeaderValue(t) == Unprintable \notin Range(t)

\* FixtureResponse::default()
NoResponse == [ content |-> None, content_template |-> None, tool_calls |-> None,
                stop_reason |-> None, finish_reason |-> None, embedding |-> None ]

\* Fixture::new()
NewFixture ==
  [ match_rule |-> None, provider |-> None, response |-> None, error |-> None,
    refusal |-> None, failure |-> None, streaming |-> None, scenario |-> None,
    priority |-> None, catch_all |-> FALSE ]

-----------------------------------------------------------------------------
(* The builder methods.                                                    *)

with_priority(f, n) == [f EXCEPT !.priority = n]
as_catch_all(f) == [f EXCEPT !.catch_all = TRUE]
respond_with_refusal(f, reason) == [f EXCEPT !.refusal = [reason |-> reason]]
with_failure(f, failure) == [f EXCEPT !.failure = failure]
for_provider(f, provider) == [f EXCEPT !.provider = provider]

with_streaming(f, latency, chunk_size) ==
  [f EXCEPT !.streaming = [latency |-> latency, chunk_size |-> chunk_size]]

with_scenario(f, name, required, next) ==
  [f EXCEPT !.scenario =
     [name |-> name, required_state |-> required, set_state |-> next]]

with_error(f, status) ==
  [f EXCEPT !.error = [status |-> status, headers |-> <<>>]]

\* The headers are checked and folded here already; an Err is None.
with_error_headers(f, status, headers) ==
  LET names == [i \in DOMAIN headers |-> headers[i][1]]
      folded == [i \in DOMAIN names |-> Lower[names[i]]]
  IN  IF /\ Range(names) \subseteq DOMAIN Lower /\ IsInjective(folded)
         /\ \A i \in DOMAIN headers : IsHeaderValue(headers[i][2])
      THEN [f EXCEPT !.error =
              [ status  |-> status,
                headers |-> [i \in DOMAIN headers |-> <<folded[i], headers[i][2]>>] ]]
      ELSE None

\* get_or_insert_with(FixtureMatch::default)
Rule(f) == IF f.match_rule = None THEN NoTests ELSE f.match_rule

match_user_message(f, t) ==
  [f EXCEPT !.match_rule = [Rule(f) EXCEPT !.user_message = Substring(t)]]
match_model(f, t) ==
  [f EXCEPT !.match_rule = [Rule(f) EXCEPT !.model = Substring(t)]]
match_header(f, name, t) ==
  [f EXCEPT !.match_rule = [Rule(f) EXCEPT
     !.headers = (Lower[name] :> Substring(t)) @@ @]]
match_system_prompt(f, t) ==
  [f EXCEPT !.match_rule = [Rule(f) EXCEPT !.system_prompt = Substring(t)]]
match_temperature(f, n) ==
  [f EXCEPT !.match_rule = [Rule(f) EXCEPT !.temperature = Exact(n)]]
match_temperature_range(f, min, max) ==
  [f EXCEPT !.match_rule = [Rule(f) EXCEPT !.temperature = Interval(min, max)]]
match_metadata(f, key, t) ==
  [f EXCEPT !.match_rule = [Rule(f) EXCEPT !.metadata = (key :> Substring(t)) @@ @]]
match_tool_schema(f, t) ==
  [f EXCEPT !.match_rule = [Rule(f) EXCEPT !.tool_schema = Substring(t)]]
match_body_jsonpath(f, path) ==
  [f EXCEPT !.match_rule = [Rule(f) EXCEPT !.body_jsonpath = path]]

Response(f) == IF f.response = None THEN NoResponse ELSE f.response

respond_with_content(f, t) ==
  [f EXCEPT !.response = [Response(f) EXCEPT !.content = t, !.tool_calls = None]]
respond_with_tool_calls(f, calls) ==
  [f EXCEPT !.response = [Response(f) EXCEPT !.tool_calls = calls, !.content = None]]
respond_with_embedding(f, vector) ==
  [f EXCEPT !.response = [Response(f) EXCEPT !.embedding = vector]]
with_stop_reason(f, reason) ==
  [f EXCEPT !.response = [Response(f) EXCEPT !.stop_reason = reason]]
with_finish_reason(f, reason) ==
  [f EXCEPT !.response = [Response(f) EXCEPT !.finish_reason = reason]]

-----------------------------------------------------------------------------
(* validate, part by part.  `error.headers` is a sequence of <<name, text>> *)
(* (the map's entries), a rule's headers a function from names.            *)

Distinct(names) == \A i, j \in DOMAIN names : Lower[names[i]] = Lower[names[j]] => i = j

ErrorValid(e) ==
  LET names == [i \in DOMAIN e.headers |-> e.headers[i][1]]
  IN  /\ e.status \in 400..599
      /\ Range(names) \subseteq DOMAIN Lower
      /\ \A i \in DOMAIN e.headers : IsHeaderValue(e.headers[i][2])
      /\ Distinct(names)

Set(f, field) == f[field] # None

\* One outcome per fixture, and a failure only on top of a response.
OutcomesValid(f) ==
  /\ ~(Set(f, "error") /\ (Set(f, "response") \/ Set(f, "failure")))
  /\ Set(f, "refusal") =>
       /\ \A other \in {"response", "error", "failure", "streaming"} : ~Set(f, other)
       /\ Trim(f.refusal.reason) # <<>>
  /\ Set(f, "failure") => Set(f, "response")

FailureValid(failure, streaming) ==
  /\ failure.probability # None =>
       IsFinite(failure.probability) /\ failure.probability \in 0..100
  /\ failure.latency_jitter_ms \notin {None, 0} =>
       /\ streaming # None /\ streaming.latency \notin {None, 0}
       /\ failure.latency_jitter_ms <= MAX_JITTER_MS

\* Exactly one text or tool answer, or an embedding next to at most one.
ResponseValid(r) ==
  LET answers == { k \in {"content", "content_template", "tool_calls"} : Set(r, k) }
  IN  /\ Cardinality(answers) <= 1
      /\ answers # {} \/ Set(r, "embedding")
      /\ Set(r, "content_template") => r.content_template.compiles
      /\ Set(r, "embedding") => \A x \in Range(r.embedding) : IsFinite(x)
      /\ Set(r, "tool_calls") =>
           /\ r.tool_calls # <<>>
           /\ \A call \in Range(r.tool_calls) :
                Trim(call.name) # <<>> /\ call.arguments.kind = "object"

\* Mutant of AnswersSomething: `streaming` is taken for an answer of its own.
AnswersSomethingLax(f) ==
  Set(f, "response") \/ Set(f, "error") \/ Set(f, "refusal") \/ Set(f, "streaming")

AnswersSomething(f) == Set(f, "response") \/ Set(f, "error") \/ Set(f, "refusal")

StreamingValid(f) ==
  Set(f, "streaming") => f.streaming.chunk_size # 0 /\ ~Set(f, "error")

validate_string_match(pattern) ==
  IF pattern.kind = "substring" THEN pattern.text # <<>>
  ELSE pattern.regex \in DOMAIN Language

validate_string_match_field(pattern) == pattern # None => validate_string_match(pattern)

HeaderTestsValid(tests) ==
  /\ DOMAIN tests \subseteq DOMAIN Lower
  /\ \A name \in DOMAIN tests : validate_string_match(tests[name])
  /\ Distinct(SetToSeq(DOMAIN tests))

MetadataTestsValid(tests) ==
  \A key \in DOMAIN tests : key # Gap /\ validate_string_match(tests[key])

TemperatureValid(t) ==
  IF t.kind = "exact" THEN IsFinite(t.value)
  ELSE /\ IsFinite(t.min) /\ IsFinite(t.max)
       /\ t.min # None \/ t.max # None
       /\ t.min # None /\ t.max # None => t.min <= t.max

RuleValid(m) ==
  /\ \A k \in {"user_message", "model", "system_prompt", "tool_schema"} :
       validate_string_match_field(m[k])
  /\ HeaderTestsValid(m.headers)
  /\ MetadataTestsValid(m.metadata)
  /\ m.body_jsonpath # None => m.body_jsonpath \in DOMAIN Path
  /\ m.temperature # None => TemperatureValid(m.temperature)

Valid(f) ==
  /\ Set(f, "error") => ErrorValid(f.error)
  /\ OutcomesValid(f)
  /\ Set(f, "failure") => FailureValid(f.failure, f.streaming)
  /\ Set(f, "response") => ResponseValid(f.response)
  /\ AnswersSomething(f)
  /\ StreamingValid(f)
  /\ Set(f, "match_rule") => RuleValid(f.match_rule)

\* The header names of tests and of an error, in lower case.
FoldTests(tests) ==
  [n \in { Lower[name] : name \in DOMAIN tests } |->
     tests[CHOOSE name \in DOMAIN tests : Lower[name] = n]]

FoldErrors(headers) ==
  [i \in DOMAIN headers |-> <<Lower[headers[i][1]], headers[i][2]>>]

FoldRule(m) == IF m = None THEN None ELSE [m EXCEPT !.headers = FoldTests(@)]
FoldError(e) == IF e = None THEN None ELSE [e EXCEPT !.headers = FoldErrors(@)]

Folded(f) == [f EXCEPT !.match_rule = FoldRule(@), !.error = FoldError(@)]

\* validate(): the fixture with its names folded, or None for an Err.
validate(f) == IF Valid(f) THEN Folded(f) ELSE None
=============================================================================
