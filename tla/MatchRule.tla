----------------------------- MODULE MatchRule -----------------------------
(***************************************************************************)
(* The tests of a fixture's `match:` block (src/src/fixture.rs), which the *)
(* code carries out in three places: fixture_matches answers requests,     *)
(* evaluate_fixture_fields explains a 404, and evaluate_fixture (ui.rs)    *)
(* explains a request to the user of the debugger.                         *)
(***************************************************************************)
EXTENDS FixtureSet, RequestInfo

CONSTANTS Language, \* regex |-> the words one of which must occur; those
                    \* outside its domain do not compile
          Path      \* JSONPath |-> the keys it follows; the others do not parse

Substring(t) == [kind |-> "substring", text |-> t]
Regex(r) == [kind |-> "regex", regex |-> r]
Exact(n) == [kind |-> "exact", value |-> n]
Interval(min, max) == [kind |-> "range", min |-> min, max |-> max]

\* FixtureMatch::default()
NoTests == [ user_message |-> None, model |-> None, headers |-> <<>>,
             system_prompt |-> None, temperature |-> None, metadata |-> <<>>,
             tool_schema |-> None, body_jsonpath |-> None ]

\* What a request offers to the tests (MatchContext).
Context(message, model, provider, headers, body) ==
  [ message |-> message, model |-> model, provider |-> provider,
    headers |-> headers, body |-> body ]

-----------------------------------------------------------------------------
OccursIn(s, t) ==
  \E i \in 0..(Len(t) - Len(s)) : SubSeq(t, i + 1, i + Len(s)) = s

\* A regex that does not compile matches nothing.
string_matches(pattern, text) ==
  IF pattern.kind = "substring" THEN OccursIn(pattern.text, text)
  ELSE /\ pattern.regex \in DOMAIN Language
       /\ Range(text) \cap Language[pattern.regex] # {}

f64_matches(pattern, n) ==
  IF pattern.kind = "exact" THEN n = pattern.value
  ELSE /\ pattern.min # None => n >= pattern.min
       /\ pattern.max # None => n <= pattern.max

\* A metadata value in its scalar form.
Scalar(v) ==
  CASE v.kind = "string" -> v
    [] v.kind = "number" -> Text(<<ToString(v.number)>>)
    [] v.kind = "bool"   -> Text(<<IF v.bool THEN "true" ELSE "false">>)
    [] OTHER -> Missing

ValueMatches(pattern, v) == v # Missing /\ string_matches(pattern, v.text)

MetadataMatches(pattern, key, ctx) ==
  ValueMatches(pattern, Scalar(Get(Get(ctx.body, "metadata"), key)))

HeaderMatches(pattern, name, ctx) ==
  name \in DOMAIN ctx.headers /\ string_matches(pattern, ctx.headers[name])

SystemMatches(pattern, ctx) ==
  ValueMatches(pattern, extract_system_prompt(ctx.body, ctx.provider))

TemperatureMatches(pattern, ctx) ==
  LET temperature == extract_temperature(ctx.body, ctx.provider)
  IN  temperature # Missing /\ f64_matches(pattern, temperature.number)

ToolMatches(pattern, ctx) ==
  \E name \in extract_tool_names(ctx.body, ctx.provider) :
    string_matches(pattern, name)

\* The query has a result that is not null.
PathMatches(path, ctx) ==
  /\ path \in DOMAIN Path
  /\ FoldLeft(Get, ctx.body, Path[path]) \notin {Missing, Null}

-----------------------------------------------------------------------------
(* fixture_matches: provider and scenario are FixtureSet's, the rest:      *)

\* Mutant of rule_matches: a request without a metadata object passes.
RuleMatchesNoMetadata(m, ctx) ==
  /\ m.user_message = None \/ string_matches(m.user_message, ctx.message)
  /\ m.model = None \/ string_matches(m.model, ctx.model)
  /\ \A n \in DOMAIN m.headers : HeaderMatches(m.headers[n], n, ctx)
  /\ m.system_prompt = None \/ SystemMatches(m.system_prompt, ctx)
  /\ m.temperature = None \/ TemperatureMatches(m.temperature, ctx)
  /\ \A k \in DOMAIN m.metadata :
       \/ Get(ctx.body, "metadata").kind # "object"
       \/ MetadataMatches(m.metadata[k], k, ctx)
  /\ m.tool_schema = None \/ ToolMatches(m.tool_schema, ctx)
  /\ m.body_jsonpath = None \/ PathMatches(m.body_jsonpath, ctx)

rule_matches(m, ctx) ==
  /\ m.user_message = None \/ string_matches(m.user_message, ctx.message)
  /\ m.model # None => ctx.model # None /\ string_matches(m.model, ctx.model)
  /\ \A n \in DOMAIN m.headers : HeaderMatches(m.headers[n], n, ctx)
  /\ m.system_prompt = None \/ SystemMatches(m.system_prompt, ctx)
  /\ m.temperature = None \/ TemperatureMatches(m.temperature, ctx)
  /\ \A k \in DOMAIN m.metadata : MetadataMatches(m.metadata[k], k, ctx)
  /\ m.tool_schema = None \/ ToolMatches(m.tool_schema, ctx)
  /\ m.body_jsonpath = None \/ PathMatches(m.body_jsonpath, ctx)

-----------------------------------------------------------------------------
(* The two that do not stop at the first test that fails.  A result is the *)
(* sequence of the tests a fixture declares, each passed or not.           *)

If(declared, field, passed) ==
  IF declared THEN <<[field |-> field, passed |-> passed]>> ELSE <<>>

AllPassed(results) == \A i \in DOMAIN results : results[i].passed
PassCount(results) == Cardinality({ i \in DOMAIN results : results[i].passed })

GuardResults(f, ctx, states) ==
  If(f.provider # None, "provider", ctx.provider = f.provider) \o
  If(f.required_state # None, "scenario.required_state",
     states[f.scenario] = f.required_state)

HeaderResults(m, ctx) ==
  LET names == SetToSeq(DOMAIN m.headers)
  IN  [i \in DOMAIN names |->
         [ field  |-> "headers",
           passed |-> HeaderMatches(m.headers[names[i]], names[i], ctx) ]]

\* A rule's metadata is one result, of all its keys.
RuleResults(m, ctx) ==
  If(m.user_message # None, "user_message", string_matches(m.user_message, ctx.message)) \o
  If(m.model # None, "model", ctx.model # None /\ string_matches(m.model, ctx.model)) \o
  HeaderResults(m, ctx) \o
  If(m.system_prompt # None, "system_prompt", SystemMatches(m.system_prompt, ctx)) \o
  If(m.temperature # None, "temperature", TemperatureMatches(m.temperature, ctx)) \o
  If(DOMAIN m.metadata # {}, "metadata",
     \A k \in DOMAIN m.metadata : MetadataMatches(m.metadata[k], k, ctx)) \o
  If(m.tool_schema # None, "tool_schema", ToolMatches(m.tool_schema, ctx)) \o
  If(m.body_jsonpath # None, "body_jsonpath", PathMatches(m.body_jsonpath, ctx))

evaluate_fixture_fields(f, ctx, states) ==
  GuardResults(f, ctx, states) \o
  (IF f.match_rule = None THEN <<>> ELSE RuleResults(f.match_rule, ctx))

\* Mutant of Closer: the last of several equally close fixtures is named.
CloserOrEqual(best, hint) == best = None \/ hint.pass_count >= best.pass_count

Closer(best, hint) == best = None \/ hint.pass_count > best.pass_count

Nearer(best, i, fields) ==
  LET hint == [ fixture_index |-> i, pass_count |-> PassCount(fields),
                total_fields |-> Len(fields) ]
  IN  IF fields # <<>> /\ Closer(best, hint) THEN hint ELSE best

\* evaluate_nearest_match: the closest in list order, of those with tests.
evaluate_nearest_match(fs, ctx, states) ==
  LET nearest[n \in 0..Len(fs)] ==
        IF n = 0 THEN None
        ELSE Nearer(nearest[n - 1], n, evaluate_fixture_fields(fs[n], ctx, states))
  IN  nearest[Len(fs)]

\* ui.rs, evaluate_fixture: metadata is checked key by key, and a context
\* without a model fails the model test.
KeyResults(tests, keys, ctx) ==
  [i \in DOMAIN keys |->
     [ field  |-> "metadata",
       passed |-> MetadataMatches(tests[keys[i]], keys[i], ctx) ]]

RuleChecks(m, ctx) ==
  RuleResults([m EXCEPT !.metadata = <<>>], ctx) \o
  KeyResults(m.metadata, SetToSeq(DOMAIN m.metadata), ctx)

Evaluation(checks) == [passed |-> AllPassed(checks), checks |-> checks]

evaluate_fixture(f, ctx, states) ==
  Evaluation(GuardResults(f, ctx, states) \o
             (IF f.match_rule = None THEN <<>> ELSE RuleChecks(f.match_rule, ctx)))

\* ui.rs, debug_match: the fixtures in the order the matcher tries them; the
\* index is that of the list, `matched` the place of the first that passes.
DebugContext(body, provider) ==
  LET model == Get(body, "model")
  IN  Context(extract_user_message(body, provider),
              IF model.kind = "string" /\ model.text # <<>> THEN model.text ELSE None,
              provider, <<>>, body)

Found(evals, hits) ==
  [ evals |-> evals, matched |-> IF hits = {} THEN None ELSE Min(hits) ]

FirstPassing(evals) == Found(evals, { k \in DOMAIN evals : evals[k].eval.passed })

Evaluated(S, order, ctx, states) ==
  [k \in DOMAIN order |->
     [index |-> order[k], eval |-> evaluate_fixture(S.fixtures[order[k]], ctx, states)]]

debug_match(S, body, provider, states) ==
  FirstPassing(Evaluated(S, S.primary_order \o S.catch_all_order,
                         DebugContext(body, provider), states))
=============================================================================
