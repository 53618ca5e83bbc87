------------------------------ MODULE Routing ------------------------------
(***************************************************************************)
(* Which fixture answers a request, from the body a client sends to the    *)
(* reply and the log entry, while fixtures are built in code, reloaded     *)
(* from files and recorded from an upstream.  One operation at a time: the *)
(* module is about what they do, Dispatch and Recorder are about how they  *)
(* interleave.  FixtureSet's "prompts" are here the requests, so that the  *)
(* rule of a fixture compiles to the set of the requests that pass it.     *)
(***************************************************************************)
EXTENDS Validation, Utility

CONSTANTS Requests,     \* names of what clients send
          Sent,         \* the request of each name
          Files,        \* names of what the hand-written files may hold
          Written,      \* the list of fixtures of each
          Calls(_),     \* the drafts one builder method call makes of a draft
          Renders(_, _), \* a template that compiles renders for a request
          MaxCalls,     \* bound on the calls for one fixture
          MaxRecordings \* bound on the requests forwarded and recorded

VARIABLES live,      \* AppState.fixtures
          states,    \* AppState.scenarios
          hand,      \* the hand-written files last loaded
          cassette,  \* the requests whose answers are recorded, in order
          forwarded, \* requests forwarded upstream, their answer not persisted
          recording, \* a recorder in record-on-miss mode is active
          draft      \* the fixture being built: how it is, and after how many
                     \* calls; None when the server is built

vars == <<live, states, hand, cassette, forwarded, recording, draft>>

RECORDED_PRIORITY == -1

-----------------------------------------------------------------------------
(* A request q up to the match.                                            *)

\* The provider of an endpoint, as it is given to the matcher.
Provider(q) ==
  CASE q.endpoint \in {"anthropic", "gemini", "responses"} -> q.endpoint
    [] q.endpoint \in {"chat", "completions", "embeddings"} -> "openai"
    [] OTHER -> "none"

\* gemini::handle: the path is {model}:{action}, of letters and separators.
GeminiPathValid(url) ==
  /\ url.model # None /\ url.well_formed
  /\ url.action \in {"generateContent", "streamGenerateContent"}

\* `stream` is a boolean if it is there; Gemini streams by its action.
StreamValid(q) ==
  \/ q.endpoint \in {"gemini", "embeddings"}
  \/ Get(q.body, "stream").kind \in {"missing", "bool"}

is_streaming(q) ==
  IF q.endpoint = "gemini" THEN q.url.action = "streamGenerateContent"
  ELSE Get(q.body, "stream") = Flag(TRUE)

extract_request_info(q) ==
  CASE q.endpoint = "chat" -> chat_info(q.body)
    [] q.endpoint = "completions" -> completions_info(q.body)
    [] q.endpoint = "anthropic" -> anthropic_info(q.body)
    [] q.endpoint = "responses" -> responses_info(q.body)
    [] q.endpoint = "gemini" /\ GeminiPathValid(q.url) ->
         gemini_info(q.body, q.url.model)
    [] q.endpoint = "embeddings" -> embeddings_info(q.body)
    [] OTHER -> Bad

\* What the handlers get out of a request, which depends on it alone; of one
\* that is rejected before the match, there is no context.
Taken(q, provider, info) ==
  [ endpoint |-> q.endpoint, body |-> q.body, code |-> q.code,
    provider |-> provider, stream |-> is_streaming(q),
    ctx |-> IF info.ok /\ StreamValid(q)
            THEN Context(info.message, info.model, provider,
                         header_map_to_lowercase(q.headers), q.body)
            ELSE None ]

Read(q) == Taken(q, Provider(q), extract_request_info(q))
Seen == [r \in Requests |-> Read(Sent[r])]

\* The requests that get as far as the matcher, and what it is given of one.
LlmRequests == { r \in Requests : Seen[r].ctx # None }
Matched(r, q) == [provider |-> q.provider, prompt |-> r, stream |-> q.stream]

-----------------------------------------------------------------------------
(* Fixtures as the live set holds them.                                    *)

Passes(f, ctx) == ctx # None /\ (f.match_rule = None \/ rule_matches(f.match_rule, ctx))

Compiled(f) ==
  [ provider |-> f.provider, match_rule |-> f.match_rule,
    prompts |-> { r \in Requests : Passes(f, Seen[r].ctx) },
    catch_all |-> f.catch_all, priority |-> f.priority,
    scenario |-> IF f.scenario = None THEN None ELSE f.scenario.name,
    required_state |-> IF f.scenario = None THEN None ELSE f.scenario.required_state,
    set_state |-> IF f.scenario = None THEN None ELSE f.scenario.set_state,
    error |-> IF f.error = None THEN None ELSE f.error.status,
    error_headers |-> IF f.error = None THEN <<>> ELSE f.error.headers,
    refusal |-> f.refusal # None, response |-> f.response ]

\* Every fixture of a list is validated before any is served; None for an Err.
Loaded(list) ==
  IF \E i \in DOMAIN list : validate(list[i]) = None THEN None
  ELSE [i \in DOMAIN list |-> Compiled(validate(list[i]))]

LoadedFiles == [file \in Files |-> Loaded(Written[file])]

\* The fixture a recorded answer to q becomes (RecordedFixture), and
\* Recorder.persist's (provider, model, prompt).
Recording(q) ==
  LET prompt == match_model(match_user_message(NewFixture, q.ctx.message), q.ctx.model)
      pinned == with_priority(for_provider(prompt, q.provider), RECORDED_PRIORITY)
  IN  IF q.endpoint = "embeddings" THEN respond_with_embedding(pinned, <<0>>)
      ELSE respond_with_content(pinned, <<"recorded">>)

Key(q) == <<q.provider, q.ctx.model, q.ctx.message>>

\* The answer to an array of several inputs holds several vectors.
Extractable(q) ==
  q.endpoint = "embeddings" => Len(Items(Get(q.body, "input"))) <= 1

\* What persist and a reload make of the answer to each request; None for
\* what has no form as a fixture, or would not load again.
Entry(q, loaded) ==
  [ key |-> Key(q), ctx |-> q.ctx,
    fixture |-> IF loaded = None \/ ~Extractable(q) THEN None ELSE loaded[1] ]

Recorded == [r \in LlmRequests |-> Entry(Seen[r], Loaded(<<Recording(Seen[r])>>))]

\* What a request says are texts, and none names the empty model (HasModel, and
\* gemini::handle for a path); None is an absence, which is not taken for a value:
\* a number, a model, a hint, or the rule of a recording and its two tests.
ASSUME NoneAssumption ==
  None \notin Int \cup [fixture_index : Nat, pass_count : Nat, total_fields : Nat]
ASSUME TextsAssumption ==
  \A r \in LlmRequests :
    LET ctx  == Seen[r].ctx
        told == match_user_message(NewFixture, ctx.message)
        rule == match_model(told, ctx.model).match_rule
    IN  /\ ctx.message \in Seq(Range(ctx.message))
        /\ ctx.model \in Seq(Range(ctx.model)) \ {<<>>}
        /\ None # Seen[r].provider /\ None # ctx.model
        /\ None # told.match_rule /\ None # rule
        /\ None # rule.user_message /\ None # rule.model

Select(r) == find_match(live, Matched(r, Seen[r]), states)

-----------------------------------------------------------------------------
(* The reply to a request that the matcher has seen.                       *)

\* Response::builder makes a 500 of an error with a header it cannot carry.
Sendable(f) == \A h \in Range(f.error_headers) : IsHeaderValue(h[2])

ErrorStatus(f) == IF Sendable(f) THEN f.error ELSE 500

ErrorHeaders(f) ==
  LET given == [n \in { h[1] : h \in Range(f.error_headers) } |->
                  Text((CHOOSE h \in Range(f.error_headers) : h[1] = n)[2])]
  IN  IF Sendable(f) THEN or_insert(given, Json) ELSE Json

\* templating::render: what compiles may still fail, for an unknown filter or
\* for what the request lacks.
RenderFails(f, q) ==
  /\ f.response # None /\ f.response.content_template # None
  /\ ~Renders(f.response.content_template, q)

Reply(status, captured, headers, f, after, provider) ==
  [ status |-> status, captured |-> captured, fixture |-> f, states |-> after,
    headers |-> add_response_headers(status, provider, headers) ]

\* handle_request with the fixture it has chosen, if any: no match, refusal,
\* error, response, in this order.  A 500 is all that is left without a
\* response, or with one whose template fails after its 200 was captured.
handle_request(q, f) ==
  LET Given(status, headers) ==
        Reply(status, FixtureStatus(f, q), headers, f, Advance(states, f), q.provider)
  IN  CASE f = None -> Reply(404, 404, Json, None, states, q.provider)
        [] f # None /\ f.refusal -> Given(IF q.stream THEN 400 ELSE 200, Json)
        [] f # None /\ ~f.refusal /\ f.error # None ->
             Given(ErrorStatus(f), ErrorHeaders(f))
        [] f # None /\ ~f.refusal /\ f.error = None /\ f.response # None
             /\ ~RenderFails(f, q) -> Given(200, Json)
        [] OTHER -> Given(500, Json)

\* embeddings::handle has a critical section and a reply of its own: it knows
\* no refusal and no template, and makes a vector up where there is none.
EmbeddingsReply(f, captured, after) ==
  IF f = None THEN Reply(404, captured, Json, None, after, "openai")
  ELSE Reply(IF f.error = None THEN 200 ELSE ErrorStatus(f), captured,
             ErrorHeaders(f), f, after, "openai")

EmbeddingsStatus(f) ==
  CASE f = None -> 404
    [] f # None /\ f.error # None -> f.error
    [] OTHER -> 200

\* Mutant of handle_embeddings: the scenario is not moved.
handle_embeddings_unmoved(q, f) == EmbeddingsReply(f, EmbeddingsStatus(f), states)

handle_embeddings(q, f) ==
  EmbeddingsReply(f, EmbeddingsStatus(f),
    IF f = None \/ f.set_state = None THEN states
    ELSE [states EXCEPT ![f.scenario] = f.set_state])

\* The requests that reach no matcher.
UtilityReply(q) ==
  LET u == CASE q.endpoint = "moderations" -> handle_moderations(q.body)
             [] q.endpoint = "code" -> handle_status_code(q.code)
             [] OTHER -> Utility(400, "BadRequest", Json)
  IN  Reply(u.status, u.captured, u.headers, None, states, q.provider)

\* f is what Select finds.
Answer(q, f) ==
  CASE q.ctx = None -> UtilityReply(q)
    [] q.ctx # None /\ q.endpoint = "embeddings" -> handle_embeddings(q, f)
    [] OTHER -> handle_request(q, f)

ReplyTo(r) == Answer(Seen[r], Select(r))

-----------------------------------------------------------------------------
NoStates == [s \in Scenarios |-> ""]

\* A server of files with a recorder, or one without, for which a test builds
\* a fixture in code.
Init ==
  /\ states = NoStates
  /\ cassette = <<>>
  /\ forwarded = {}
  /\ \/ /\ recording = TRUE /\ draft = None
        /\ hand \in { file \in Files : LoadedFiles[file] # None }
        /\ live = new(LoadedFiles[hand])
     \/ /\ recording = FALSE /\ draft = [fixture |-> NewFixture, calls |-> 0]
        /\ hand = None
        /\ live = new(<<>>)

Call ==
  /\ draft # None /\ draft.calls < MaxCalls
  /\ \E f \in Calls(draft.fixture) \ {None} :
       draft' = [fixture |-> f, calls |-> draft.calls + 1]
  /\ UNCHANGED <<live, states, hand, cassette, forwarded, recording>>

\* MockServer::set_fixtures: all of them or none.
SetFixtures ==
  /\ draft # None
  /\ IF validate(draft.fixture) = None THEN UNCHANGED live
     ELSE live' = new(Loaded(<<draft.fixture>>))
  /\ draft' = None
  /\ UNCHANGED <<states, hand, cassette, forwarded, recording>>

Swap(file, loaded, recorded) ==
  IF loaded = None THEN UNCHANGED <<live, hand>>
  ELSE live' = new(loaded \o recorded) /\ hand' = file

\* Mutant of Reload: the cassette is no source of the reload.
ReloadWithoutCassette(file) ==
  /\ recording
  /\ Swap(file, LoadedFiles[file], <<>>)
  /\ UNCHANGED <<states, cassette, forwarded, recording, draft>>

\* reload_and_swap: the cassette is the last of the sources.  What does not
\* load leaves the fixtures as they are.
Reload(file) ==
  /\ recording
  /\ Swap(file, LoadedFiles[file],
          [i \in DOMAIN cassette |-> Recorded[cassette[i]].fixture])
  /\ UNCHANGED <<states, cassette, forwarded, recording, draft>>

Missed(r) == r \in LlmRequests /\ Select(r) = None

Serve(r) ==
  /\ draft = None
  /\ ~(recording /\ Missed(r))
  /\ states' = ReplyTo(r).states
  /\ UNCHANGED <<live, hand, cassette, forwarded, recording, draft>>

\* Both handlers hand a miss over to the recorder.
Forward(r) ==
  /\ recording /\ Missed(r)
  /\ Len(cassette) + Cardinality(forwarded \cup {r}) <= MaxRecordings
  /\ forwarded' = forwarded \cup {r}
  /\ UNCHANGED <<live, states, hand, cassette, recording, draft>>

Storable(entries, r) ==
  /\ entries[r].fixture # None
  /\ \A s \in Range(cassette) : entries[s].key # entries[r].key

\* Recorder::persist of a 2xx answer: not what would not load again, such as
\* an empty prompt, and not what has been recorded.
Persist(r) ==
  /\ r \in forwarded
  /\ forwarded' = forwarded \ {r}
  /\ \/ /\ Storable(Recorded, r)
        /\ cassette' = Append(cassette, r)
        /\ live' = append_validated_fixture(live, Recorded[r].fixture)
     \/ /\ ~Storable(Recorded, r)
        /\ UNCHANGED <<live, cassette>>
  /\ UNCHANGED <<states, hand, recording, draft>>

\* MockServer::reset, as far as it is seen here.
Reset ==
  /\ draft = None
  /\ states' = NoStates
  /\ UNCHANGED <<live, hand, cassette, forwarded, recording, draft>>

Next ==
  \/ Call \/ SetFixtures \/ Reset
  \/ \E file \in Files : Reload(file)
  \/ \E r \in Requests : Serve(r) \/ Forward(r) \/ Persist(r)

Spec == Init /\ [][Next]_vars

-----------------------------------------------------------------------------
Matching(fs, r, q) == { i \in DOMAIN fs : fixture_matches(fs[i], Matched(r, q), states) }

Ahead(fs, i, j) ==
  \/ Priority(fs[i]) > Priority(fs[j])
  \/ Priority(fs[i]) = Priority(fs[j]) /\ i <= j

Best(fs, kind) == CHOOSE i \in kind : \A j \in kind : Ahead(fs, i, j)

BestOf(fs, m) ==
  CASE \E i \in m : ~fs[i].catch_all -> fs[Best(fs, { i \in m : ~fs[i].catch_all })]
    [] m # {} /\ \A i \in m : fs[i].catch_all -> fs[Best(fs, m)]
    [] OTHER -> None

\* The selected fixture is the best of the whole list: one that matches,
\* not a catch-all if any other matches, of the highest priority among its
\* kind, and the earliest of those; nothing is selected only when nothing
\* matches.  (FixtureSet::find_match over the orders FixtureSet::new built.)
SelectsBest ==
  \A r \in LlmRequests :
    Select(r) = BestOf(live.fixtures, Matching(live.fixtures, r, Seen[r]))

Override(fs, m) == \E i \in m : ~fs[i].catch_all /\ Priority(fs[i]) >= 0

\* "Override a recording by writing a normal fixture": once a hand-written
\* fixture that is no catch-all and has the default priority or a higher one
\* matches a request, no recording answers it (docs/recording.md).
OverrideWins ==
  hand # None =>
    \A r \in LlmRequests :
      Override(LoadedFiles[hand], Matching(LoadedFiles[hand], r, Seen[r]))
        => Select(r) \in Range(LoadedFiles[hand])

Settled(f) == f # None /\ ~f.catch_all /\ Priority(f) >= RECORDED_PRIORITY

\* Persisting a recording does not change the answer of any request that a
\* non-catch-all hand-written fixture of priority above the recordings', or
\* an earlier recording, already answered (append_validated_fixture).
SpliceKeepsAnswers ==
  [][cassette' # cassette =>
       \A r \in LlmRequests : Settled(Select(r)) => Select(r)' = Select(r)]_vars

InRequest(entry, ctx) ==
  /\ entry.ctx.provider = ctx.provider
  /\ OccursIn(entry.ctx.message, ctx.message)
  /\ OccursIn(entry.ctx.model, ctx.model)

Replayed(f, ctx, entries) ==
  f = entries[Min({ i \in DOMAIN entries : InRequest(entries[i], ctx) })].fixture

AnsweredIfRecorded(f, own, entries) ==
  (\E e \in Range(entries) : e.key = own.key) =>
    f # None /\ (f \in Range(LoadedFiles[hand]) \/ Replayed(f, own.ctx, entries))

\* A request whose key has been recorded is answered locally from then on,
\* through splices and reloads.  If no hand-written fixture takes it, the
\* earliest recording does whose prompt and model occur in the request's:
\* its own, or a shorter one that was recorded before (recorder.rs, persist).
RecordedIsAnswered ==
  hand # None =>
    \A r \in LlmRequests :
      AnsweredIfRecorded(Select(r), Recorded[r],
                         [i \in DOMAIN cassette |-> Recorded[cassette[i]]])

\* The fixture that the chat handlers reply with has a template that fails.
Unrendered(q, f) == q.endpoint # "embeddings" /\ f # None /\ RenderFails(f, q)

AsWritten(q, a) ==
  /\ IF Unrendered(q, a.fixture) THEN a.status = 500 /\ a.captured = 200
     ELSE a.status = a.captured
  /\ (a.fixture # None /\ a.status = a.fixture.error) =>
       \A h \in Range(a.fixture.error_headers) : a.headers[h[1]] = Text(h[2])

\* The client gets what the log says it got, and what the test wrote: no
\* fixture that validate() lets pass runs into a reply without an answer or
\* with headers that cannot be sent, and the headers of an error fixture are
\* not overwritten by the defaults of a 429.  A template that fails to render
\* is the one exception: the log has 200, the client gets 500 (validate,
\* handle_request, templating::render, add_response_headers).
RepliesAsWritten == \A r \in Requests : AsWritten(Seen[r], ReplyTo(r))

Honest(hint, passed) ==
  /\ hint # None
  /\ hint.pass_count < hint.total_fields
  /\ \A i \in DOMAIN passed :
       /\ passed[i] <= hint.pass_count
       /\ i < hint.fixture_index => passed[i] < hint.pass_count

Passed(ctx) ==
  [i \in DOMAIN live.fixtures |->
     PassCount(evaluate_fixture_fields(live.fixtures[i], ctx, states))]

\* The explanation of a 404 holds: the fixture it names fails at least one of
\* its own tests, none passes more, and none before it passes as many
\* (evaluate_nearest_match against fixture_matches).
HintIsHonest ==
  live.fixtures # <<>> =>
    \A r \in LlmRequests :
      Select(r) = None =>
        Honest(evaluate_nearest_match(live.fixtures, Seen[r].ctx, states),
               Passed(Seen[r].ctx))

\* What the debugger is given is what the handler sees: the same message, the
\* same model or no test on it, and no test on headers, which it has none of.
Simulated(q) ==
  LET rules == { f.match_rule : f \in Range(live.fixtures) } \ {None}
  IN  /\ extract_user_message(q.body, q.provider) = q.ctx.message
      /\ \/ Get(q.body, "model") = Text(q.ctx.model)
         \/ \A m \in rules : m.model = None
      /\ \A m \in rules : m.headers = <<>>

NamedFixture(d) == IF d.matched = None THEN None ELSE live.fixtures[d.evals[d.matched].index]

Debugged(q) == NamedFixture(debug_match(live, q.body, q.provider, states))

\* For such a request the debugger names the fixture that would answer it
\* (debug_match and evaluate_fixture repeat find_match and fixture_matches).
DebuggerAgrees ==
  \A r \in LlmRequests : Simulated(Seen[r]) => Select(r) = Debugged(Seen[r])

SameRequest(e, c) ==
  e.endpoint = "embeddings" /\ c.endpoint = "chat" /\ e.ctx = c.ctx

Mirrors(emb, chat) ==
  /\ emb.fixture = chat.fixture
  /\ emb.states = chat.states
  /\ \/ emb.captured = chat.captured
     \/ emb.fixture # None /\ emb.fixture.refusal /\ chat.captured = 400

\* The embeddings handler, whose critical section is a copy that is to be
\* kept in sync by hand, treats a request the way the chat handler does:
\* the same fixture, the same move of its scenario, the same log entry,
\* except that it knows no refusal of a stream.
EmbeddingsMirrorsChat ==
  \A e, c \in LlmRequests :
    SameRequest(Seen[e], Seen[c]) => Mirrors(ReplyTo(e), ReplyTo(c))
=============================================================================
