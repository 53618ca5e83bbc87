----------------------------- MODULE MCRouting -----------------------------
(* Routing on the six LLM endpoints and the utility ones, two words, two   *)
(* models and one scenario.  Every test of a match rule is in some fixture *)
(* and is passed by some request and failed by another.                    *)
EXTENDS Routing

MCProviders == {"openai", "anthropic", "gemini", "responses"}
MCScenarios == {"turns"}
MCStates == {"", "second"}
MCLanguage == [r \in {"hi|hello"} |-> {"hi", "hello"}]
MCPath == [p \in {"$.metadata.tier"} |-> <<"metadata", "tier">>]
MCLower == [n \in {"X-Team", "x-team", "Retry-After", "retry-after"} |->
              CASE n \in {"X-Team", "x-team"} -> "x-team"
                [] OTHER -> "retry-after"]
MCUnprintable == "a\nb"
MCPrompts == LlmRequests

-----------------------------------------------------------------------------
Hi == Text(<<"hi">>)
HiThere == Text(<<"hi", Gap, "there">>)
Part(type, t) == Object([type |-> Text(<<type>>), text |-> t])
Turn(role, content) == Object([role |-> Text(<<role>>), content |-> content])
User(content) == Turn("user", content)
Parts(ps) == Object([parts |-> Array(ps)])
Named(t) == Object([name |-> Text(<<t>>)])
M1 == Text(<<"m1">>)
M2 == Text(<<Gap, "m2">>)
Image == Object([type |-> Text(<<"image">>)])
NoUrl == [model |-> None, well_formed |-> FALSE, action |-> ""]

Req(endpoint, fields) ==
  [ endpoint |-> endpoint, body |-> Object(fields), headers |-> <<>>,
    url |-> NoUrl, code |-> 0 ]

ChatFull ==
  [ Req("chat", [ model |-> M1, temperature |-> Number(1),
                  messages |-> Array(<<Turn("system", Text(<<"terse">>)), User(Hi)>>),
                  metadata |-> Object([tier |-> Number(2)]),
                  tools |-> Array(<<Object([function |-> Named("f")])>>) ])
    EXCEPT !.headers = << <<"x-team", Text(<<"a">>)>>, <<"x-team", Missing>>,
                          <<"x-team", Text(<<"b">>)>> >> ]
ChatParts ==
  Req("chat", [ model |-> M2,
                messages |-> Array(<<User(Array(<<Part("text", Hi), Image, Part("text", Text(<<"there">>))>>))>>) ])
\* A body that both the chat and the embeddings handler accept.
Both(endpoint, stream) ==
  Req(endpoint, [ model |-> M1, input |-> HiThere, stream |-> stream,
                  messages |-> Array(<<User(HiThere)>>) ])
ImageOnly ==
  Req("chat", [model |-> M1, messages |-> Array(<<User(Hi), User(Array(<<Image>>))>>)])
ToolTurn(tokens) ==
  Req("anthropic",
      [ model |-> M1, max_tokens |-> Number(tokens),
        system |-> Array(<<Part("text", Text(<<"terse">>))>>),
        messages |-> Array(<<User(Hi), Turn("assistant", Hi),
                             User(Array(<<Part("tool_result", Hi)>>))>>),
        tools |-> Array(<<Named("f")>>) ])
Gemini(model, action) ==
  [ Req("gemini",
        [ contents |-> Array(<<Parts(<<Object([text |-> Hi])>>)>>),
          generationConfig |-> Object([temperature |-> Number(0)]),
          systemInstruction |-> Parts(<<Object([text |-> Text(<<"terse">>)])>>),
          tools |-> Array(<<Object([functionDeclarations |-> Array(<<Named("g")>>)])>>) ])
    EXCEPT !.url = [model |-> model, well_formed |-> TRUE, action |-> action] ]

MCSent ==
  [ full |-> ChatFull, parts |-> ChatParts, image |-> ImageOnly,
    tool |-> ToolTurn(5), zero |-> ToolTurn(0),
    chat |-> Both("chat", Flag(TRUE)), embed |-> Both("embeddings", Flag(TRUE)),
    yes |-> Both("chat", Text(<<"yes">>)),
    gemini |-> Gemini(<<"m1">>, "generateContent"),
    sse |-> Gemini(<<"m1">>, "streamGenerateContent"),
    nomodel |-> Gemini(None, "generateContent"),
    continue |-> Req("responses", [model |-> M1]),
    ask |-> Req("responses",
      [ model |-> M1, instructions |-> Text(<<"terse">>),
        input |-> Array(<<User(Array(<<Part("input_text", HiThere)>>))>>) ]),
    prompt |-> Req("completions", [model |-> M1, prompt |-> Hi]),
    two |-> Req("embeddings", [model |-> M1, input |-> Array(<<Hi, Hi>>)]),
    number |-> Req("embeddings", [model |-> M1, input |-> Array(<<Number(1)>>)]),
    empty |-> Req("moderations", [input |-> Array(<<>>)]),
    moderate |-> Req("moderations", [input |-> Hi]),
    code |-> [Req("code", <<>>) EXCEPT !.code = 429],
    nocode |-> [Req("code", <<>>) EXCEPT !.code = 600] ]
MCRequests ==
  { "full", "parts", "image", "tool", "zero", "chat", "embed", "yes", "gemini",
    "sse", "nomodel", "continue", "ask", "prompt", "two", "number", "empty",
    "moderate", "code", "nocode" }

-----------------------------------------------------------------------------
Saying(t) == respond_with_content(NewFixture, <<t>>)
Greets(f) == match_user_message(f, <<"hi">>)

\* A template is what it reads of the request, which must be there.
Rendering(template) ==
  [NewFixture EXCEPT !.response = [NoResponse EXCEPT !.content_template = template]]
MCRenders(template, q) == Get(q.body, template.reads) # Missing

Kinds ==
  [ any |-> as_catch_all(Saying("any")),
    first |-> with_scenario(with_priority(for_provider(
      [Saying("first") EXCEPT !.match_rule = [NoTests EXCEPT !.user_message = Regex("hi|hello")]],
      "openai"), 2), "turns", "", "second"),
    team |-> match_header(match_model(Greets(Saying("team")), <<"m1">>), "X-Team", <<"b">>),
    limit |-> match_system_prompt(
      with_error_headers(NewFixture, 429, << <<"Retry-After", <<"7">>>> >>), <<"terse">>),
    all |-> match_body_jsonpath(match_tool_schema(match_metadata(match_temperature_range(
      Saying("all"), 1, None), "tier", <<"2">>), <<"f">>), "$.metadata.tier"),
    low |-> with_priority(match_user_message(for_provider(Saying("low"), "anthropic"), <<"hi">>), -2),
    no |-> with_priority(match_user_message(respond_with_refusal(NewFixture, <<"no">>), <<"there">>), 1),
    broken |-> with_stop_reason(NewFixture, "stop"),
    unsent |-> [NewFixture EXCEPT !.error =
      [status |-> 429, headers |-> << <<"X-Team", <<MCUnprintable>>>> >>]],
    tier |-> Greets(respond_with_embedding(Rendering([compiles |-> TRUE, reads |-> "metadata"]), <<1>>)),
    torn |-> Rendering([compiles |-> FALSE, reads |-> "metadata"]) ]

\* Files of no fixture, of one and of two.
MCFiles == { << >> } \cup { <<k>> : k \in DOMAIN Kinds } \cup
  { <<"any", "team">>, <<"team", "limit">>, <<"limit", "team">>, <<"first", "any">>,
    <<"low", "any">>, <<"no", "first">>, <<"team", "all">>, <<"all", "team">> }
MCWritten == [file \in MCFiles |-> [i \in DOMAIN file |-> Kinds[file[i]]]]

\* One call of a builder method on a fixture in code.
MCCalls(f) ==
  { Greets(f), match_model(f, <<"m2">>), match_temperature(f, 0),
    match_metadata(f, "tier", <<"2">>), match_tool_schema(f, <<"g">>),
    match_body_jsonpath(f, "$."), match_header(f, "X-Team", <<"a">>),
    match_temperature_range(f, 2, 1),
    respond_with_content(f, <<"hi">>),
    respond_with_tool_calls(f, <<[name |-> <<"f">>, arguments |-> Object(<<>>)]>>),
    respond_with_embedding(f, <<1>>), respond_with_refusal(f, <<"no">>),
    with_error(f, 429), with_stop_reason(f, "stop"), with_finish_reason(f, "stop"),
    with_error_headers(f, 429, << <<"X-Team", <<"a">>>>, <<"x-team", <<"b">>>> >>),
    with_failure(f, [probability |-> 50, latency_jitter_ms |-> 5]),
    with_streaming(f, 10, 0), with_streaming(f, 10, 2),
    with_scenario(f, "turns", "", "second"), for_provider(f, "openai"),
    with_priority(f, 1), as_catch_all(f) }
=============================================================================
