------------------------------ MODULE Utility ------------------------------
(***************************************************************************)
(* The endpoints that match no fixture, and the headers that every         *)
(* response gets on its way out (src/src/server.rs).                       *)
(***************************************************************************)
EXTENDS RequestInfo

OneText(t) == Text(<<t>>)
Json == "content-type" :> OneText("json")

\* The status and what push_captured is told, for a request that is captured
\* without a match: capture_non_matched's status is the outcome's default.
Utility(status, outcome, headers) ==
  [status |-> status, captured |-> status, outcome |-> outcome, headers |-> headers]

\* A string, or an array of at least one string, and nothing else.
HasModerationInput(body) ==
  LET input == Get(body, "input")
  IN  \/ input.kind = "string"
      \/ /\ Items(input) # <<>>
         /\ \A i \in DOMAIN Items(input) : Items(input)[i].kind = "string"

handle_moderations(body) ==
  IF HasModerationInput(body) THEN Utility(200, "ModerationEndpoint", Json)
  ELSE Utility(400, "BadRequest", Json)

\* Some statuses have no body, a redirection has somewhere to go.
CodeHeaders(code) ==
  CASE code \in 100..199 \cup {204, 205, 304} -> <<>>
    [] code \in 300..399 \ {304} -> Json @@ ("location" :> OneText("/"))
    [] OTHER -> Json

\* `code` is the path segment if it is a number, and 0 if it is none.
handle_status_code(code) ==
  IF code \in 100..599 THEN Utility(code, "CodeEndpoint", CodeHeaders(code))
  ELSE Utility(400, "BadRequest", Json)

-----------------------------------------------------------------------------
(* add_response_headers.  Headers are a function from names to texts.      *)

\* HeaderMap's entry().or_insert() of several: those that are there are kept.
or_insert(headers, more) ==
  [ name \in DOMAIN headers \cup DOMAIN more |->
      IF name \in DOMAIN headers THEN headers[name] ELSE more[name] ]

RateLimits(provider) ==
  CASE provider = "anthropic" ->
         [ name \in { "anthropic-ratelimit-requests-limit",
                      "anthropic-ratelimit-requests-remaining",
                      "anthropic-ratelimit-requests-reset" } |-> OneText("mock") ]
    [] provider \in {"openai", "responses"} ->
         [ name \in { "x-ratelimit-limit-requests",
                      "x-ratelimit-remaining-requests",
                      "x-ratelimit-reset-requests" } |-> OneText("mock") ]
    [] OTHER -> <<>>  \* Gemini, and routes of no provider

\* Mutant of add_response_headers: insert instead of or_insert.
add_response_headers_insert(status, provider, headers) ==
  LET stamp  == "x-request-id" :> OneText("own")
      limits == IF status # 429 THEN <<>>
                ELSE ("retry-after" :> OneText("60")) @@ RateLimits(provider)
  IN  or_insert(or_insert(limits, headers), stamp)

\* What the response carries already is kept: a fixture's error headers, and
\* the ids and limits relayed from an upstream.
add_response_headers(status, provider, headers) ==
  LET stamp  == "x-request-id" :> OneText("own")
      limits == IF status # 429 THEN <<>>
                ELSE ("retry-after" :> OneText("60")) @@ RateLimits(provider)
  IN  or_insert(or_insert(headers, limits), stamp)
=============================================================================
