---------------------------- MODULE RequestInfo ----------------------------
(***************************************************************************)
(* What the server reads out of a request: the model and the last user     *)
(* message of each provider's body (src/src/format/, extract_request_info) *)
(* and what the match rules look at (src/src/fixture.rs).                  *)
(*                                                                         *)
(* A JSON value is a record whose `kind` tells its shape; Missing stands   *)
(* for a key that is not there.  A text is a sequence of words, Gap being  *)
(* the whitespace that trim() removes and that parts are joined with.      *)
(* Numbers are integers.                                                   *)
(***************************************************************************)
EXTENDS Integers, Sequences, SequencesExt

Gap == " "

Missing == [kind |-> "missing"]
Null == [kind |-> "null"]
Text(t) == [kind |-> "string", text |-> t]
Number(n) == [kind |-> "number", number |-> n]
Flag(b) == [kind |-> "bool", bool |-> b]
Array(s) == [kind |-> "array", items |-> s]
Object(f) == [kind |-> "object", fields |-> f]

\* serde_json's get: Missing from anything that is no object.
Get(v, k) == IF v.kind = "object" /\ k \in DOMAIN v.fields
             THEN v.fields[k] ELSE Missing

Items(v) == IF v.kind = "array" THEN v.items ELSE <<>>
Says(v, k, word) == Get(v, k) = Text(<<word>>)

Trim(t) ==
  LET words == { i \in DOMAIN t : t[i] # Gap }
  IN  IF words = {} THEN <<>> ELSE SubSeq(t, Min(words), Max(words))

Join(texts, separator) ==
  FoldLeft(LAMBDA t, u : t \o <<separator>> \o u, Head(texts), Tail(texts))

\* The string values of key k in `items`, in order.
Strings(items, k) ==
  LET With == SelectSeq(items, LAMBDA v : Get(v, k).kind = "string")
  IN  [i \in DOMAIN With |-> Get(With[i], k).text]

Joined(texts) == IF texts = <<>> THEN <<>> ELSE Join(texts, Gap)
Typed(items, type) == SelectSeq(items, LAMBDA v : Says(v, "type", type))

-----------------------------------------------------------------------------
(* extract_request_info.  An Err is Bad: its wording is left out.          *)

Bad == [ok |-> FALSE]
Info(model, message) == [ok |-> TRUE, model |-> model, message |-> message]

NonBlank(v) == v.kind = "string" /\ Trim(v.text) # <<>>
HasModel(body) == NonBlank(Get(body, "model"))
Model(body) == Trim(Get(body, "model").text)

UserTurns(items) == SelectSeq(items, LAMBDA m : Says(m, "role", "user"))

\* A string, or the texts of the parts of one type; blank is an error to all.
Content(turn, type) ==
  LET content == Get(turn, "content")
  IN  IF content.kind = "string" THEN Trim(content.text)
      ELSE Trim(Joined(Strings(Typed(Items(content), type), "text")))

NonBlankInfo(body, message) ==
  IF message = <<>> THEN Bad ELSE Info(Model(body), message)

chat_info(body) ==
  LET turns == UserTurns(Items(Get(body, "messages")))
  IN  IF HasModel(body) /\ turns # <<>>
      THEN NonBlankInfo(body, Content(Last(turns), "text"))
      ELSE Bad

completions_info(body) ==
  IF HasModel(body) /\ NonBlank(Get(body, "prompt"))
  THEN Info(Model(body), Trim(Get(body, "prompt").text))
  ELSE Bad

\* A last turn of nothing but tool results is passed over, once.
ToolResults(turn) ==
  LET blocks == Items(Get(turn, "content"))
  IN  blocks # <<>> /\ Typed(blocks, "tool_result") = blocks

anthropic_info(body) ==
  LET turns  == UserTurns(Items(Get(body, "messages")))
      asking == IF turns # <<>> /\ ToolResults(Last(turns))
                THEN Front(turns) ELSE turns
      tokens == Get(body, "max_tokens")
  IN  IF /\ HasModel(body)
         /\ tokens.kind = "number" /\ tokens.number > 0
         /\ asking # <<>>
      THEN NonBlankInfo(body, Content(Last(asking), "text"))
      ELSE Bad

\* No `input`, or no user turn in it, continues an earlier response.
responses_info(body) ==
  LET input == Get(body, "input")
      turns == UserTurns(Items(input))
  IN  CASE ~HasModel(body) -> Bad
        [] HasModel(body) /\ input.kind = "missing" -> Info(Model(body), <<>>)
        [] HasModel(body) /\ input.kind = "string" ->
             NonBlankInfo(body, Trim(input.text))
        [] HasModel(body) /\ input.kind = "array" ->
             IF turns = <<>> THEN Info(Model(body), <<>>)
             ELSE NonBlankInfo(body, Content(Last(turns), "input_text"))
        [] OTHER -> Bad

is_user_turn(turn) == Get(turn, "role") \in {Missing, Text(<<"user">>)}

gemini_info(body, model) ==
  LET turns == SelectSeq(Items(Get(body, "contents")), is_user_turn)
      parts == Items(Get(Last(turns), "parts"))
      message == Trim(Joined(Strings(parts, "text")))
  IN  IF turns = <<>> \/ message = <<>> THEN Bad ELSE Info(model, message)

\* embeddings::handle: the input is not trimmed, and may be blank.
embeddings_info(body) ==
  LET input == Get(body, "input")
      words == Items(input)
  IN  CASE ~HasModel(body) -> Bad
        [] HasModel(body) /\ input.kind = "string" -> Info(Model(body), input.text)
        [] /\ HasModel(body) /\ input.kind = "array"
           /\ \A i \in DOMAIN words : words[i].kind = "string" ->
             Info(Model(body), Joined([i \in DOMAIN words |-> words[i].text]))
        [] OTHER -> Bad

-----------------------------------------------------------------------------
(* The other things a match rule looks at.  None of them is trimmed.       *)

\* A system text, or Missing.
AsText(texts) == IF texts = <<>> THEN Missing ELSE Text(Join(texts, Gap))

SystemTurn(turn) ==
  LET content == Get(turn, "content")
  IN  IF content.kind = "string" THEN content
      ELSE AsText(Strings(Items(content), "text"))

SystemTurns(items) ==
  LET turns == SelectSeq(items, LAMBDA m : /\ Says(m, "role", "system")
                                           /\ SystemTurn(m) # Missing)
  IN  AsText([i \in DOMAIN turns |-> SystemTurn(turns[i]).text])

extract_system_prompt(body, provider) ==
  LET system == Get(body, "system")
      instructions == Get(body, "instructions")
  IN  CASE provider = "anthropic" ->
             IF system.kind = "string" THEN system
             ELSE AsText(Strings(Typed(Items(system), "text"), "text"))
        [] provider = "gemini" ->
             AsText(Strings(Items(Get(Get(body, "systemInstruction"), "parts")), "text"))
        [] provider = "responses" ->
             IF instructions.kind = "string" THEN instructions
             ELSE SystemTurns(Items(Get(body, "input")))
        [] OTHER -> SystemTurns(Items(Get(body, "messages")))

\* The names of the declared tools, as a set: a rule asks whether one matches.
extract_tool_names(body, provider) ==
  LET tools == Items(Get(body, "tools"))
      Names(items) == Range(Strings(items, "name"))
      NamedBy(tool) ==
        LET name == Get(Get(tool, "function"), "name")
        IN  IF name.kind = "string" THEN {name.text} ELSE Names(<<tool>>)
  IN  CASE provider = "gemini" ->
             UNION { Names(Items(Get(t, "functionDeclarations"))) : t \in Range(tools) }
        [] provider = "anthropic" -> Names(tools)
        [] OTHER -> UNION { NamedBy(t) : t \in Range(tools) }

extract_temperature(body, provider) ==
  LET holder == IF provider = "gemini" THEN Get(body, "generationConfig") ELSE body
      value  == Get(holder, "temperature")
  IN  IF value.kind = "number" THEN value ELSE Missing

\* ui.rs: what the debugger takes for the user message.  It looks for the
\* last user turn whose content is a plain string or whose first part has a
\* text, then for a plain `input`.  The text is not trimmed, and may be empty.
extract_user_message(body, provider) ==
  LET key == CASE provider = "responses" -> "input"
               [] provider = "gemini" -> "contents"
               [] OTHER -> "messages"
      FirstPart(turn) ==
        LET parts == Items(Get(turn, "parts"))
        IN  IF parts = <<>> THEN Missing ELSE Get(Head(parts), "text")
      Said(turn) == IF Get(turn, "content").kind = "string"
                    THEN Get(turn, "content") ELSE FirstPart(turn)
      turns == SelectSeq(UserTurns(Items(Get(body, key))),
                         LAMBDA m : Said(m).kind = "string")
      input == Get(body, "input")
  IN  CASE turns # <<>> -> Said(Last(turns)).text
        [] turns = <<>> /\ input.kind = "string" -> input.text
        [] OTHER -> <<>>

-----------------------------------------------------------------------------
(* Headers arrive as a sequence of <<name, text>>; a value that is not      *)
(* UTF-8 is Missing.  Names are lower case already.                         *)

header_map_to_lowercase(headers) ==
  LET kept == SelectSeq(headers, LAMBDA h : h[2].kind = "string")
      Values(n) == SelectSeq(kept, LAMBDA h : h[1] = n)
  IN  [n \in { h[1] : h \in Range(kept) } |->
         LET vs == Values(n)
         IN  Join([i \in DOMAIN vs |-> vs[i][2].text], ",")]
=============================================================================
