------------------------------ MODULE Formats ------------------------------
(***************************************************************************)
(* The bodies and the stream frames the five endpoints build from the      *)
(* response of a fixture (src/src/format/*.rs, with what the handlers of   *)
(* src/src/handler/*.rs change in them).                                   *)
(*                                                                         *)
(* A text is a sequence of characters.  An argument object is a member of  *)
(* DOMAIN Json, and Json[a] is its serialized text.  Of a frame or a body  *)
(* only what a client or the recorder takes out of it is kept: ids, token  *)
(* counts, time stamps and model names are left out.                       *)
(***************************************************************************)
EXTENDS Integers, Sequences, FiniteSetsExt, SequencesExt

CONSTANTS
  Json,         \* the text of each argument object
  EmptyObject,  \* {}
  None

ASSUME JsonAssumption ==
  /\ EmptyObject \in DOMAIN Json
  /\ \A a \in DOMAIN Json : Json[a] # <<>>
  /\ \A a, b \in DOMAIN Json : Json[a] = Json[b] => a = b

FormatNames == {"chat", "completions", "anthropic", "gemini", "responses"}

\* A response is [text, tools, reason]: `tools`, a sequence of [name, args],
\* is empty for a text response, and `reason` is the explicit stop_reason or
\* finish_reason of the fixture, or None.

default_stop_reason ==
  [ chat |-> "stop", completions |-> "stop", anthropic |-> "end_turn",
    gemini |-> "STOP", responses |-> "stop" ]

\* The reason handle_request hands to the builders.
stop_reason(format, r) ==
  IF r.reason = None THEN default_stop_reason[format] ELSE r.reason

\* The reason of a reply with tool calls, where the format has one of its own.
ToolReason(r, own) == IF r.reason = None THEN own ELSE r.reason

\* Mutant of chunk_content: a shorter piece at the end is lost.
ChunkContentWhole(content, chunk_size) ==
  LET size == Max({chunk_size, 1})
  IN  [ i \in 1..Len(content) \div size |-> SubSeq(content, (i - 1) * size + 1, i * size) ]

\* At most chunk_size characters each; a size of 0 is taken as 1.
chunk_content(content, chunk_size) ==
  LET size == Max({chunk_size, 1})
  IN  [ i \in 1..(Len(content) + size - 1) \div size |->
        SubSeq(content, (i - 1) * size + 1, Min({i * size, Len(content)})) ]

Done == [type |-> "done"]      \* data: [DONE]
Torn == [type |-> "torn"]      \* the beginning of a frame, not yet JSON

Event(name) == [type |-> name]

-----------------------------------------------------------------------------
(* OpenAI chat completions.                                                *)

ChatChoice(content, calls, reason) ==
  << [content |-> content, calls |-> calls, reason |-> reason] >>

ChatChunk(content, calls, reason) ==
  [type |-> "chunk", choices |-> ChatChoice(content, calls, reason)]

chat_build_response(content) ==
  [choices |-> ChatChoice(content, <<>>, "stop")]

chat_build_tool_call_response(tools) ==
  [choices |-> ChatChoice(None,
     [i \in DOMAIN tools |->
       [index |-> None, name |-> tools[i].name, args |-> Json[tools[i].args]]],
     "tool_calls")]

chat_build_stream_chunks(content, chunk_size) ==
  LET pieces == chunk_content(content, chunk_size)
  IN  << ChatChunk(None, <<>>, None) >>
      \o [i \in DOMAIN pieces |-> ChatChunk(pieces[i], <<>>, None)]
      \o << ChatChunk(None, <<>>, "stop") >>

chat_body(r) ==
  IF r.tools = <<>>
  THEN [chat_build_response(r.text) EXCEPT !.choices[1].reason = stop_reason("chat", r)]
  ELSE [chat_build_tool_call_response(r.tools) EXCEPT
          !.choices[1].reason = ToolReason(r, @)]

chat_text_frames(r, chunk_size) ==
  LET chunks == chat_build_stream_chunks(r.text, chunk_size)
  IN  Append([chunks EXCEPT ![Len(chunks)].choices[1].reason = stop_reason("chat", r)], Done)

\* All the calls travel in one chunk, numbered from 0.
chat_tool_frames(r) ==
  << ChatChunk(None, <<>>, None),
     ChatChunk(None,
       [i \in DOMAIN r.tools |->
         [index |-> i - 1, name |-> r.tools[i].name, args |-> Json[r.tools[i].args]]],
       None),
     ChatChunk(None, <<>>, ToolReason(r, "tool_calls")),
     Done >>

-----------------------------------------------------------------------------
(* Legacy completions: there are no tool calls, and a reply that has some  *)
(* is sent as empty text.                                                  *)

TextChunk(text, reason) ==
  [type |-> "chunk", choices |-> << [text |-> text, reason |-> reason] >>]

completions_build_response(text, reason) ==
  [choices |-> << [text |-> text, reason |-> reason] >>]

completions_build_stream_chunks(text, chunk_size, reason) ==
  LET pieces == chunk_content(text, chunk_size)
  IN  [i \in DOMAIN pieces |-> TextChunk(pieces[i], None)] \o << TextChunk(<<>>, reason) >>

completions_body(r) ==
  completions_build_response(IF r.tools = <<>> THEN r.text ELSE <<>>,
                             stop_reason("completions", r))

completions_frames(r, chunk_size) ==
  Append(completions_build_stream_chunks(IF r.tools = <<>> THEN r.text ELSE <<>>,
                                         chunk_size, stop_reason("completions", r)),
         Done)

-----------------------------------------------------------------------------
(* Anthropic messages: a list of blocks, opened, grown and closed by index *)
(* (from 0) in a stream.                                                   *)

TextBlock(text) == [type |-> "text", text |-> text]

BlockStart(i, block) == [type |-> "content_block_start", index |-> i, content_block |-> block]
TextDelta(i, text) ==
  [type |-> "content_block_delta", index |-> i, delta |-> [type |-> "text_delta", text |-> text]]
JsonDelta(i, json) ==
  [type |-> "content_block_delta", index |-> i,
   delta |-> [type |-> "input_json_delta", partial_json |-> json]]
BlockStop(i) == [type |-> "content_block_stop", index |-> i]
MessageDelta(reason) == [type |-> "message_delta", stop_reason |-> reason]

anthropic_build_response(content, reason) ==
  [content |-> << TextBlock(content) >>, stop_reason |-> reason]

anthropic_build_tool_use_response(tools) ==
  [content |-> [i \in DOMAIN tools |->
     [type |-> "tool_use", name |-> tools[i].name, input |-> tools[i].args]],
   stop_reason |-> "tool_use"]

anthropic_build_stream_events(content, chunk_size, reason) ==
  LET pieces == chunk_content(content, chunk_size)
  IN  << Event("ping"), Event("message_start"), BlockStart(0, TextBlock(<<>>)) >>
      \o [i \in DOMAIN pieces |-> TextDelta(0, pieces[i])]
      \o << BlockStop(0), MessageDelta(reason), Event("message_stop") >>

anthropic_body(r) ==
  IF r.tools = <<>> THEN anthropic_build_response(r.text, stop_reason("anthropic", r))
  ELSE [anthropic_build_tool_use_response(r.tools) EXCEPT !.stop_reason = ToolReason(r, @)]

anthropic_tool_frames(r) ==
  << Event("ping"), Event("message_start") >>
  \o FlattenSeq([i \in DOMAIN r.tools |->
       << BlockStart(i - 1, [type |-> "tool_use", name |-> r.tools[i].name]),
          JsonDelta(i - 1, Json[r.tools[i].args]),
          BlockStop(i - 1) >>])
  \o << MessageDelta(ToolReason(r, "tool_use")), Event("message_stop") >>

-----------------------------------------------------------------------------
(* Gemini: each frame is a whole response.                                 *)

TextPart(text) == [text |-> text, call |-> None]

Candidates(parts, reason) ==
  [type |-> "chunk", candidates |-> << [parts |-> parts, finish |-> reason] >>]

gemini_build_response(content) == Candidates(<< TextPart(content) >>, "STOP")

gemini_build_tool_call_response(tools) ==
  Candidates([i \in DOMAIN tools |-> [text |-> None, call |-> tools[i]]], "STOP")

gemini_build_stream_chunks(content, chunk_size) ==
  LET pieces == chunk_content(content, chunk_size)
  IN  IF pieces = <<>> THEN << gemini_build_response(<<>>) >>
      ELSE [i \in DOMAIN pieces |->
             Candidates(<< TextPart(pieces[i]) >>, IF i = Len(pieces) THEN "STOP" ELSE None)]

gemini_body(r) ==
  LET whole == IF r.tools = <<>> THEN gemini_build_response(r.text)
               ELSE gemini_build_tool_call_response(r.tools)
  IN  [whole EXCEPT !.candidates[1].finish = ToolReason(r, @)]

\* The frames of alt=sse; those of the JSON array are the same.
gemini_frames(r, chunk_size) ==
  IF r.tools # <<>> THEN << gemini_body(r) >>
  ELSE LET chunks == gemini_build_stream_chunks(r.text, chunk_size)
       IN  Append(Front(chunks), [Last(chunks) EXCEPT !.candidates[1].finish = ToolReason(r, @)])

-----------------------------------------------------------------------------
(* OpenAI responses: the last event carries the whole response.            *)

Message(text) ==
  [type |-> "message", content |-> << [type |-> "output_text", text |-> text] >>]

Item(name, item) == [type |-> name, item |-> item]
Delta(name, text) == [type |-> name, delta |-> text]
Envelope(name, response) == [type |-> name, response |-> response]

responses_build_response(content) ==
  [status |-> "completed", output |-> << Message(content) >>]

responses_build_tool_call_response(tools) ==
  [status |-> "completed",
   output |-> [i \in DOMAIN tools |->
     [type |-> "function_call", name |-> tools[i].name, args |-> Json[tools[i].args]]]]

stamp_in_progress(response) == [response EXCEPT !.status = "in_progress", !.output = <<>>]

\* An explicit reason other than the default makes the response incomplete.
Closed(response, r) ==
  IF r.reason \notin {None, default_stop_reason["responses"]}
  THEN [response EXCEPT !.status = "incomplete"] ELSE response

responses_body(r) ==
  Closed(IF r.tools = <<>> THEN responses_build_response(r.text)
         ELSE responses_build_tool_call_response(r.tools), r)

responses_build_stream_events(content, chunk_size) ==
  LET response == responses_build_response(content)
      pieces   == chunk_content(content, chunk_size)
  IN  << Envelope("response.created", stamp_in_progress(response)),
         Envelope("response.in_progress", stamp_in_progress(response)),
         Item("response.output_item.added", [Message(<<>>) EXCEPT !.content = <<>>]),
         Event("response.content_part.added") >>
      \o [i \in DOMAIN pieces |-> Delta("response.output_text.delta", pieces[i])]
      \o << Delta("response.output_text.done", content),
            Delta("response.content_part.done", content),
            Item("response.output_item.done", Message(content)),
            Envelope("response.completed", response) >>

responses_text_frames(r, chunk_size) ==
  LET events == responses_build_stream_events(r.text, chunk_size)
  IN  [events EXCEPT ![Len(events)].response = Closed(@, r)]

responses_tool_frames(r) ==
  LET response == responses_build_tool_call_response(r.tools)
  IN  << Envelope("response.created", stamp_in_progress(response)),
         Envelope("response.in_progress", stamp_in_progress(response)) >>
      \o FlattenSeq([i \in DOMAIN response.output |->
           << Item("response.output_item.added", response.output[i]),
              Delta("response.function_call_arguments.delta", response.output[i].args),
              Delta("response.function_call_arguments.done", response.output[i].args),
              Item("response.output_item.done", response.output[i]) >>])
      \o << Envelope("response.completed", Closed(response, r)) >>

-----------------------------------------------------------------------------

build_body(format, r) ==
  CASE format = "chat"        -> chat_body(r)
    [] format = "completions" -> completions_body(r)
    [] format = "anthropic"   -> anthropic_body(r)
    [] format = "gemini"      -> gemini_body(r)
    [] format = "responses"   -> responses_body(r)

build_frames(format, r, chunk_size) ==
  CASE format = "chat" ->
         IF r.tools = <<>> THEN chat_text_frames(r, chunk_size) ELSE chat_tool_frames(r)
    [] format = "completions" -> completions_frames(r, chunk_size)
    [] format = "anthropic" ->
         IF r.tools = <<>>
         THEN anthropic_build_stream_events(r.text, chunk_size, stop_reason("anthropic", r))
         ELSE anthropic_tool_frames(r)
    [] format = "gemini" -> gemini_frames(r, chunk_size)
    [] format = "responses" ->
         IF r.tools = <<>> THEN responses_text_frames(r, chunk_size)
         ELSE responses_tool_frames(r)
=============================================================================
