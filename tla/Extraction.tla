----------------------------- MODULE Extraction -----------------------------
(***************************************************************************)
(* What the recorder takes out of a real answer: out of a whole body       *)
(* (src/src/record/extract.rs) and out of the frames of a finished stream  *)
(* (src/src/record/reassemble.rs).  The result is a response a fixture can *)
(* replay, in the form Formats builds replies from, or None.               *)
(*                                                                         *)
(* Bodies and frames have the shapes of Formats, and what a provider may   *)
(* send besides: choices and candidates that are absent, calls without a   *)
(* name, blocks and items of other types, a text beside tool calls.        *)
(***************************************************************************)
EXTENDS Formats

\* A text that is not the text of an object yields None.
parse_args(text) ==
  IF \E a \in DOMAIN Json : Json[a] = text
  THEN CHOOSE a \in DOMAIN Json : Json[a] = text ELSE None

\* Arguments that come as a text, or not at all.
string_args_or_warn(args) ==
  IF args = None \/ parse_args(args) = None THEN EmptyObject ELSE parse_args(args)

\* Arguments that come as an object, or not at all.
ObjectArgs(args) == IF args = None THEN EmptyObject ELSE args

OrEmpty(text) == IF text = None THEN <<>> ELSE text

\* The last reason that is given, or None.
LastReason(reasons) ==
  LET given == SelectSeq(reasons, LAMBDA r : r # None)
  IN  IF given = <<>> THEN None ELSE Last(given)

\* Tool calls win over text; without either there is nothing to replay.
finish(text, tools, reason) ==
  IF tools # <<>> THEN [text |-> <<>>, tools |-> tools, reason |-> reason]
  ELSE IF text # <<>> THEN [text |-> text, tools |-> <<>>, reason |-> reason]
  ELSE None

\* Calls without a name are dropped.
NamedCalls(calls) ==
  LET named == SelectSeq(calls, LAMBDA c : c.name # None)
  IN  [i \in DOMAIN named |->
        [name |-> named[i].name, args |-> string_args_or_warn(named[i].args)]]

-----------------------------------------------------------------------------
(* Whole bodies.                                                           *)

extract_openai(body) ==
  IF body.choices = <<>> THEN None
  ELSE LET choice == body.choices[1]
       IN  finish(OrEmpty(choice.content), NamedCalls(choice.calls), choice.reason)

extract_completions(body) ==
  IF body.choices = <<>> THEN None
  ELSE finish(body.choices[1].text, <<>>, body.choices[1].reason)

extract_anthropic(body) ==
  LET texts == SelectSeq(body.content, LAMBDA b : b.type = "text")
      uses  == SelectSeq(body.content, LAMBDA b : b.type = "tool_use" /\ b.name # None)
  IN  finish(FlattenSeq([i \in DOMAIN texts |-> texts[i].text]),
             [i \in DOMAIN uses |-> [name |-> uses[i].name, args |-> ObjectArgs(uses[i].input)]],
             body.stop_reason)

accumulate_gemini_parts(parts) ==
  LET calls == SelectSeq(parts, LAMBDA p : p.call # None /\ p.call.name # None)
  IN  [ text  |-> FlattenSeq([i \in DOMAIN parts |-> OrEmpty(parts[i].text)]),
        tools |-> [i \in DOMAIN calls |->
          [name |-> calls[i].call.name, args |-> ObjectArgs(calls[i].call.args)]] ]

extract_gemini(body) ==
  IF body.candidates = <<>> THEN None
  ELSE LET parts == accumulate_gemini_parts(body.candidates[1].parts)
       IN  finish(parts.text, parts.tools, body.candidates[1].finish)

\* Only a response that is complete, or does not say, is replayable; the
\* reason is not kept.
extract_responses(body) ==
  IF body.status \notin {None, "completed"} THEN None
  ELSE LET messages == SelectSeq(body.output, LAMBDA item : item.type = "message")
           parts    == FlattenSeq([i \in DOMAIN messages |-> messages[i].content])
           texts    == SelectSeq(parts, LAMBDA p : p.type = "output_text")
           calls    == SelectSeq(body.output, LAMBDA item : item.type = "function_call")
       IN  finish(FlattenSeq([i \in DOMAIN texts |-> texts[i].text]), NamedCalls(calls), None)

extract_for(format, body) ==
  CASE format = "chat"        -> extract_openai(body)
    [] format = "completions" -> extract_completions(body)
    [] format = "anthropic"   -> extract_anthropic(body)
    [] format = "gemini"      -> extract_gemini(body)
    [] format = "responses"   -> extract_responses(body)

-----------------------------------------------------------------------------
(* Finished streams.                                                       *)

\* Mutant of ends_with_done: the sentinel is not required.
EndsAnyhow(frames) == frames # <<>>

\* The last frame is the sentinel of the OpenAI family.
ends_with_done(frames) == frames # <<>> /\ Last(frames) = Done

\* The first choice of each chunk; usage chunks have none.
FirstChoices(frames) ==
  LET chunks == SelectSeq(frames, LAMBDA f : f.type = "chunk" /\ f.choices # <<>>)
  IN  [i \in DOMAIN chunks |-> chunks[i].choices[1]]

\* Fragments of calls, by index: the first name that comes and all the text.
assemble_fragmented_tools(fragments) ==
  LET indices == SetToSortSeq({fragments[i].index : i \in DOMAIN fragments}, <)
      Of(index) == SelectSeq(fragments, LAMBDA f : f.index = index)
      Name(fs)  == LET named == SelectSeq(fs, LAMBDA f : f.name # None)
                   IN  IF named = <<>> THEN None ELSE named[1].name
      Args(fs)  == FlattenSeq([i \in DOMAIN fs |-> OrEmpty(fs[i].args)])
  IN  NamedCalls([k \in DOMAIN indices |->
        [name |-> Name(Of(indices[k])), args |-> Args(Of(indices[k]))]])

\* A fragment without an index has that of its place in the chunk.
Numbered(calls) ==
  [i \in DOMAIN calls |-> [calls[i] EXCEPT !.index = IF @ = None THEN i - 1 ELSE @]]

reassemble_openai(frames) ==
  LET choices == FirstChoices(frames)
  IN  IF ~ends_with_done(frames) THEN None
      ELSE finish(FlattenSeq([i \in DOMAIN choices |-> OrEmpty(choices[i].content)]),
                  assemble_fragmented_tools(
                    FlattenSeq([i \in DOMAIN choices |-> Numbered(choices[i].calls)])),
                  LastReason([i \in DOMAIN choices |-> choices[i].reason]))

reassemble_completions(frames) ==
  LET choices == FirstChoices(frames)
  IN  IF ~ends_with_done(frames) THEN None
      ELSE finish(FlattenSeq([i \in DOMAIN choices |-> choices[i].text]), <<>>,
                  LastReason([i \in DOMAIN choices |-> choices[i].reason]))

\* The replayable blocks, in the order of their index: opened by their start
\* (a later start of the same index replaces the block), grown by the deltas
\* of their type that follow it.
AnthropicBlocks(frames) ==
  LET starts == { i \in DOMAIN frames :
                  /\ frames[i].type = "content_block_start"
                  /\ \/ frames[i].content_block.type = "text"
                     \/ /\ frames[i].content_block.type = "tool_use"
                        /\ frames[i].content_block.name # None }
      kept   == { i \in starts : \A j \in starts : frames[j].index = frames[i].index => j <= i }
      order  == SetToSortSeq(kept, LAMBDA i, j : frames[i].index < frames[j].index)
      Grown(i, kind) ==
        SelectSeq(SubSeq(frames, i, Len(frames)),
                  LAMBDA f : /\ f.type = "content_block_delta" /\ f.index = frames[i].index
                             /\ f.delta.type = kind)
      Block(i) ==
        IF frames[i].content_block.type = "text"
        THEN LET grown == Grown(i, "text_delta")
             IN  [type |-> "text",
                  text |-> frames[i].content_block.text
                           \o FlattenSeq([k \in DOMAIN grown |-> grown[k].delta.text])]
        ELSE LET grown == Grown(i, "input_json_delta")
             IN  [type |-> "tool_use", name |-> frames[i].content_block.name,
                  input |-> string_args_or_warn(
                    FlattenSeq([k \in DOMAIN grown |-> grown[k].delta.partial_json]))]
  IN  [k \in DOMAIN order |-> Block(order[k])]

reassemble_anthropic(frames) ==
  LET deltas == SelectSeq(frames, LAMBDA f : f.type = "message_delta")
  IN  IF \A i \in DOMAIN frames : frames[i].type # "message_stop" THEN None
      ELSE extract_anthropic(
             [content     |-> AnthropicBlocks(frames),
              stop_reason |-> LastReason([i \in DOMAIN deltas |-> deltas[i].stop_reason])])

\* The first candidate of each frame that has one, by the frame's place.
FirstCandidates(frames) ==
  [i \in {i \in DOMAIN frames : frames[i].type = "chunk" /\ frames[i].candidates # <<>>} |->
    frames[i].candidates[1]]

\* The last frame with a candidate must have a reason, and that one is kept.
reassemble_gemini(frames) ==
  LET candidates == FirstCandidates(frames)
      order == SetToSortSeq(DOMAIN candidates, <)
      last  == candidates[Max(DOMAIN candidates)]
      parts == accumulate_gemini_parts(
                 FlattenSeq([k \in DOMAIN order |-> candidates[order[k]].parts]))
  IN  IF DOMAIN candidates = {} \/ last.finish = None THEN None
      ELSE finish(parts.text, parts.tools, last.finish)

\* The last completed event has the whole response.
reassemble_responses(frames) ==
  LET completed == {i \in DOMAIN frames : frames[i].type = "response.completed"}
  IN  IF completed = {} THEN None ELSE extract_responses(frames[Max(completed)].response)

reassemble_for(format, frames) ==
  CASE format = "chat"        -> reassemble_openai(frames)
    [] format = "completions" -> reassemble_completions(frames)
    [] format = "anthropic"   -> reassemble_anthropic(frames)
    [] format = "gemini"      -> reassemble_gemini(frames)
    [] format = "responses"   -> reassemble_responses(frames)
=============================================================================
