---------------------------- MODULE MCStreamTee ----------------------------
(* A small instance of StreamTee: answers built by the server's own formats  *)
(* (an upstream may be another llmposter), and answers in the shapes real    *)
(* providers send: calls in interleaved fragments, thinking blocks, text     *)
(* beside tool calls, usage chunks at the end, mangled arguments.            *)
EXTENDS StreamTee

CONSTANTS Obj1

MCJson == (EmptyObject :> <<"{", "}">>) @@ (Obj1 :> <<"{", "x", "}">>)

Text == [text |-> <<"a", "b", "c">>, tools |-> <<>>, reason |-> None]
Tools == [text |-> <<>>, reason |-> None,
          tools |-> << [name |-> "f", args |-> Obj1], [name |-> "g", args |-> EmptyObject] >>]

Built(format, r) ==
  [format |-> format, frames |-> build_frames(format, r, 2), body |-> build_body(format, r)]

\* Text with and without a reason of its own, and tool calls, in each format.
Canned ==
  LET names == <<"chat", "completions", "anthropic", "gemini", "responses">>
  IN  FlattenSeq([i \in DOMAIN names |->
        << Built(names[i], Text), Built(names[i], [Text EXCEPT !.reason = "length"]),
           Built(names[i], Tools) >>])

Call(index, name, args) == [index |-> index, name |-> name, args |-> args]

\* Two calls whose fragments alternate, with text before them and a usage
\* chunk after the reason; the arguments of the second are mangled.
ProviderChat ==
  [ format |-> "chat",
    frames |-> << ChatChunk(<<"a">>, <<>>, None),
                  ChatChunk(None, << Call(0, "f", <<"{">>) >>, None),
                  ChatChunk(None, << Call(1, "g", None) >>, None),
                  ChatChunk(None, << Call(0, None, <<"x", "}">>), Call(1, None, <<"x">>) >>, None),
                  ChatChunk(None, <<>>, "tool_calls"),
                  [type |-> "chunk", choices |-> <<>>],
                  Done >>,
    body |-> [choices |-> ChatChoice(<<"a">>,
               << Call(None, "f", Json[Obj1]), Call(None, "g", <<"x">>) >>, "tool_calls")] ]

\* A thinking block, and two blocks whose deltas alternate.
ProviderAnthropic ==
  [ format |-> "anthropic",
    frames |-> << Event("message_start"), BlockStart(0, [type |-> "thinking"]),
                  BlockStart(2, [type |-> "tool_use", name |-> "f"]),
                  BlockStart(1, TextBlock(<<"a">>)),
                  [type |-> "content_block_delta", index |-> 0,
                   delta |-> [type |-> "thinking_delta"]],
                  JsonDelta(2, <<"{">>), TextDelta(1, <<"b">>), JsonDelta(2, <<"x", "}">>),
                  MessageDelta("tool_use"), Event("message_stop") >>,
    body |-> [ content |-> << [type |-> "thinking"], TextBlock(<<"a", "b">>),
                              [type |-> "tool_use", name |-> "f", input |-> Obj1] >>,
               stop_reason |-> "tool_use" ] ]

\* Text, then a call without arguments, then a frame without candidates.
ProviderGemini ==
  [ format |-> "gemini",
    frames |-> << Candidates(<< TextPart(<<"a">>) >>, None),
                  Candidates(<< [text |-> None, call |-> [name |-> "g", args |-> None]] >>, None),
                  Candidates(<<>>, "STOP"),
                  [type |-> "chunk", candidates |-> <<>>] >>,
    body |-> Candidates(<< TextPart(<<"a">>),
                           [text |-> None, call |-> [name |-> "g", args |-> None]] >>, "STOP") ]

\* A reasoning item before the message.
ProviderResponses ==
  LET response == [status |-> "completed",
                   output |-> << [type |-> "reasoning"], Message(<<"a">>) >>]
  IN  [ format |-> "responses",
        frames |-> << Envelope("response.created", stamp_in_progress(response)),
                      Delta("response.output_text.delta", <<"a">>),
                      Envelope("response.completed", response) >>,
        body |-> response ]

MCSources ==
  Canned \o << ProviderChat, ProviderAnthropic, ProviderGemini, ProviderResponses >>
=============================================================================
