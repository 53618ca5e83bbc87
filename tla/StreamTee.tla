----------------------------- MODULE StreamTee -----------------------------
(***************************************************************************)
(* Recording a stream: forward_and_relay of src/src/record/respond.rs for  *)
(* a streaming request.  A task of its own takes the chunks of the         *)
(* upstream, keeps a copy, hands each to the client through a bounded      *)
(* channel, and records the answer when the upstream has ended.            *)
(*                                                                         *)
(* The bytes of the upstream are counted in halves of frames, and a chunk  *)
(* is any run of them: a frame may arrive in two chunks, and an upstream   *)
(* may end inside one.  The buffer is always a beginning of the stream, so *)
(* it is the number of halves in it.                                       *)
(***************************************************************************)
EXTENDS Extraction

CONSTANTS
  Sources,      \* the streams an upstream may send, numbered: [format, frames,
                \* body], with the body the same answer has when not streamed
  ChannelSize,  \* capacity of the relay channel (32 in the code)
  CaptureCap,   \* the most the buffer may hold (16 MiB in the code)
  MaxChunk      \* bound: halves of frames in one chunk

ASSUME TeeAssumption ==
  /\ ChannelSize \in Nat \ {0} /\ MaxChunk \in Nat \ {0} /\ CaptureCap \in Nat
  /\ \A s \in DOMAIN Sources :
       /\ Sources[s].format \in FormatNames
       /\ Sources[s].frames \in Seq(Range(Sources[s].frames)) \ {<<>>}
  /\ None \notin {"eof", "error"}

Failure == 0   \* stands in the channel for the injected error

VARIABLES
  source,     \* the number of this upstream's stream
  pos,        \* the halves it has sent
  over,       \* whether its body has ended, in order or not
  buf,        \* buf.len()
  clean,
  recording,
  client_connected,
  pc,         \* where the task is
  chunk,      \* the chunk it is handing over
  channel,    \* the chunks under way to the client
  client,     \* "reads" or "gone"
  received,   \* the halves the client has got
  ended,      \* how the body ended for the client: None, "eof" or "error"
  recorded,   \* what was handed to persist, or None
  captured    \* the pushes into the capture log

task_vars == <<buf, clean, recording, client_connected, chunk>>
client_vars == <<client, received, ended>>
vars == <<source, pos, over, task_vars, pc, channel, client_vars, recorded, captured>>

-----------------------------------------------------------------------------

upstream == Sources[source]

Length == 2 * Len(upstream.frames)

\* What parse_sse finds in the first n halves of a stream.
parse_sse(s, n) ==
  SubSeq(Sources[s].frames, 1, n \div 2) \o (IF n % 2 = 1 THEN << Torn >> ELSE <<>>)

\* What a buffer of n halves gives (a table, as it does not change).
Reassembled ==
  [s \in DOMAIN Sources |->
    [n \in 0..2 * Len(Sources[s].frames) |->
      reassemble_for(Sources[s].format, parse_sse(s, n))]]

exceeds_capture_cap(len, chunk_len) == len + chunk_len > CaptureCap

Init ==
  /\ source \in DOMAIN Sources
  /\ pos = 0 /\ over = FALSE /\ buf = 0
  /\ clean = TRUE /\ recording = TRUE /\ client_connected = TRUE
  /\ pc = "read" /\ chunk = 0
  /\ channel = <<>>
  /\ client = "reads" /\ received = 0 /\ ended = None
  /\ recorded = None /\ captured = 0

\* Ok(chunk): the copy first, then the relay.
TakeChunk ==
  /\ pc = "read"
  /\ \E n \in 1..Min({MaxChunk, Length - pos}) :
       /\ pos' = pos + n
       /\ chunk' = n
       /\ IF recording /\ exceeds_capture_cap(buf, n)
          THEN recording' = FALSE /\ buf' = 0
          ELSE buf' = (IF recording THEN buf + n ELSE buf) /\ UNCHANGED recording
  /\ pc' = "relay"
  /\ UNCHANGED <<source, over, clean, client_connected, channel, client_vars, recorded, captured>>

\* Mutant of Relay: the drain stops with the client.
RelayAndStop ==
  /\ pc = "relay"
  /\ \/ client = "reads" /\ Len(channel) < ChannelSize
        /\ channel' = Append(channel, chunk) /\ pc' = "read" /\ UNCHANGED client_connected
     \/ client = "gone" /\ client_connected' = FALSE /\ pc' = "end" /\ UNCHANGED channel
  /\ UNCHANGED <<source, pos, over, buf, clean, recording, chunk, client_vars, recorded, captured>>

\* tx.send waits for room; a client that hung up is not sent to again, and
\* the drain goes on as long as there is something to record.
Relay ==
  /\ pc = "relay"
  /\ IF client_connected
     THEN \/ client = "reads" /\ Len(channel) < ChannelSize
             /\ channel' = Append(channel, chunk) /\ UNCHANGED client_connected
          \/ client = "gone" /\ client_connected' = FALSE /\ UNCHANGED channel
     ELSE UNCHANGED <<channel, client_connected>>
  /\ pc' = IF client_connected' \/ recording THEN "read" ELSE "end"
  /\ UNCHANGED <<source, pos, over, buf, clean, recording, chunk, client_vars, recorded, captured>>

\* The upstream's body ends without an error, after its last frame or, where
\* it has no length, anywhere.
UpstreamEnds ==
  /\ pc = "read"
  /\ over' = TRUE
  /\ pc' = "end"
  /\ UNCHANGED <<source, pos, task_vars, channel, client_vars, recorded, captured>>

\* Err(e)
UpstreamFails ==
  /\ pc = "read"
  /\ over' = TRUE
  /\ clean' = FALSE
  /\ pc' = "error"
  /\ UNCHANGED <<source, pos, buf, recording, client_connected, chunk, channel, client_vars,
                 recorded, captured>>

\* Mutant of SurfaceError: it waits for room although nobody reads.
SurfaceWithRoom ==
  /\ pc = "error"
  /\ Len(channel) < ChannelSize
  /\ channel' = Append(channel, Failure)
  /\ pc' = "end"
  /\ UNCHANGED <<source, pos, over, task_vars, client_vars, recorded, captured>>

\* Mutant of SurfaceError: the channel is just closed.
SwallowError ==
  /\ pc = "error"
  /\ pc' = "end"
  /\ UNCHANGED <<source, pos, over, task_vars, channel, client_vars, recorded, captured>>

SurfaceError ==
  /\ pc = "error"
  /\ Len(channel) < ChannelSize \/ client = "gone"
  /\ channel' = IF client = "gone" THEN channel ELSE Append(channel, Failure)
  /\ pc' = "end"
  /\ UNCHANGED <<source, pos, over, task_vars, client_vars, recorded, captured>>

\* tx is dropped and the buffer reassembled.
Record ==
  /\ pc = "end"
  /\ recorded' = IF clean /\ recording THEN Reassembled[source][buf] ELSE None
  /\ pc' = "push"
  /\ UNCHANGED <<source, pos, over, task_vars, channel, client_vars, captured>>

push_captured ==
  /\ pc = "push"
  /\ captured' = captured + 1
  /\ pc' = "done"
  /\ UNCHANGED <<source, pos, over, task_vars, channel, client_vars, recorded>>

-----------------------------------------------------------------------------
(* The client.                                                             *)

Receive ==
  /\ client = "reads" /\ ended = None /\ channel # <<>>
  /\ channel' = Tail(channel)
  /\ IF Head(channel) = Failure
     THEN ended' = "error" /\ UNCHANGED received
     ELSE received' = received + Head(channel) /\ UNCHANGED ended
  /\ UNCHANGED <<source, pos, over, task_vars, pc, client, recorded, captured>>

EndOfStream ==
  /\ client = "reads" /\ ended = None /\ channel = <<>>
  /\ pc \in {"push", "done"}
  /\ ended' = "eof"
  /\ UNCHANGED <<source, pos, over, task_vars, pc, channel, client, received, recorded, captured>>

ClientLeaves ==
  /\ client = "reads" /\ ended = None
  /\ client' = "gone"
  /\ UNCHANGED <<source, pos, over, task_vars, pc, channel, received, ended, recorded, captured>>

Upstream == TakeChunk \/ UpstreamEnds \/ UpstreamFails

Task == Relay \/ SurfaceError \/ Record \/ push_captured

Next == Upstream \/ Task \/ Receive \/ EndOfStream \/ ClientLeaves

Spec == Init /\ [][Next]_vars

\* The runtime polls the task, and a client that has not left goes on reading.
\* Nothing is assumed of the upstream: the HTTP client has no overall timeout.
FairSpec == Spec /\ WF_vars(Task) /\ WF_vars(Receive \/ EndOfStream)

-----------------------------------------------------------------------------
(* Properties.                                                             *)

\* A stream that was recorded was recorded whole: the entry is the one the same
\* answer gives when it is not streamed, however its frames were cut into
\* chunks and wherever the upstream ended (reassemble.rs against extract.rs; "a
\* truncated stream never records").
RecordedIsWhole ==
  recorded # None => recorded = extract_for(upstream.format, upstream.body)

\* Within the cap the task stays with the upstream to its end, also when its
\* client hung up in the middle, and a stream that ended in order is recorded
\* ("keep draining so the recording can still complete").
SalvageCompletes ==
  pc \in {"push", "done"} /\ Length <= CaptureCap =>
    /\ over
    /\ clean /\ pos = Length => recorded = extract_for(upstream.format, upstream.body)

\* A client that has read to an orderly end of the body has all the bytes the
\* upstream sent, and the upstream did not fail ("without it, dropping tx would
\* read as a clean-looking end").
ClientSeesTruth == ended = "eof" => clean /\ received = pos

\* Replaying an entry gives back what was recorded, whole and as a stream: the
\* builders of format/ and the decoders of record/ agree.  An entry without a
\* reason is replayed with the default one.
ReplaysTheSame ==
  pc = "push" /\ recorded # None =>
    LET again == extract_for(upstream.format, build_body(upstream.format, recorded))
    IN  /\ again # None
        /\ again.text = recorded.text /\ again.tools = recorded.tools
        /\ recorded.reason # None => again.reason = recorded.reason
        /\ \A size \in 0..3 :
             reassemble_for(upstream.format, build_frames(upstream.format, recorded, size)) = again

\* Only the upstream keeps the task waiting: it comes back for the next chunk,
\* or ends with its push into the capture log, though its client is slow, or
\* hangs up while a chunk or the error waits for room in the channel.
TeeEnds == pc # "read" ~> pc = "read" \/ (pc = "done" /\ captured = 1)
=============================================================================
