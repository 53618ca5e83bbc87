---------------------------- MODULE ReplyStream ----------------------------
(***************************************************************************)
(* The answer to a matched request: the tail of handle_request             *)
(* (src/src/handler/mod.rs) after the match was captured, the chaos plan   *)
(* (src/src/chaos.rs), and the two ways a stream leaves the server.        *)
(*                                                                         *)
(* A server-sent stream is written by a task of its own into a bounded     *)
(* channel, against a deadline; the client reads the other end.  A JSON    *)
(* array is collected by the handler and sent whole.                       *)
(*                                                                         *)
(* A frame is its number in the stream the fixture describes.  Time is     *)
(* what is left of two timers, in milliseconds; it passes between any two  *)
(* steps, so that a task may be late but never early.                      *)
(***************************************************************************)
EXTENDS Integers, Sequences, FiniteSetsExt, SequencesExt

CONSTANTS
  Fixtures,     \* the matched fixtures, see FixtureType
  ChannelSize,  \* capacity of the frame channel (32 in the code)
  None

\* kind "broken" is a template that fails to render.  `frames` is the number
\* of frames its response is cut into.
FixtureType ==
  [ kind : {"refusal", "error", "broken", "response"}, status : 400..599,
    corrupt : BOOLEAN, frames : Nat \ {0}, latency : Nat,
    truncate : Nat \cup {None}, disconnect : (Nat \ {0}) \cup {None},
    jitter : Nat \cup {None}, duplicate : BOOLEAN, certain : BOOLEAN ]

ASSUME FixturesAssumption == Fixtures \subseteq FixtureType
ASSUME ChannelAssumption == ChannelSize \in Nat \ {0}
ASSUME NoneAssumption == None \notin Nat \cup {"eof", "reset"}

\* How the request wants its answer: whole, as an event stream, or (Gemini
\* without alt=sse) as a stream in a JSON array.
Modes == {"whole", "sse", "array"}

Reset == 0   \* stands in the channel for the injected ConnectionReset

VARIABLES
  fixture,    \* the matched fixture
  mode,       \* how the request is to be answered
  captured,   \* the status that was captured with the match
  status,     \* the status of the reply, None before there is one
  pc,         \* where the handler or the sending task is
  plan,       \* the chaos plan of this request
  frames,     \* the frames to send, after duplication
  sent,       \* how many of them the loop has handled
  collected,  \* stream_json_array's buffer
  sleeping,   \* what is left of the sleep between two frames
  left,       \* what is left until the disconnect, None without one
  channel,    \* the frames under way
  client,     \* "reads" or "gone"
  received,   \* the frames the client has got
  ended       \* how the body ended for the client: None, "eof" or "reset"

stream_vars == <<plan, frames, sent, collected, sleeping, left, channel>>
client_vars == <<client, received, ended>>
vars == <<fixture, mode, captured, status, pc, stream_vars, client_vars>>

-----------------------------------------------------------------------------
(* ChaosPlan.                                                              *)

PASSTHROUGH == [duplicate |-> FALSE, delays |-> None]

Jittered(latency, range) ==
  { Max({0, latency + delta}) : delta \in -range..range }

\* effective_count: the delays are one per frame after duplication.
PlannedFrames(f) == IF f.duplicate THEN 2 * f.frames ELSE f.frames

\* ChaosPlan::from_failure: PASSTHROUGH unless there are chaos fields and
\* the roll succeeds; the generator may roll and draw anything.
from_failure(f) ==
  LET active == { [duplicate |-> f.duplicate, delays |-> d] :
                  d \in IF f.jitter \in {None, 0} THEN {None}
                        ELSE [1..PlannedFrames(f) -> Jittered(f.latency, f.jitter)] }
  IN  IF f.jitter = None /\ ~f.duplicate THEN {PASSTHROUGH}
      ELSE IF f.certain THEN active ELSE active \cup {PASSTHROUGH}

\* Mutant of apply_frame_duplication: the stream is repeated as a whole.
RepeatStream(p, fs) == IF p.duplicate THEN fs \o fs ELSE fs

apply_frame_duplication(p, fs) ==
  IF p.duplicate THEN FlattenSeq([i \in DOMAIN fs |-> <<fs[i], fs[i]>>]) ELSE fs

\* The delay after the i-th frame: the plan's, if it has one for each frame.
Delay(i) ==
  IF plan.delays # None /\ DOMAIN plan.delays = DOMAIN frames
  THEN plan.delays[i] ELSE fixture.latency

-----------------------------------------------------------------------------
Init ==
  /\ fixture \in Fixtures
  /\ mode \in Modes
  /\ captured = IF fixture.kind = "error" THEN fixture.status
                ELSE IF fixture.kind = "refusal" /\ mode # "whole" THEN 400 ELSE 200
  /\ status = None
  /\ pc = "matched"
  /\ plan = PASSTHROUGH
  /\ frames = <<>> /\ sent = 0 /\ collected = <<>>
  /\ sleeping = 0 /\ left = None
  /\ channel = <<>>
  /\ client = "reads" /\ received = <<>> /\ ended = None

\* A reply whose body is there at once.
Reply(code) ==
  /\ pc = "matched"
  /\ client = "reads"
  /\ status' = code
  /\ ended' = "eof"
  /\ pc' = "done"
  /\ UNCHANGED <<fixture, mode, captured, stream_vars, client, received>>

\* Mutant of Refuse: a refusal that was to be streamed is answered like others.
RefuseAlways200 == fixture.kind = "refusal" /\ Reply(200)

Refuse == fixture.kind = "refusal" /\ Reply(IF mode = "whole" THEN 200 ELSE 400)

AnswerError == fixture.kind = "error" /\ Reply(fixture.status)

RenderFails == fixture.kind = "broken" /\ Reply(500)

Corrupt == fixture.kind = "response" /\ fixture.corrupt /\ Reply(200)

AnswerWhole ==
  fixture.kind = "response" /\ ~fixture.corrupt /\ mode = "whole" /\ Reply(200)

\* The frames are built, the plan is drawn and the stream begins: the
\* headers of an event stream leave now, those of an array with its body.
StartStream ==
  /\ pc = "matched"
  /\ client = "reads"
  /\ fixture.kind = "response" /\ ~fixture.corrupt /\ mode # "whole"
  /\ plan' \in from_failure(fixture)
  /\ frames' = apply_frame_duplication(plan', [i \in 1..fixture.frames |-> i])
  /\ left' = fixture.disconnect
  /\ status' = IF mode = "sse" THEN 200 ELSE None
  /\ pc' = "yield"
  /\ UNCHANGED <<fixture, mode, captured, sent, collected, sleeping, channel, client_vars>>

-----------------------------------------------------------------------------
(* stream_sse_frames.  Each step is a poll of the task; it looks at the    *)
(* deadline first, as the select is biased.                                *)

Expired == left = 0

Truncated == fixture.truncate # None /\ sent >= fixture.truncate

\* Mutant of Polls: the select is not biased.
PollsEither(point) == mode = "sse" /\ pc = point

Polls(point) == mode = "sse" /\ pc = point /\ ~Expired

\* Hands over the next frame, waits for room, or stops as nobody listens.
SendFrame ==
  IF client = "gone" THEN pc' = "done" /\ UNCHANGED <<sent, sleeping, channel>>
  ELSE IF Len(channel) = ChannelSize
  THEN pc' = "blocked" /\ UNCHANGED <<sent, sleeping, channel>>
  ELSE /\ channel' = Append(channel, frames[sent + 1])
       /\ sent' = sent + 1
       /\ pc' = IF sent' = Len(frames) THEN "done"
                ELSE IF Delay(sent') > 0 THEN "asleep" ELSE "yield"
       /\ sleeping' = IF pc' = "asleep" THEN Delay(sent') ELSE 0

NextFrame ==
  /\ Polls("yield")
  /\ IF Truncated THEN pc' = "done" /\ UNCHANGED <<sent, sleeping, channel>> ELSE SendFrame
  /\ UNCHANGED <<fixture, mode, captured, status, plan, frames, collected, left, client_vars>>

\* Mutant of Unblocked: only room wakes the sender.
UnblockedByRoom ==
  /\ Polls("blocked")
  /\ Len(channel) < ChannelSize
  /\ SendFrame
  /\ UNCHANGED <<fixture, mode, captured, status, plan, frames, collected, left, client_vars>>

\* There is room again, or the receiver was dropped.
Unblocked ==
  /\ Polls("blocked")
  /\ Len(channel) < ChannelSize \/ client = "gone"
  /\ SendFrame
  /\ UNCHANGED <<fixture, mode, captured, status, plan, frames, collected, left, client_vars>>

WakesUp ==
  /\ Polls("asleep")
  /\ sleeping = 0
  /\ pc' = "yield"
  /\ UNCHANGED <<fixture, mode, captured, status, stream_vars, client_vars>>

\* The deadline wins: the loop is dropped, with the frame it may hold.
Disconnect ==
  /\ mode = "sse" /\ pc \in {"yield", "blocked", "asleep"} /\ Expired
  /\ pc' = "reset"
  /\ UNCHANGED <<fixture, mode, captured, status, stream_vars, client_vars>>

InjectReset ==
  /\ pc = "reset"
  /\ Len(channel) < ChannelSize \/ client = "gone"
  /\ channel' = IF client = "gone" THEN channel ELSE Append(channel, Reset)
  /\ pc' = "done"
  /\ UNCHANGED <<fixture, mode, captured, status, plan, frames, sent, collected,
                 sleeping, left, client_vars>>

-----------------------------------------------------------------------------
(* stream_json_array.  The clock is read twice in a round, before the      *)
(* frame is taken and when the pause after it is measured.                 *)

\* The array is closed and sent.
SendArray(array) ==
  /\ collected' = array
  /\ received' = array
  /\ ended' = "eof"
  /\ status' = 200
  /\ pc' = "done"

CollectFrame ==
  /\ mode = "array" /\ pc = "yield" /\ client = "reads"
  /\ IF Expired \/ Truncated
     THEN SendArray(collected) /\ UNCHANGED sent
     ELSE LET more == Append(collected, frames[sent + 1])
          IN  /\ sent' = sent + 1
              /\ IF sent' = Len(frames) THEN SendArray(more)
                 ELSE pc' = "pause" /\ collected' = more /\ UNCHANGED <<received, ended, status>>
  /\ UNCHANGED <<fixture, mode, captured, plan, frames, sleeping, left, channel, client>>

Pause ==
  /\ mode = "array" /\ pc = "pause" /\ client = "reads"
  /\ IF Delay(sent) > 0 /\ Expired
     THEN SendArray(collected) /\ UNCHANGED sleeping
     ELSE /\ sleeping' = IF left = None THEN Delay(sent) ELSE Min({Delay(sent), left})
          /\ pc' = IF Delay(sent) > 0 THEN "asleep" ELSE "yield"
          /\ UNCHANGED <<collected, received, ended, status>>
  /\ UNCHANGED <<fixture, mode, captured, plan, frames, sent, left, channel, client>>

\* A deadline that came during the sleep takes the last frame back.
EndPause ==
  /\ mode = "array" /\ pc = "asleep" /\ client = "reads"
  /\ sleeping = 0
  /\ IF Expired THEN SendArray(Front(collected))
     ELSE pc' = "yield" /\ UNCHANGED <<collected, received, ended, status>>
  /\ UNCHANGED <<fixture, mode, captured, plan, frames, sent, sleeping, left, channel, client>>

-----------------------------------------------------------------------------
(* The client, and time.                                                   *)

Receive ==
  /\ client = "reads" /\ ended = None /\ channel # <<>>
  /\ channel' = Tail(channel)
  /\ IF Head(channel) = Reset
     THEN ended' = "reset" /\ UNCHANGED received
     ELSE received' = Append(received, Head(channel)) /\ UNCHANGED ended
  /\ UNCHANGED <<fixture, mode, captured, status, pc, plan, frames, sent, collected,
                 sleeping, left, client>>

\* The task has ended and its end of the channel is closed.
EndOfStream ==
  /\ client = "reads" /\ ended = None /\ pc = "done" /\ channel = <<>>
  /\ ended' = "eof"
  /\ UNCHANGED <<fixture, mode, captured, status, pc, stream_vars, client, received>>

\* Before there is a reply the handler's future is dropped with its client;
\* the task of an event stream goes on and sees a closed channel.
ClientLeaves ==
  /\ client = "reads" /\ ended = None
  /\ client' = "gone"
  /\ pc' = IF status = None THEN "done" ELSE pc
  /\ UNCHANGED <<fixture, mode, captured, status, stream_vars, received, ended>>

Tick ==
  /\ pc \in {"yield", "blocked", "asleep", "pause"}
  /\ sleeping > 0 \/ left \notin {None, 0}
  /\ sleeping' = Max({0, sleeping - 1})
  /\ left' = IF left = None THEN None ELSE Max({0, left - 1})
  /\ UNCHANGED <<fixture, mode, captured, status, pc, plan, frames, sent, collected,
                 channel, client_vars>>

Serve == Refuse \/ AnswerError \/ RenderFails \/ Corrupt \/ AnswerWhole \/ StartStream

Send == \/ NextFrame \/ Unblocked \/ WakesUp \/ Disconnect \/ InjectReset
        \/ CollectFrame \/ Pause \/ EndPause

Next == Serve \/ Send \/ Receive \/ EndOfStream \/ ClientLeaves \/ Tick

Spec == Init /\ [][Next]_vars

\* The runtime polls a task that is ready, time passes, and a client that has
\* not left goes on reading.
FairSpec ==
  Spec /\ WF_vars(Serve) /\ WF_vars(Send) /\ WF_vars(Tick) /\ WF_vars(Receive \/ EndOfStream)

-----------------------------------------------------------------------------
(* What the whole delays and the fixture promise, said without the loops.  *)

\* The frames of an undisturbed stream: doubled, then cut.
Planned ==
  LET source  == [i \in 1..fixture.frames |-> i]
      doubled == [i \in 1..2 * fixture.frames |-> (i + 1) \div 2]
      all     == IF plan.duplicate THEN doubled ELSE source
  IN  IF fixture.truncate = None THEN all
      ELSE SubSeq(all, 1, Min({Len(all), fixture.truncate}))

Total(delays) ==
  LET total[n \in 0..Len(delays)] == IF n = 0 THEN 0 ELSE total[n - 1] + delays[n]
  IN  total[Len(delays)]

\* The time an undisturbed stream sleeps, in the pauses between its frames.
PlannedTime == Total([i \in 1..Min({Len(Planned), Len(frames) - 1}) |-> Delay(i)])

-----------------------------------------------------------------------------
(* Properties.                                                             *)

Streaming == {"yield", "blocked", "asleep", "pause", "reset"}

\* What the client holds is always the beginning of the stream the fixture
\* promises (each frame twice under duplication, cut at truncate_after_frames),
\* with a delay planned for each frame that is sent and for no other;
\* a stream that ends in order was sent to its end, and one that is reset or
\* an array that is cut short had met its disconnect_after_ms
\* (stream_sse_frames, stream_json_array).
EndsAsPlanned ==
  /\ IsPrefix(received, Planned)
  /\ plan.delays # None => DOMAIN plan.delays = DOMAIN frames
  /\ ended = "reset" => left = 0
  /\ ended = "eof" /\ frames # <<>> /\ received # Planned => mode = "array" /\ left = 0

\* A stream whose pauses alone take as long as disconnect_after_ms never ends
\* in order: an event stream is reset and an array lacks a frame at least, whatever the
\* scheduler does ("if both futures are ready, the disconnect always wins").
LateStreamsCut ==
  ended # None /\ left # None /\ PlannedTime >= fixture.disconnect
    => IF mode = "sse" THEN ended = "reset" ELSE Len(received) < Len(frames)

\* Every stream ends: the sending task stops when it has sent everything, when
\* its deadline comes, and when nobody listens any more, also when it is
\* waiting for room in the channel.
StreamEnds == pc \in Streaming ~> pc = "done"

\* The status in the log is the one that was returned (CapturedRequest's
\* status_code: "the server returned (or will return)"), although it is worked
\* out before the reply and apart from it.  A template that fails to render is
\* the exception: it is found out after the capture.
StatusAsCaptured == status # None /\ fixture.kind # "broken" => status = captured
=============================================================================
