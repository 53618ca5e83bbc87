-------------------------- MODULE StreamTeeProofs ---------------------------
(***************************************************************************)
(* Recording a stream, for any streams of any upstream, any chunks, any    *)
(* channel and any cap: what the client is told of the end is true, a      *)
(* client that leaves does not cost the recording, and a stream that was   *)
(* cut is not recorded.                                                    *)
(***************************************************************************)
EXTENDS StreamTee, SequenceTheorems, WellFoundedInduction, TLAPS

TeeTypes ==
  /\ source \in DOMAIN Sources
  /\ pos \in 0 .. Length
  /\ over \in BOOLEAN /\ buf \in Nat
  /\ clean \in BOOLEAN /\ recording \in BOOLEAN /\ client_connected \in BOOLEAN
  /\ pc \in {"read", "relay", "error", "end", "push", "done"}
  /\ chunk \in Nat
  /\ channel \in Seq(Nat)
  /\ client \in {"reads", "gone"} /\ received \in Nat
  /\ ended \in {None, "eof", "error"}

\* A task that records has copied all that came, and leaves the upstream only
\* when it is over; what it hands to persist is the copy.
Salvage ==
  /\ recording => buf = pos
  /\ Length <= CaptureCap => recording
  /\ recording /\ pc \notin {"read", "relay"} => over
  /\ pc \in {"push", "done"} =>
       recorded = IF clean /\ recording THEN Reassembled[source][buf] ELSE None
  /\ pc \notin {"push", "done"} => recorded = None

\* The marks are the places in the stream between the chunks under way.
Marks(marks, from, items, to) ==
  /\ marks \in Seq(Nat)
  /\ Len(marks) = Len(items) + 1
  /\ marks[1] = from /\ marks[Len(marks)] = to
  /\ \A i \in 1 .. Len(items) : marks[i + 1] = marks[i] + items[i]

\* The chunks lie between two places without a gap.
Spans(from, items, to) == \E marks : Marks(marks, from, items, to)

\* What was sent on: all but the chunk in hand.
Forwarded == IF pc = "relay" THEN pos - chunk ELSE pos

\* A failure is known from the step that meets it on, and is in the channel
\* from the next one until the client takes it out.
Told ==
  /\ pc \in {"read", "relay"} => clean
  /\ ~clean /\ pc # "error" /\ client = "reads" /\ ended = None =>
       \E i \in 1 .. Len(channel) : channel[i] = Failure

\* A client that reads has got, or has under way, all that was sent on.
Relayed ==
  /\ client = "reads" => client_connected
  /\ pc = "relay" => chunk <= pos
  /\ client = "reads" /\ ended = None => Spans(received, channel, Forwarded)
  /\ ended = "eof" => pc \in {"push", "done"} /\ clean /\ received = pos

TeeIInv == TeeTypes /\ Salvage /\ Told /\ Relayed

-----------------------------------------------------------------------------
(* Lengths and marks.                                                      *)

\* The frames of a stream are a sequence, so the stream has a length.
LEMMA LengthIsNat ==
  ASSUME NEW s \in DOMAIN Sources
  PROVE  /\ Sources[s].frames \in Seq(Range(Sources[s].frames))
         /\ Len(Sources[s].frames) \in Nat
  BY TeeAssumption, LenProperties

\* The lesser of two numbers.
LEMMA MinIsLeast ==
  ASSUME NEW a \in Int, NEW b \in Int
  PROVE  Min({a, b}) \in Int /\ Min({a, b}) <= a /\ Min({a, b}) <= b
  <1>1. \E x \in {a, b} : \A y \in {a, b} : x <= y
    <2>1. CASE a <= b
      BY <2>1
    <2>2. CASE b <= a
      BY <2>2
    <2> QED
      BY <2>1, <2>2
  <1> QED
    BY <1>1 DEF Min

\* An empty channel spans nothing.
LEMMA SpansNone ==
  ASSUME NEW n \in Nat
  PROVE  Spans(n, <<>>, n)
  <1> DEFINE marks == <<n>>
  <1>1. marks \in Seq(Nat) /\ Len(marks) = 1 /\ marks[1] = n
    OBVIOUS
  <1> HIDE DEF marks
  <1>2. Marks(marks, n, <<>>, n)
    BY <1>1 DEF Marks
  <1> QED
    BY <1>2 DEF Spans

\* What spans nothing begins where it ends.
LEMMA NoneSpans ==
  ASSUME NEW from, NEW to, Spans(from, <<>>, to)
  PROVE  from = to
  BY DEF Spans, Marks

\* One more chunk behind those that are there.
LEMMA SpansAppend ==
  ASSUME NEW from, NEW items \in Seq(Nat), NEW to, NEW n \in Nat, Spans(from, items, to)
  PROVE  Spans(from, Append(items, n), to + n)
  <1>1. PICK marks : Marks(marks, from, items, to)
    BY DEF Spans
  <1> DEFINE more  == Append(marks, to + n)
             longer == Append(items, n)
  <1>2. marks \in Seq(Nat) /\ Len(marks) = Len(items) + 1 /\ Len(items) \in Nat
    BY <1>1, LenProperties DEF Marks
  <1>3. to \in Nat /\ to + n \in Nat
    BY <1>1, <1>2, ElementOfSeq DEF Marks
  <1>4. /\ more \in Seq(Nat) /\ Len(more) = Len(marks) + 1
        /\ \A i \in 1 .. Len(marks) : more[i] = marks[i]
        /\ more[Len(marks) + 1] = to + n
    BY <1>2, <1>3, AppendProperties
  <1>5. /\ longer \in Seq(Nat) /\ Len(longer) = Len(items) + 1
        /\ \A i \in 1 .. Len(items) : longer[i] = items[i]
        /\ longer[Len(items) + 1] = n
    BY AppendProperties
  <1> HIDE DEF more, longer
  <1>6. more[1] = from /\ more[Len(more)] = to + n
    BY <1>1, <1>2, <1>4 DEF Marks
  <1>7. ASSUME NEW i \in 1 .. Len(longer)
        PROVE  more[i + 1] = more[i] + longer[i]
    <2>1. CASE i = Len(items) + 1
      BY <1>1, <1>2, <1>4, <1>5, <2>1 DEF Marks
    <2>2. CASE i # Len(items) + 1
      <3>1. i \in 1 .. Len(items) /\ i \in 1 .. Len(marks) /\ i + 1 \in 1 .. Len(marks)
        BY <1>2, <1>5, <2>2
      <3> QED
        BY <1>1, <1>4, <1>5, <3>1 DEF Marks
    <2> QED
      BY <2>1, <2>2
  <1>8. Marks(more, from, longer, to + n)
    BY <1>2, <1>4, <1>5, <1>6, <1>7 DEF Marks
  <1> QED
    BY <1>8 DEF Spans, longer

\* The client takes the first chunk.
LEMMA SpansTail ==
  ASSUME NEW from \in Nat, NEW items \in Seq(Nat), NEW to, items # <<>>,
         Spans(from, items, to)
  PROVE  Spans(from + Head(items), Tail(items), to)
  <1>1. PICK marks : Marks(marks, from, items, to)
    BY DEF Spans
  <1> DEFINE less == Tail(marks)
             rest == Tail(items)
  <1>2. /\ marks \in Seq(Nat) /\ Len(marks) = Len(items) + 1
        /\ Len(items) \in Nat /\ Len(items) > 0 /\ marks # <<>>
    BY <1>1, LenProperties, EmptySeq DEF Marks
  <1>3. /\ less \in Seq(Nat) /\ Len(less) = Len(marks) - 1
        /\ \A i \in 1 .. Len(less) : less[i] = marks[i + 1]
    BY <1>2, HeadTailProperties
  <1>4. /\ rest \in Seq(Nat) /\ Len(rest) = Len(items) - 1
        /\ \A i \in 1 .. Len(rest) : rest[i] = items[i + 1]
        /\ Head(items) = items[1]
    BY <1>2, HeadTailProperties
  <1> HIDE DEF less, rest
  <1>5. less[1] = from + Head(items) /\ less[Len(less)] = to
    <2>1. Len(less) \in 1 .. Len(less) /\ 1 \in 1 .. Len(less) /\ Len(less) + 1 = Len(marks)
      BY <1>2, <1>3
    <2>2. less[1] = marks[2] /\ less[Len(less)] = marks[Len(marks)]
      BY <1>3, <2>1
    <2>3. 1 \in 1 .. Len(items)
      BY <1>2
    <2>4. marks[1 + 1] = marks[1] + items[1]
      BY <1>1, <2>3 DEF Marks
    <2> QED
      BY <1>1, <1>4, <2>2, <2>4 DEF Marks
  <1>6. ASSUME NEW i \in 1 .. Len(rest)
        PROVE  less[i + 1] = less[i] + rest[i]
    <2>1. i + 1 \in 1 .. Len(items) /\ i \in 1 .. Len(less) /\ i + 1 \in 1 .. Len(less)
      BY <1>2, <1>3, <1>4
    <2> QED
      BY <1>1, <1>3, <1>4, <2>1 DEF Marks
  <1>7. Marks(less, from + Head(items), rest, to)
    BY <1>2, <1>3, <1>4, <1>5, <1>6 DEF Marks
  <1>8. Spans(from + Head(items), rest, to)
    BY <1>7 DEF Spans
  <1> QED
    BY <1>8 DEF rest

-----------------------------------------------------------------------------
(* The invariant is kept by every step.                                    *)

\* Nothing is read, sent or recorded at the start.
LEMMA InitInvariant == Init => TeeIInv
  <1> SUFFICES ASSUME Init PROVE TeeIInv
    OBVIOUS
  <1>1. Len(upstream.frames) \in Nat
    BY LengthIsNat DEF Init, upstream
  <1>2. 0 \in 0 .. Length /\ channel \in Seq(Nat)
    BY <1>1 DEF Init, Length
  <1>3. TeeTypes
    BY <1>2 DEF Init, TeeTypes
  <1>4. Salvage /\ Told
    BY <1>1 DEF Init, Salvage, Told
  <1>5. Relayed
    BY SpansNone, TeeAssumption DEF Init, Relayed, Forwarded
  <1> QED
    BY <1>3, <1>4, <1>5 DEF TeeIInv

\* A chunk: the copy grows by what came, unless the cap was reached before,
\* which a stream within the cap never does.
LEMMA TakeChunkKeeps ==
  ASSUME TeeIInv, TakeChunk
  PROVE  TeeIInv'
  <1> USE DEF TeeIInv
  <1>1. Length \in Int /\ pos \in Nat /\ pos <= Length /\ Length' = Length
    BY LengthIsNat DEF TeeTypes, Length, upstream, TakeChunk
  <1>2. PICK n \in 1 .. Min({MaxChunk, Length - pos}) :
          /\ pos' = pos + n
          /\ chunk' = n
          /\ IF recording /\ exceeds_capture_cap(buf, n)
             THEN recording' = FALSE /\ buf' = 0
             ELSE buf' = (IF recording THEN buf + n ELSE buf) /\ UNCHANGED recording
    BY DEF TakeChunk
  <1>3. n \in Nat /\ pos + n <= Length
    <2>1. MaxChunk \in Int /\ Length - pos \in Int
      BY <1>1, TeeAssumption
    <2> DEFINE least == Min({MaxChunk, Length - pos})
    <2>2. least \in Int /\ least <= Length - pos
      BY <2>1, MinIsLeast
    <2>3. n \in 1 .. least
      BY <1>2
    <2> HIDE DEF least
    <2> QED
      BY <1>1, <2>2, <2>3
  <1>4. TeeTypes'
    <2>1. pos' \in 0 .. Length' /\ buf' \in Nat /\ recording' \in BOOLEAN /\ chunk' \in Nat
      <3>1. pos' \in 0 .. Length' /\ chunk' \in Nat
        BY <1>1, <1>2, <1>3
      <3>2. buf \in Nat /\ recording \in BOOLEAN /\ buf + n \in Nat
        BY <1>3 DEF TeeTypes
      <3>3. \/ recording' = FALSE /\ buf' = 0
            \/ recording' = recording /\ (buf' = buf + n \/ buf' = buf)
        BY <1>2, Zenon
      <3>4. recording' \in BOOLEAN
        BY <3>2, <3>3, Zenon
      <3>5. buf' \in Nat
        BY <3>2, <3>3
      <3> QED
        BY <3>1, <3>4, <3>5
    <2>2. /\ pc' = "relay"
          /\ UNCHANGED <<source, over, clean, client_connected, channel, client_vars>>
      BY DEF TakeChunk
    <2> QED
      BY <2>1, <2>2 DEF TeeTypes, client_vars
  <1>5. Salvage'
    <2>1. /\ pc' = "relay" /\ UNCHANGED <<source, over, clean, recorded>> /\ pc = "read"
      BY DEF TakeChunk
    <2>2. /\ recording' => buf' = pos'
          /\ Length' <= CaptureCap => recording'
      BY <1>1, <1>2, <1>3, TeeAssumption DEF TeeTypes, Salvage, exceeds_capture_cap
    <2> QED
      BY <2>1, <2>2 DEF Salvage
  <1>6. Told'
    BY DEF TeeTypes, Told, TakeChunk, client_vars
  <1>7. Relayed'
    <2>1. Forwarded' = Forwarded
      BY <1>1, <1>2, <1>3 DEF Forwarded, TakeChunk
    <2> QED
      BY <1>1, <1>2, <1>3, <2>1 DEF TeeTypes, Relayed, TakeChunk, client_vars
  <1> QED
    BY <1>4, <1>5, <1>6, <1>7

\* The chunk in hand goes to a client that reads; one that left is forgotten.
LEMMA RelayKeeps ==
  ASSUME TeeIInv, Relay
  PROVE  TeeIInv'
  <1> USE DEF TeeIInv
  <1>1. /\ pc = "relay" /\ pc' \in {"read", "end"} /\ (recording => pc' = "read")
        /\ clean /\ chunk \in Nat /\ channel \in Seq(Nat)
        /\ UNCHANGED <<source, pos, over, buf, clean, recording, chunk, client, received,
                       ended, recorded, captured>>
    BY DEF TeeTypes, Told, Relay, client_vars
  <1>2. Length' = Length /\ Forwarded' = pos /\ Forwarded = pos - chunk
    BY <1>1 DEF Forwarded, Length, upstream
  <1>3. \/ client = "reads" /\ channel' = Append(channel, chunk)
           /\ client_connected' = client_connected
        \/ client = "gone" /\ channel' = channel /\ client_connected' \in BOOLEAN
    BY DEF TeeTypes, Relayed, Relay
  <1>4. channel' \in Seq(Nat)
    BY <1>1, <1>3, AppendProperties
  <1>5. TeeTypes'
    BY <1>1, <1>2, <1>3, <1>4 DEF TeeTypes
  <1>6. Salvage'
    BY <1>1, <1>2 DEF Salvage
  <1>7. Told'
    BY <1>1 DEF Told
  <1>8. Relayed'
    <2>1. CASE client = "gone"
      BY <1>1, <2>1, TeeAssumption DEF TeeTypes, Relayed
    <2>2. CASE client = "reads"
      <3>1. channel' = Append(channel, chunk) /\ client_connected'
        BY <1>3, <2>2 DEF Relayed
      <3>2. ended = None => Spans(received, channel', Forwarded + chunk)
        BY <1>1, <2>2, <3>1, SpansAppend DEF Relayed
      <3>3. Forwarded + chunk = Forwarded'
        BY <1>1, <1>2 DEF TeeTypes
      <3> QED
        BY <1>1, <3>1, <3>2, <3>3 DEF Relayed
    <2> QED
      BY <2>1, <2>2 DEF TeeTypes
  <1> QED
    BY <1>5, <1>6, <1>7, <1>8

\* The end and the failure of the upstream.
LEMMA UpstreamKeeps ==
  ASSUME TeeIInv, UpstreamEnds \/ UpstreamFails
  PROVE  TeeIInv'
  <1> USE DEF TeeIInv
  <1>1. Length' = Length /\ Forwarded' = Forwarded
    BY DEF Forwarded, Length, upstream, UpstreamEnds, UpstreamFails
  <1>2. TeeTypes'
    BY <1>1 DEF TeeTypes, UpstreamEnds, UpstreamFails, task_vars, client_vars
  <1>3. Salvage'
    BY <1>1 DEF Salvage, UpstreamEnds, UpstreamFails, task_vars
  <1>4. Told'
    BY DEF TeeTypes, Told, UpstreamEnds, UpstreamFails, task_vars, client_vars
  <1>5. Relayed'
    BY <1>1 DEF Relayed, UpstreamEnds, UpstreamFails, task_vars, client_vars
  <1> QED
    BY <1>2, <1>3, <1>4, <1>5

\* The failure goes into the channel: it is no part of the stream, so nothing
\* but the client's way to its end changes.
LEMMA SurfaceErrorKeeps ==
  ASSUME TeeIInv, SurfaceError
  PROVE  TeeIInv'
  <1> USE DEF TeeIInv
  <1>1. /\ pc = "error" /\ pc' = "end" /\ channel \in Seq(Nat)
        /\ UNCHANGED <<source, pos, over, buf, clean, recording, client_connected, chunk,
                       client, received, ended, recorded, captured>>
    BY DEF TeeTypes, SurfaceError, task_vars, client_vars
  <1>2. Length' = Length /\ Forwarded' = Forwarded /\ Forwarded = pos /\ pos \in Nat
    BY <1>1, LengthIsNat DEF Forwarded, Length, upstream, TeeTypes
  <1>3. /\ client = "gone" => channel' = channel
        /\ client = "reads" => channel' = Append(channel, Failure)
    BY DEF SurfaceError
  <1>4. /\ Append(channel, Failure) \in Seq(Nat)
        /\ Len(Append(channel, Failure)) = Len(channel) + 1
        /\ Append(channel, Failure)[Len(channel) + 1] = Failure
        /\ Len(channel) + 1 \in 1 .. Len(channel) + 1
    BY <1>1, AppendProperties, LenProperties DEF Failure
  <1>5. TeeTypes'
    BY <1>1, <1>2, <1>3, <1>4 DEF TeeTypes
  <1>6. Salvage'
    BY <1>1, <1>2 DEF Salvage
  <1>7. Told'
    BY <1>1, <1>3, <1>4 DEF Told
  <1>8. Relayed'
    <2>1. pos + Failure = pos /\ Failure \in Nat
      BY <1>2 DEF Failure
    <2>2. Spans(received, channel, pos) => Spans(received, Append(channel, Failure), pos)
      BY <1>1, <2>1, SpansAppend
    <2>3. client = "reads" /\ ended = None => Spans(received, channel', pos)
      BY <1>2, <1>3, <2>2 DEF Relayed
    <2> QED
      BY <1>1, <1>2, <2>3 DEF Relayed
  <1> QED
    BY <1>5, <1>6, <1>7, <1>8

\* What is handed to persist, and the push into the log.
LEMMA RecordKeeps ==
  ASSUME TeeIInv, Record \/ push_captured
  PROVE  TeeIInv'
  <1> USE DEF TeeIInv
  <1>1. Length' = Length /\ Forwarded' = Forwarded
    BY DEF Forwarded, Length, upstream, Record, push_captured
  <1>2. TeeTypes'
    BY <1>1 DEF TeeTypes, Record, push_captured, task_vars, client_vars
  <1>3. Salvage'
    BY <1>1 DEF Salvage, Record, push_captured, task_vars
  <1>4. Told'
    BY DEF Told, Record, push_captured, task_vars, client_vars
  <1>5. Relayed'
    BY <1>1 DEF Relayed, Record, push_captured, task_vars, client_vars
  <1> QED
    BY <1>2, <1>3, <1>4, <1>5

\* The client takes the first chunk, which the failure is not, or the failure.
LEMMA ReceiveKeeps ==
  ASSUME TeeIInv, Receive
  PROVE  TeeIInv'
  <1> USE DEF TeeIInv
  <1>1. /\ client = "reads" /\ ended = None /\ channel # <<>> /\ channel' = Tail(channel)
        /\ UNCHANGED <<source, pos, over, buf, clean, recording, client_connected, chunk,
                       pc, client, recorded, captured>>
        /\ \/ Head(channel) = Failure /\ ended' = "error" /\ received' = received
           \/ /\ Head(channel) # Failure
              /\ received' = received + Head(channel) /\ ended' = ended
    BY DEF Receive, task_vars
  <1>2. /\ channel \in Seq(Nat) /\ received \in Nat
        /\ Head(channel) \in Nat /\ Tail(channel) \in Seq(Nat)
        /\ Head(channel) = channel[1] /\ Len(channel) \in Nat
        /\ Len(Tail(channel)) = Len(channel) - 1
        /\ \A i \in 1 .. Len(channel) - 1 : Tail(channel)[i] = channel[i + 1]
    BY <1>1, HeadTailProperties, LenProperties DEF TeeTypes
  <1>3. Length' = Length /\ Forwarded' = Forwarded
    BY <1>1 DEF Forwarded, Length, upstream
  <1>4. TeeTypes'
    <2>1. received' \in Nat /\ ended' \in {None, "eof", "error"}
      BY <1>1, <1>2
    <2> QED
      BY <1>1, <1>2, <1>3, <2>1 DEF TeeTypes
  <1>5. Salvage'
    BY <1>1, <1>3 DEF Salvage
  <1>6. Told'
    <2>1. ASSUME NEW i \in 1 .. Len(channel), channel[i] = Failure, Head(channel) # Failure
          PROVE  \E j \in 1 .. Len(channel') : channel'[j] = Failure
      <3>1. i - 1 \in 1 .. Len(channel) - 1
        BY <1>2, <2>1
      <3>2. Tail(channel)[i - 1] = channel[(i - 1) + 1] /\ (i - 1) + 1 = i
        BY <1>2, <3>1
      <3> QED
        BY <1>1, <1>2, <2>1, <3>1, <3>2
    <2>2. ended' = None => Head(channel) # Failure
      BY <1>1, TeeAssumption
    <2> QED
      BY <1>1, <2>1, <2>2 DEF Told
  <1>7. Relayed'
    <2>1. Spans(received + Head(channel), channel', Forwarded)
      BY <1>1, <1>2, SpansTail DEF Relayed
    <2>2. ended' # "eof" /\ (ended' = None => received' = received + Head(channel))
      BY <1>1, TeeAssumption
    <2> QED
      BY <1>1, <1>3, <2>1, <2>2 DEF Relayed
  <1> QED
    BY <1>4, <1>5, <1>6, <1>7

\* An end without a failure, when all that was under way has arrived.
LEMMA EndOfStreamKeeps ==
  ASSUME TeeIInv, EndOfStream
  PROVE  TeeIInv'
  <1> USE DEF TeeIInv
  <1>1. /\ client = "reads" /\ ended = None /\ channel = <<>> /\ pc \in {"push", "done"}
        /\ ended' = "eof"
        /\ UNCHANGED <<source, pos, over, buf, clean, recording, client_connected, chunk,
                       pc, channel, client, received, recorded, captured>>
    BY DEF EndOfStream, task_vars
  <1>2. Length' = Length /\ Forwarded' = Forwarded /\ Forwarded = pos
    BY <1>1 DEF Forwarded, Length, upstream
  <1>3. TeeTypes' /\ Salvage'
    BY <1>1, <1>2 DEF TeeTypes, Salvage
  <1>4. ~ \E i \in 1 .. Len(channel) : channel[i] = Failure
    BY <1>1
  <1>5. clean
    BY <1>1, <1>4 DEF Told
  <1>6. received = pos
    BY <1>1, <1>2, NoneSpans DEF Relayed
  <1>7. Told'
    BY <1>1, <1>5 DEF Told
  <1>8. Relayed'
    BY <1>1, <1>5, <1>6, TeeAssumption DEF Relayed
  <1> QED
    BY <1>3, <1>7, <1>8

\* Nothing is promised to a client that has left.
LEMMA ClientLeavesKeeps ==
  ASSUME TeeIInv, ClientLeaves
  PROVE  TeeIInv'
  <1> USE DEF TeeIInv
  <1>1. Length' = Length /\ Forwarded' = Forwarded
    BY DEF Forwarded, Length, upstream, ClientLeaves, task_vars
  <1>2. TeeTypes' /\ Salvage' /\ Told'
    BY <1>1 DEF TeeTypes, Salvage, Told, ClientLeaves, task_vars
  <1>3. Relayed'
    BY TeeAssumption DEF Relayed, ClientLeaves, task_vars
  <1> QED
    BY <1>2, <1>3

\* The invariant holds of every reachable state.
THEOREM SpecStreamTee == Spec => []TeeIInv
  <1>1. TeeIInv /\ [Next]_vars => TeeIInv'
    <2> SUFFICES ASSUME TeeIInv, [Next]_vars PROVE TeeIInv'
      OBVIOUS
    <2>1. CASE Upstream
      BY <2>1, TakeChunkKeeps, UpstreamKeeps DEF Upstream
    <2>2. CASE Task
      BY <2>2, RelayKeeps, SurfaceErrorKeeps, RecordKeeps DEF Task
    <2>3. CASE Receive \/ EndOfStream \/ ClientLeaves
      BY <2>3, ReceiveKeeps, EndOfStreamKeeps, ClientLeavesKeeps
    <2>4. CASE UNCHANGED vars
      <3>1. Length' = Length /\ Forwarded' = Forwarded
        BY <2>4 DEF Forwarded, Length, upstream, vars, task_vars
      <3>2. TeeTypes' /\ Salvage' /\ Told' /\ Relayed'
        BY <2>4, <3>1 DEF TeeIInv, TeeTypes, Salvage, Told, Relayed, vars, task_vars, client_vars
      <3> QED
        BY <3>2 DEF TeeIInv
    <2> QED
      BY <2>1, <2>2, <2>3, <2>4 DEF Next
  <1> QED
    BY InitInvariant, <1>1, PTL DEF Spec

-----------------------------------------------------------------------------
(* What follows.                                                           *)

\* A client that has read to an orderly end has all the upstream sent, and the
\* upstream did not fail (forward_and_relay's injected error), for any stream,
\* any chunks, any channel and any cap.
THEOREM ClientIsToldTheTruth == Spec => []ClientSeesTruth
  <1>1. TeeIInv => ClientSeesTruth
    BY DEF TeeIInv, Relayed, ClientSeesTruth
  <1> QED
    BY <1>1, SpecStreamTee, PTL

\* A whole stream is all of its frames, none of them torn.
LEMMA WholeStreamIsParsed ==
  ASSUME NEW s \in DOMAIN Sources
  PROVE  parse_sse(s, 2 * Len(Sources[s].frames)) = Sources[s].frames
  <1> DEFINE fs == Sources[s].frames
             n  == Len(fs)
  <1>1. fs \in Seq(Range(fs)) /\ n \in Nat
    BY LengthIsNat
  <1>2. (2 * n) \div 2 = n /\ (2 * n) % 2 # 1
    <2>1. \A k \in Nat : (2 * k) \div 2 = k /\ (2 * k) % 2 # 1
      OBVIOUS
    <2> QED
      BY <1>1, <2>1
  <1>3. SubSeq(fs, 1, n) = fs
    BY <1>1
  <1> HIDE DEF fs, n
  <1>4. fs \o <<>> = fs
    BY <1>1
  <1>5. parse_sse(s, 2 * n) = SubSeq(fs, 1, n) \o <<>>
    BY <1>2 DEF parse_sse, fs
  <1> QED
    BY <1>3, <1>4, <1>5 DEF fs, n

\* Where a stream says the same as the body of the same answer, which is what
\* reassemble.rs and extract.rs are compared for elsewhere, a task within the
\* cap stays to the upstream's end and records a stream that ended in order as
\* that body, whenever its client leaves and however the bytes come
\* (forward_and_relay: "keep draining so the recording can still complete").
THEOREM LeavingCostsNoRecording ==
  ASSUME \A s \in DOMAIN Sources :
           reassemble_for(Sources[s].format, Sources[s].frames)
             = extract_for(Sources[s].format, Sources[s].body)
  PROVE  Spec => []SalvageCompletes
  <1>1. TeeIInv => SalvageCompletes
    <2> SUFFICES ASSUME TeeIInv, pc \in {"push", "done"}, Length <= CaptureCap
                 PROVE  /\ over
                        /\ clean /\ pos = Length =>
                             recorded = extract_for(upstream.format, upstream.body)
      BY DEF SalvageCompletes
    <2>1. recording /\ over /\ buf = pos
      BY DEF TeeIInv, Salvage
    <2>2. clean => recorded = Reassembled[source][pos]
      BY <2>1 DEF TeeIInv, Salvage
    <2>3. source \in DOMAIN Sources /\ pos \in 0 .. 2 * Len(Sources[source].frames)
      BY DEF TeeIInv, TeeTypes, Length, upstream
    <2>4. Reassembled[source][pos] = reassemble_for(upstream.format, parse_sse(source, pos))
      BY <2>3 DEF Reassembled, upstream
    <2>5. pos = Length => parse_sse(source, pos) = upstream.frames
      BY <2>3, WholeStreamIsParsed DEF Length, upstream
    <2> QED
      BY <2>1, <2>2, <2>3, <2>4, <2>5 DEF upstream
  <1> QED
    BY <1>1, SpecStreamTee, PTL
-----------------------------------------------------------------------------
(* Where a stream was cut.                                                 *)

\* A non-empty set of numbers below a bound has a greatest.
LEMMA MaxIsGreatest ==
  ASSUME NEW m \in Nat, NEW S \in SUBSET (0 .. m), S # {}
  PROVE  Max(S) \in S /\ \A k \in S : k <= Max(S)
  <1> DEFINE Less == { ss \in Nat \X Nat : ss[1] < ss[2] }
             above == {m - k : k \in S}
  <1>1. IsWellFoundedOn(Less, Nat)
    BY NatLessThanWellFounded DEF OpToRel
  <1>2. above \in SUBSET Nat /\ above # {}
    <2>1. \A k \in S : m - k \in Nat /\ m - k \in above
      OBVIOUS
    <2> QED
      BY <2>1
  <1>3. PICK x \in above : \A y \in above : ~(<<y, x>> \in Less)
    <2> HIDE DEF Less, above
    <2> QED
      BY <1>1, <1>2, WFMin
  <1>4. PICK k \in S : x = m - k
    OBVIOUS
  <1>5. ASSUME NEW l \in S
        PROVE  l <= k
    <2>1. m - l \in above /\ m - l \in Nat /\ m - k \in Nat /\ l \in Nat /\ k \in Nat
      OBVIOUS
    <2>2. ~(m - l < m - k)
      BY <1>3, <1>4, <2>1
    <2> QED
      BY <2>1, <2>2
  <1>6. \A l \in S : k >= l /\ l \in Nat
    BY <1>5
  <1>7. \E l \in S : \A y \in S : l >= y
    BY <1>6
  <1>8. Max(S) \in S /\ \A y \in S : Max(S) >= y
    BY <1>7 DEF Max
  <1> QED
    BY <1>6, <1>8

\* `cut` has the first m frames of a stream, and maybe the beginning of one more.
CutAt(cut, frames, m) ==
  /\ m \in 0 .. Len(frames)
  /\ cut \in Seq(Range(frames) \cup {Torn})
  /\ Len(cut) = m \/ Len(cut) = m + 1
  /\ Len(cut) <= Len(frames)
  /\ \A i \in 1 .. m : cut[i] = frames[i]
  /\ Len(cut) = m + 1 => cut[m + 1] = Torn

\* The torn frame at the end, if there is one.
Rest(n) == IF n % 2 = 1 THEN << Torn >> ELSE <<>>

\* It is of the frames a cut stream may have.
LEMMA RestIsTorn ==
  ASSUME NEW S, Torn \in S, NEW n \in Nat
  PROVE  /\ Rest(n) \in Seq(S)
         /\ n % 2 = 1 => Len(Rest(n)) = 1 /\ Rest(n)[1] = Torn
         /\ n % 2 # 1 => Len(Rest(n)) = 0
  <1>1. CASE n % 2 = 1
    <2>1. Rest(n) = << Torn >>
      BY <1>1 DEF Rest
    <2> HIDE DEF Torn
    <2>2. \A t : t \in S => << t >> \in Seq(S) /\ Len(<< t >>) = 1 /\ << t >>[1] = t
      OBVIOUS
    <2> QED
      BY <1>1, <2>1, <2>2
  <1>2. CASE n % 2 # 1
    <2>1. Rest(n) = <<>>
      BY <1>2 DEF Rest
    <2> QED
      BY <1>2, <2>1
  <1> QED
    BY <1>1, <1>2

\* The frames of the first n halves are the first frames, and what is torn.
LEMMA CutFrames ==
  ASSUME NEW s \in DOMAIN Sources, NEW n \in 0 .. 2 * Len(Sources[s].frames)
  PROVE  CutAt(parse_sse(s, n), Sources[s].frames, n \div 2)
  <1> DEFINE fs == Sources[s].frames
             m  == n \div 2
             whole == SubSeq(fs, 1, m)
             T == Range(fs) \cup {Torn}
  <1>1. fs \in Seq(Range(fs)) /\ Len(fs) \in Nat /\ n \in Nat
    BY LengthIsNat
  <1>2. m \in Nat /\ m <= Len(fs) /\ (n % 2 = 1 => m + 1 <= Len(fs))
    <2>1. \A k \in Nat, l \in Nat : k <= 2 * l =>
            k \div 2 \in Nat /\ k \div 2 <= l /\ (k % 2 = 1 => k \div 2 + 1 <= l)
      OBVIOUS
    <2> QED
      BY <1>1, <2>1
  <1>3. parse_sse(s, n) = whole \o Rest(n)
    BY DEF parse_sse, Rest
  <1> HIDE DEF m
  <1>4. \A i \in 1 .. m : fs[i] \in T
    BY <1>1, <1>2, ElementOfSeq
  <1>5. /\ Rest(n) \in Seq(T)
        /\ n % 2 = 1 => Len(Rest(n)) = 1 /\ Rest(n)[1] = Torn
        /\ n % 2 # 1 => Len(Rest(n)) = 0
    BY <1>1, RestIsTorn
  <1> HIDE DEF T, fs
  <1>6. /\ whole \in Seq(T) /\ Len(whole) = m
        /\ \A i \in 1 .. m : whole[i] = fs[i]
    <2>1. /\ whole \in Seq(T) /\ Len(whole) = IF 1 <= m THEN m - 1 + 1 ELSE 0
          /\ \A i \in 1 .. m - 1 + 1 : whole[i] = fs[1 + i - 1]
      BY <1>2, <1>4, SubSeqProperties
    <2> HIDE DEF whole
    <2> QED
      BY <1>2, <2>1
  <1> HIDE DEF whole
  <1> DEFINE cut == whole \o Rest(n)
  <1>7. /\ cut \in Seq(T) /\ Len(cut) = m + Len(Rest(n))
        /\ \A i \in 1 .. m : cut[i] = whole[i]
        /\ Len(Rest(n)) = 1 => cut[m + 1] = Rest(n)[1]
    <2>1. /\ cut \in Seq(T)
          /\ Len(cut) = Len(whole) + Len(Rest(n))
          /\ \A i \in 1 .. Len(whole) + Len(Rest(n)) :
               cut[i] = IF i <= Len(whole) THEN whole[i] ELSE Rest(n)[i - Len(whole)]
      BY <1>5, <1>6, ConcatProperties
    <2>2. Len(Rest(n)) \in Nat
      BY <1>5, LenProperties
    <2> HIDE DEF cut
    <2> QED
      BY <1>2, <1>5, <1>6, <2>1, <2>2
  <1> HIDE DEF cut
  <1>8. /\ Len(cut) = m \/ Len(cut) = m + 1
        /\ Len(cut) <= Len(fs)
        /\ \A i \in 1 .. m : cut[i] = fs[i]
        /\ Len(cut) = m + 1 => cut[m + 1] = Torn
    <2>1. \A i \in 1 .. m : cut[i] = fs[i]
      BY <1>6, <1>7
    <2>2. CASE n % 2 = 1
      BY <1>1, <1>2, <1>5, <1>7, <2>1, <2>2
    <2>3. CASE n % 2 # 1
      BY <1>1, <1>2, <1>5, <1>7, <2>1, <2>3
    <2> QED
      BY <2>2, <2>3
  <1>9. CutAt(cut, fs, m)
    BY <1>1, <1>2, <1>7, <1>8 DEF CutAt, T
  <1> QED
    BY <1>3, <1>9 DEF cut, fs, m

\* A cut that has the last frame has all of them.
LEMMA UncutIsWhole ==
  ASSUME NEW frames, frames \in Seq(Range(frames)), NEW cut, NEW m,
         CutAt(cut, frames, m),
         m = Len(frames)
  PROVE  cut = frames
  <1>1. Len(frames) \in Nat /\ DOMAIN frames = 1 .. Len(frames)
    BY LenProperties
  <1>2. /\ frames = [i \in 1 .. Len(frames) |-> frames[i]]
        /\ cut = [i \in 1 .. Len(cut) |-> cut[i]]
    BY LenProperties DEF CutAt
  <1>3. Len(cut) = Len(frames) /\ \A i \in 1 .. Len(frames) : cut[i] = frames[i]
    BY <1>1 DEF CutAt
  <1> QED
    BY <1>2, <1>3

\* The places of a cut, as numbers.
LEMMA CutPlaces ==
  ASSUME NEW l \in Nat, NEW k \in Nat, NEW m \in 0 .. l, k = m \/ k = m + 1, k <= l,
         NEW frames, NEW cut, NEW torn,
         \A i \in 1 .. m : cut[i] = frames[i],
         k = m + 1 => cut[m + 1] = torn
  PROVE  /\ m \in Nat /\ m <= l
         /\ \A i \in 1 .. k : i \in 1 .. l /\ (cut[i] = torn \/ (i <= m /\ cut[i] = frames[i]))
         /\ \A i \in 1 .. l : i <= m => i \in 1 .. k /\ cut[i] = frames[i]
  <1>1. ASSUME NEW i \in 1 .. k
        PROVE  i \in 1 .. l /\ (cut[i] = torn \/ (i <= m /\ cut[i] = frames[i]))
    <2>1. i \in 1 .. l /\ (i \in 1 .. m \/ (i = m + 1 /\ k = m + 1))
      OBVIOUS
    <2> QED
      BY <2>1
  <1>2. ASSUME NEW i \in 1 .. l, i <= m
        PROVE  i \in 1 .. k /\ cut[i] = frames[i]
    <2>1. i \in 1 .. k /\ i \in 1 .. m
      BY <1>2
    <2> QED
      BY <2>1
  <1> QED
    BY <1>1, <1>2

\* A frame of a cut that is not torn is the frame of the stream at its place.
LEMMA CutHasFrames ==
  ASSUME NEW frames, frames \in Seq(Range(frames)), NEW cut, NEW m,
         CutAt(cut, frames, m)
  PROVE  /\ DOMAIN frames = 1 .. Len(frames) /\ Len(frames) \in Nat
         /\ DOMAIN cut = 1 .. Len(cut) /\ Len(cut) \in Nat /\ m \in Nat /\ m <= Len(frames)
         /\ \A i \in DOMAIN cut : /\ i \in DOMAIN frames
                                  /\ cut[i] = Torn \/ (i <= m /\ cut[i] = frames[i])
         /\ \A i \in DOMAIN frames : i <= m => i \in DOMAIN cut /\ cut[i] = frames[i]
  <1> DEFINE l == Len(frames)
             k == Len(cut)
  <1>1. DOMAIN frames = 1 .. l /\ l \in Nat
    BY LenProperties
  <1>2. DOMAIN cut = 1 .. k /\ k \in Nat
    BY LenProperties DEF CutAt
  <1>3. /\ m \in 0 .. l /\ (k = m \/ k = m + 1) /\ k <= l
        /\ \A i \in 1 .. m : cut[i] = frames[i]
        /\ k = m + 1 => cut[m + 1] = Torn
    BY DEF CutAt
  <1> HIDE DEF l, k
  <1>4. /\ m \in Nat /\ m <= l
        /\ \A i \in 1 .. k : i \in 1 .. l /\ (cut[i] = Torn \/ (i <= m /\ cut[i] = frames[i]))
        /\ \A i \in 1 .. l : i <= m => i \in 1 .. k /\ cut[i] = frames[i]
    BY <1>1, <1>2, <1>3, CutPlaces
  <1> QED
    BY <1>1, <1>2, <1>4 DEF l, k

\* The types of frames are told apart.
LEMMA TornIsNoFrame ==
  /\ Torn # Done
  /\ Torn.type \notin {"chunk", "message_stop", "response.completed"}
  BY DEF Torn, Done

\* The OpenAI family: a cut stream ends with the sentinel only if it is whole.
LEMMA CutEndsWithDone ==
  ASSUME NEW frames, frames \in Seq(Range(frames)), NEW cut, NEW m,
         CutAt(cut, frames, m),
         \A i, j \in DOMAIN frames : frames[i] = Done => j <= i,
         ends_with_done(cut)
  PROVE  cut = frames
  <1>1. Len(cut) \in DOMAIN cut
    <2>1. cut \in Seq(Range(frames) \cup {Torn}) /\ cut # <<>>
      BY DEF CutAt, ends_with_done
    <2> QED
      BY <2>1, CutHasFrames, EmptySeq
  <1>2. cut[Len(cut)] = Done
    BY DEF ends_with_done, Last
  <1>3. Len(cut) \in DOMAIN frames /\ Len(cut) <= m /\ frames[Len(cut)] = Done
    BY <1>1, <1>2, CutHasFrames, TornIsNoFrame
  <1>4. Len(frames) \in DOMAIN frames
    BY <1>3, CutHasFrames
  <1>5. m = Len(frames)
    BY <1>3, <1>4, CutHasFrames
  <1> QED
    BY <1>5, UncutIsWhole

\* Anthropic: a cut stream has the event message_stop only if it is whole.
LEMMA CutHasMessageStop ==
  ASSUME NEW frames, frames \in Seq(Range(frames)), NEW cut, NEW m,
         CutAt(cut, frames, m),
         \A i, j \in DOMAIN frames : frames[i].type = "message_stop" => j <= i,
         NEW k \in DOMAIN cut, cut[k].type = "message_stop"
  PROVE  cut = frames
  <1>1. k \in DOMAIN frames /\ k <= m /\ frames[k].type = "message_stop"
    BY CutHasFrames, TornIsNoFrame
  <1>2. m = Len(frames)
    BY <1>1, CutHasFrames
  <1> QED
    BY <1>2, UncutIsWhole

\* Responses: the event response.completed says the same in a cut stream.
LEMMA CutHasCompleted ==
  ASSUME NEW frames, frames \in Seq(Range(frames)), NEW cut, NEW m,
         CutAt(cut, frames, m),
         \A i, j \in DOMAIN frames :
           frames[i].type = "response.completed" /\ frames[j].type = "response.completed"
             => j <= i
  PROVE  reassemble_responses(cut) \in {None, reassemble_responses(frames)}
  <1> DEFINE Completed(fs) == {i \in DOMAIN fs : fs[i].type = "response.completed"}
  <1>1. CASE Completed(cut) = {}
    BY <1>1 DEF reassemble_responses
  <1>2. ASSUME NEW k \in Completed(cut)
        PROVE  reassemble_responses(cut) = reassemble_responses(frames)
    <2>1. \A i \in Completed(cut) : i \in Completed(frames) /\ cut[i] = frames[i]
      BY CutHasFrames, TornIsNoFrame
    <2>2. \A i, j \in Completed(frames) : i = j
      BY CutHasFrames
    <2>3. Completed(cut) = {k} /\ Completed(frames) = {k} /\ cut[k] = frames[k]
      BY <1>2, <2>1, <2>2
    <2> HIDE DEF Completed
    <2>4. Max({k}) = k
      <3>1. k \in Nat
        BY <2>1, <1>2, CutHasFrames DEF Completed
      <3> QED
        BY <3>1 DEF Max
    <2>5. /\ reassemble_responses(cut) = extract_responses(cut[k].response)
          /\ reassemble_responses(frames) = extract_responses(frames[k].response)
      BY <2>3, <2>4 DEF reassemble_responses, Completed
    <2> QED
      BY <2>3, <2>5
  <1> QED
    BY <1>1, <1>2

\* Gemini: the last candidate has a reason in a cut stream only if the stream
\* was cut behind it.
LEMMA CutHasFinish ==
  ASSUME NEW frames, frames \in Seq(Range(frames)), NEW cut, NEW m,
         CutAt(cut, frames, m),
         LET first == FirstCandidates(frames)
         IN  \A i, j \in DOMAIN first : first[i].finish # None => j <= i
  PROVE  reassemble_gemini(cut) \in {None, reassemble_gemini(frames)}
  <1> DEFINE whole == FirstCandidates(frames)
             part  == FirstCandidates(cut)
             last  == Max(DOMAIN part)
  <1>1. CASE DOMAIN part = {}
    BY <1>1 DEF reassemble_gemini
  <1>2. CASE part[last].finish = None
    BY <1>2 DEF reassemble_gemini
  <1>3. CASE DOMAIN part # {} /\ part[last].finish # None
    <2>1. \A i \in DOMAIN part : /\ i \in DOMAIN whole /\ part[i] = whole[i]
                                 /\ i \in Nat /\ i <= m
      BY CutHasFrames, TornIsNoFrame DEF FirstCandidates
    <2>2. \A i \in DOMAIN whole : i \in Nat /\ (i <= m => i \in DOMAIN part)
      BY CutHasFrames DEF FirstCandidates
    <2>3. m \in Nat
      BY CutHasFrames
    <2>4. last \in DOMAIN part
      <3>1. DOMAIN part \in SUBSET (0 .. m)
        BY <2>1, <2>3
      <3> QED
        BY <1>3, <2>3, <3>1, MaxIsGreatest
    <2>5. whole[last].finish # None
      BY <1>3, <2>1, <2>4
    <2>6. DOMAIN whole = DOMAIN part
      <3>1. ASSUME NEW i \in DOMAIN whole
            PROVE  i \in DOMAIN part
        <4>1. i <= last
          BY <2>1, <2>4, <2>5
        <4>2. last <= m /\ last \in Nat
          BY <2>1, <2>4
        <4> QED
          BY <2>2, <2>3, <4>1, <4>2
      <3> QED
        BY <2>1, <3>1
    <2>7. part = whole
      <3>1. /\ part = [i \in DOMAIN part |-> part[i]]
            /\ whole = [i \in DOMAIN whole |-> whole[i]]
        BY DEF FirstCandidates
      <3> HIDE DEF part, whole
      <3> QED
        BY <2>1, <2>6, <3>1
    <2> QED
      BY <2>7 DEF reassemble_gemini
  <1> QED
    BY <1>1, <1>2, <1>3

\* The mark that completes a stream is its last frame; a Gemini stream may go on
\* with frames that have no candidate, a Responses stream with any that are not
\* a second completed response.
MarkedOnce(s) ==
  LET format == Sources[s].format
      frames == Sources[s].frames
      first  == FirstCandidates(frames)
      Completes(i) == frames[i].type = "response.completed"
  IN  /\ format \in {"chat", "completions"} =>
           \A i, j \in DOMAIN frames : frames[i] = Done => j <= i
      /\ format = "anthropic" =>
           \A i, j \in DOMAIN frames : frames[i].type = "message_stop" => j <= i
      /\ format = "gemini" =>
           \A i, j \in DOMAIN first : first[i].finish # None => j <= i
      /\ format = "responses" =>
           \A i, j \in DOMAIN frames : Completes(i) /\ Completes(j) => j <= i

\* A stream that is cut anywhere gives nothing, or what the whole one gives.
LEMMA CutGivesAllOrNothing ==
  ASSUME NEW s \in DOMAIN Sources, MarkedOnce(s), NEW n \in 0 .. 2 * Len(Sources[s].frames)
  PROVE  reassemble_for(Sources[s].format, parse_sse(s, n))
           \in {None, reassemble_for(Sources[s].format, Sources[s].frames)}
  <1> DEFINE fs  == Sources[s].frames
             fmt == Sources[s].format
             cut == parse_sse(s, n)
             m   == n \div 2
  <1>1. fs \in Seq(Range(fs))
    BY LengthIsNat
  <1>2. CutAt(cut, fs, m)
    BY CutFrames
  <1> HIDE DEF cut, m
  <1>3. CASE fmt = "chat"
    <2>1. ends_with_done(cut) => cut = fs
      BY <1>1, <1>2, <1>3, CutEndsWithDone DEF MarkedOnce
    <2>2. reassemble_for(fmt, cut) = reassemble_openai(cut)
      BY <1>3 DEF reassemble_for
    <2>3. ~ends_with_done(cut) => reassemble_openai(cut) = None
      BY DEF reassemble_openai
    <2> QED
      BY <2>1, <2>2, <2>3 DEF cut
  <1>4. CASE fmt = "completions"
    <2>1. ends_with_done(cut) => cut = fs
      BY <1>1, <1>2, <1>4, CutEndsWithDone DEF MarkedOnce
    <2>2. reassemble_for(fmt, cut) = reassemble_completions(cut)
      BY <1>4 DEF reassemble_for
    <2>3. ~ends_with_done(cut) => reassemble_completions(cut) = None
      BY DEF reassemble_completions
    <2> QED
      BY <2>1, <2>2, <2>3 DEF cut
  <1>5. CASE fmt = "anthropic"
    <2>1. reassemble_for(fmt, cut) = reassemble_anthropic(cut)
      BY <1>5 DEF reassemble_for
    <2>2. CASE \A i \in DOMAIN cut : cut[i].type # "message_stop"
      <3>1. reassemble_anthropic(cut) = None
        BY <2>2 DEF reassemble_anthropic
      <3> QED
        BY <2>1, <3>1 DEF cut
    <2>3. CASE \E i \in DOMAIN cut : cut[i].type = "message_stop"
      <3>1. cut = fs
        BY <1>1, <1>2, <1>5, <2>3, CutHasMessageStop DEF MarkedOnce
      <3> QED
        BY <3>1 DEF cut
    <2> QED
      BY <2>2, <2>3
  <1>6. CASE fmt = "gemini"
    <2>1. \A i, j \in DOMAIN FirstCandidates(fs) : FirstCandidates(fs)[i].finish # None => j <= i
      BY <1>6 DEF MarkedOnce
    <2>2. reassemble_gemini(cut) \in {None, reassemble_gemini(fs)}
      BY <1>1, <1>2, <2>1, CutHasFinish
    <2>3. /\ reassemble_for(fmt, cut) = reassemble_gemini(cut)
          /\ reassemble_for(fmt, fs) = reassemble_gemini(fs)
      BY <1>6 DEF reassemble_for
    <2> QED
      BY <2>2, <2>3 DEF cut
  <1>7. CASE fmt = "responses"
    <2>1. \A i, j \in DOMAIN fs :
            fs[i].type = "response.completed" /\ fs[j].type = "response.completed" => j <= i
      BY <1>7 DEF MarkedOnce
    <2>2. reassemble_responses(cut) \in {None, reassemble_responses(fs)}
      BY <1>1, <1>2, <2>1, CutHasCompleted
    <2>3. /\ reassemble_for(fmt, cut) = reassemble_responses(cut)
          /\ reassemble_for(fmt, fs) = reassemble_responses(fs)
      BY <1>7 DEF reassemble_for
    <2> QED
      BY <2>2, <2>3 DEF cut
  <1> QED
    BY <1>3, <1>4, <1>5, <1>6, <1>7, TeeAssumption DEF FormatNames

\* A stream that was cut is never recorded, and one that was not is recorded as
\* the body of the same answer, where the frames of the whole stream say what
\* the body says: for any chunks, any cap, wherever the upstream ends or fails
\* and whenever the client leaves (reassemble.rs: the completion sentinels).
THEOREM TruncatedIsNotRecorded ==
  ASSUME \A s \in DOMAIN Sources :
           /\ MarkedOnce(s)
           /\ reassemble_for(Sources[s].format, Sources[s].frames)
                = extract_for(Sources[s].format, Sources[s].body)
  PROVE  Spec => []RecordedIsWhole
  <1>1. TeeIInv => RecordedIsWhole
    <2> SUFFICES ASSUME TeeIInv, recorded # None
                 PROVE  recorded = extract_for(upstream.format, upstream.body)
      BY DEF RecordedIsWhole
    <2>1. recorded = Reassembled[source][pos]
      BY DEF TeeIInv, Salvage
    <2>2. source \in DOMAIN Sources /\ pos \in 0 .. 2 * Len(Sources[source].frames)
      BY DEF TeeIInv, TeeTypes, Length, upstream
    <2>3. Reassembled[source][pos] = reassemble_for(upstream.format, parse_sse(source, pos))
      BY <2>2 DEF Reassembled, upstream
    <2>4. reassemble_for(upstream.format, parse_sse(source, pos))
            \in {None, reassemble_for(upstream.format, upstream.frames)}
      BY <2>2, CutGivesAllOrNothing DEF upstream
    <2> QED
      BY <2>1, <2>2, <2>3, <2>4 DEF upstream
  <1> QED
    BY <1>1, SpecStreamTee, PTL

=============================================================================
