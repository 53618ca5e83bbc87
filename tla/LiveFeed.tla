------------------------------ MODULE LiveFeed ------------------------------
(***************************************************************************)
(* The live feed of the debug page: captures are stored in the log and     *)
(* broadcast (push_captured), a page first fetches the log and then        *)
(* subscribes to the broadcast (src/src/ui.rs, src/src/ui_assets).         *)
(*                                                                         *)
(* tokio's broadcast channel keeps the last ChannelSize events.  A         *)
(* receiver that has fallen behind is told how many it missed, once, and   *)
(* goes on with the oldest that is kept.                                   *)
(***************************************************************************)
EXTENDS Integers, Sequences, FiniteSets, SequencesExt

CONSTANTS Writers,     \* requests that are being captured
          Capacity,    \* capture_capacity, None for no limit
          ChannelSize, \* 1024 in the code
          WireSize,    \* SSE events between the server and the page
          DefaultRows, \* MAX_REQUESTS of a page without a capacity, 1000
          MaxCaptures, \* bound on the captures
          MaxDrops,    \* bound on the connections lost
          None

ASSUME SizesAssumption ==
  /\ ChannelSize \in Nat \ {0} /\ WireSize \in Nat \ {0} /\ DefaultRows \in Nat \ {0}
  /\ Capacity \in Nat \cup {None}

VARIABLES counter,  \* capture_counter
          writer,   \* the id each writer has drawn, and what is left to do
          log,      \* captured_requests, as ids
          sent,     \* what was broadcast, in order
          phase,    \* of the page: "meta", "fetch", "connect" or "live"
          maxRows,  \* MAX_REQUESTS
          rows,     \* requests, oldest first
          since,    \* where in `sent` the subscription began
          pos,      \* where in `sent` the receiver is
          wire,     \* on its way to the page
          drops,    \* connections lost
          heard,    \* history: all that the page got on this connection
          between   \* history: captures stored, not broadcast, at the fetch

server == <<counter, writer, log, sent>>
vars == <<server, phase, maxRows, rows, since, pos, wire, drops, heard, between>>

Idle == [pc |-> "idle", id |-> None]
Shown(id) == [kind |-> "event", id |-> id, size |-> 1]
Lagged(n) == [kind |-> "lagged", id |-> None, size |-> n]

KeepLast(s, n) == IF Len(s) <= n THEN s ELSE SubSeq(s, Len(s) - n + 1, Len(s))

Init ==
  /\ counter = 0 /\ log = <<>> /\ sent = <<>>
  /\ writer = [w \in Writers |-> Idle]
  /\ phase = "meta" /\ maxRows = DefaultRows /\ rows = <<>>
  /\ since = 1 /\ pos = 1 /\ wire = <<>> /\ drops = 0
  /\ heard = <<>> /\ between = {}

-----------------------------------------------------------------------------
(* push_captured: three steps, each atomic by itself.                      *)

pages == <<phase, maxRows, rows, since, pos, wire, drops, heard, between>>

ReserveId(w) ==
  /\ writer[w] = Idle
  /\ counter < MaxCaptures
  /\ counter' = counter + 1
  /\ writer' = [writer EXCEPT ![w] = [pc |-> "reserved", id |-> counter]]
  /\ UNCHANGED <<log, sent, pages>>

\* A capacity of 0 stores nothing.
Store(w) ==
  /\ writer[w].pc = "reserved"
  /\ log' = IF Capacity = None THEN Append(log, writer[w].id)
            ELSE KeepLast(Append(log, writer[w].id), Capacity)
  /\ writer' = [writer EXCEPT ![w].pc = "stored"]
  /\ UNCHANGED <<counter, sent, pages>>

Broadcast(w) ==
  /\ writer[w].pc = "stored"
  /\ sent' = Append(sent, writer[w].id)
  /\ writer' = [writer EXCEPT ![w] = Idle]
  /\ UNCHANGED <<counter, log, pages>>

\* MockServer::reset clears the log; the page is not told.
ResetCaptured ==
  /\ log # <<>>
  /\ log' = <<>>
  /\ UNCHANGED <<counter, writer, sent, pages>>

-----------------------------------------------------------------------------
(* The page.  A fetch that fails is passed over.                           *)

get_meta ==
  /\ phase = "meta"
  /\ phase' = "fetch"
  /\ maxRows' \in {DefaultRows, IF Capacity \in {None, 0} THEN DefaultRows ELSE Capacity}
  /\ UNCHANGED <<server, rows, since, pos, wire, drops, heard, between>>

get_requests ==
  /\ phase = "fetch"
  /\ phase' = "connect"
  /\ \/ /\ rows' = KeepLast(log, maxRows)
        /\ between' = { writer[w].id : w \in { v \in Writers : writer[v].pc = "stored" } }
     \/ UNCHANGED <<rows, between>>
  /\ UNCHANGED <<server, maxRows, since, pos, wire, drops, heard>>

\* Mutant of event_stream: the receiver starts with what the channel holds.
event_stream_replayed ==
  /\ phase = "connect"
  /\ phase' = "live"
  /\ pos' = Len(sent) + 1 - Len(KeepLast(sent, ChannelSize))
  /\ since' = pos'
  /\ UNCHANGED <<server, maxRows, rows, wire, drops, heard, between>>

\* connectSSE: subscribe() yields what is broadcast from now on.
event_stream ==
  /\ phase = "connect"
  /\ phase' = "live"
  /\ pos' = Len(sent) + 1
  /\ since' = pos'
  /\ UNCHANGED <<server, maxRows, rows, wire, drops, heard, between>>

Oldest == Len(sent) + 1 - Len(KeepLast(sent, ChannelSize))

\* Mutant of SendLagged: the error is filtered out of the stream.
SendLaggedSilently ==
  /\ phase = "live" /\ Len(wire) < WireSize
  /\ pos < Oldest
  /\ pos' = Oldest
  /\ UNCHANGED <<server, phase, maxRows, rows, since, wire, drops, heard, between>>

SendLagged ==
  /\ phase = "live" /\ Len(wire) < WireSize
  /\ pos < Oldest
  /\ wire' = Append(wire, Lagged(Oldest - pos))
  /\ pos' = Oldest
  /\ UNCHANGED <<server, phase, maxRows, rows, since, drops, heard, between>>

\* Mutant of SendEvent: the stream stops at the first event it has missed.
SendEventOnlyUnlagged ==
  /\ phase = "live" /\ Len(wire) < WireSize
  /\ pos \in Oldest..Len(sent)
  /\ \A i \in DOMAIN heard : heard[i].kind = "event"
  /\ wire' = Append(wire, Shown(sent[pos]))
  /\ pos' = pos + 1
  /\ UNCHANGED <<server, phase, maxRows, rows, since, drops, heard, between>>

SendEvent ==
  /\ phase = "live" /\ Len(wire) < WireSize
  /\ pos \in Oldest..Len(sent)
  /\ wire' = Append(wire, Shown(sent[pos]))
  /\ pos' = pos + 1
  /\ UNCHANGED <<server, phase, maxRows, rows, since, drops, heard, between>>

\* onmessage adds a row and drops the oldest; "lagged" flashes the indicator.
Receive ==
  /\ phase = "live" /\ wire # <<>>
  /\ wire' = Tail(wire)
  /\ heard' = Append(heard, Head(wire))
  /\ rows' = IF Head(wire).kind = "lagged" THEN rows
             ELSE KeepLast(Append(rows, Head(wire).id), maxRows)
  /\ UNCHANGED <<server, phase, maxRows, since, pos, drops, between>>

\* onerror: the page waits and connects again; it fetches no log.
Disconnect ==
  /\ phase = "live"
  /\ drops < MaxDrops
  /\ drops' = drops + 1
  /\ phase' = "connect"
  /\ wire' = <<>> /\ heard' = <<>>
  /\ UNCHANGED <<server, maxRows, rows, since, pos, between>>

Next ==
  \/ \E w \in Writers : ReserveId(w) \/ Store(w) \/ Broadcast(w)
  \/ ResetCaptured
  \/ get_meta \/ get_requests \/ event_stream
  \/ SendLagged \/ SendEvent \/ Receive \/ Disconnect

\* The server's task is polled while the page reads its connection.
Spec == Init /\ [][Next]_vars /\ WF_vars(SendLagged \/ SendEvent) /\ WF_vars(Receive)

-----------------------------------------------------------------------------
\* How many broadcast events the items stand for.
Sizes(items) ==
  LET total[n \in 0 .. Len(items)] ==
        IF n = 0 THEN 0 ELSE total[n - 1] + items[n].size
  IN  total[Len(items)]

\* No silent gap on a connection: what the page has heard and what is on its
\* way to it, with as many unknown events as each notice counts, are exactly
\* the events broadcast since it subscribed, each at its place (event_stream:
\* "so the UI can show a visual gap instead of silently pretending").
GapsAreAnnounced ==
  phase = "live" =>
    LET items == heard \o wire
    IN  /\ since + Sizes(items) = pos
        /\ \A i \in DOMAIN items :
             items[i].kind = "event" =>
               items[i].id = sent[since + Sizes(SubSeq(items, 1, i - 1))]

\* A request has one row, except for those that were between being stored
\* and being broadcast when the page fetched the log: they may have a second
\* (push_captured's order, and the page's: fetch, then subscribe).
RowsAreOnce ==
  LET Times(id) == Cardinality({ i \in DOMAIN rows : rows[i] = id })
  IN  \A id \in Range(rows) :
        /\ Times(id) <= 2
        /\ Times(id) = 2 => id \in between

\* An event that is broadcast while the page is connected is shown, or
\* counted by a notice, unless the connection is lost before.
FeedCatchesUp ==
  \A k \in 1..MaxCaptures :
    (phase = "live" /\ k \in since..Len(sent))
      ~> (phase # "live" \/ since + Sizes(heard) > k)
=============================================================================
