--------------------------- MODULE MCReplyStream ---------------------------
(* A small instance of ReplyStream: one fixture of each other kind, and      *)
(* streams of two and three frames under each combination of the failures    *)
(* that can meet.                                                            *)
EXTENDS ReplyStream

NoFixture ==
  [ kind |-> "response", status |-> 500, corrupt |-> FALSE, frames |-> 3, latency |-> 1,
    truncate |-> None, disconnect |-> None, jitter |-> None, duplicate |-> FALSE,
    certain |-> TRUE ]

Unstreamed ==
  { [NoFixture EXCEPT !.kind = "refusal"], [NoFixture EXCEPT !.kind = "error"],
    [NoFixture EXCEPT !.kind = "broken"], [NoFixture EXCEPT !.corrupt = TRUE] }

Streamed ==
  { [NoFixture EXCEPT !.latency = l, !.truncate = t, !.disconnect = d, !.duplicate = u] :
    l \in 0..2, t \in {None, 0, 2}, d \in {None, 1, 2, 3}, u \in BOOLEAN }

Jittery ==
  { [NoFixture EXCEPT !.frames = 2, !.jitter = 1, !.disconnect = d, !.duplicate = u,
                      !.certain = FALSE] :
    d \in {None, 2}, u \in BOOLEAN }

MCFixtures == Unstreamed \cup Streamed \cup Jittery
=============================================================================
