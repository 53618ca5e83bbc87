--------------------------- MODULE RecorderProofs ---------------------------
(***************************************************************************)
(* The recorder, for any number of clients and keys and any bounds on the  *)
(* requests, reloads and restarts of a run: no key is recorded twice, the  *)
(* cassette only grows at its end, and what replays is on disk.            *)
(***************************************************************************)
EXTENDS Recorder, SequenceTheorems, TLAPS

-----------------------------------------------------------------------------
(* The operators on the cassette.                                          *)

\* Nothing is in the empty sequence.
LEMMA RangeOfEmpty == Range(<<>>) = {}
  BY DEF Range

\* Append adds one element to those of the sequence, ...
LEMMA RangeOfAppend ==
  ASSUME NEW S, NEW s \in Seq(S), NEW e \in S
  PROVE  Range(Append(s, e)) = Range(s) \cup {e}
  <1>1. /\ Append(s, e) \in Seq(S) /\ Len(Append(s, e)) = Len(s) + 1
        /\ \A i \in 1 .. Len(s) : Append(s, e)[i] = s[i]
        /\ Append(s, e)[Len(s) + 1] = e
    BY AppendProperties
  <1>2. /\ DOMAIN s = 1 .. Len(s) /\ Len(s) \in Nat
        /\ DOMAIN Append(s, e) = 1 .. Len(s) + 1
    BY <1>1, LenProperties
  <1>3. ASSUME NEW x \in Range(s) PROVE x \in Range(Append(s, e))
    BY <1>1, <1>2, <1>3 DEF Range
  <1>4. e \in Range(Append(s, e))
    BY <1>1, <1>2 DEF Range
  <1>5. ASSUME NEW x \in Range(Append(s, e)) PROVE x \in Range(s) \cup {e}
    <2>1. PICK i \in 1 .. Len(s) + 1 : x = Append(s, e)[i]
      BY <1>2 DEF Range
    <2>2. CASE i \in 1 .. Len(s)
      BY <1>1, <1>2, <2>1, <2>2 DEF Range
    <2>3. CASE i = Len(s) + 1
      BY <1>1, <2>1, <2>3
    <2> QED
      BY <1>2, <2>2, <2>3
  <1> QED
    BY <1>3, <1>4, <1>5

\* ... and keeps it as a prefix.
LEMMA AppendExtends ==
  ASSUME NEW S, NEW s \in Seq(S), NEW e \in S
  PROVE  IsPrefix(s, Append(s, e))
  <1>1. /\ Append(s, e) \in Seq(S) /\ Len(Append(s, e)) = Len(s) + 1
        /\ \A i \in 1 .. Len(s) : Append(s, e)[i] = s[i]
        /\ Len(s) \in Nat
    BY AppendProperties, LenProperties
  <1>2. PICK t \in Seq(S) : t = Append(s, e)
    BY <1>1
  <1>3. Len(t) = Len(s) + 1 /\ \A i \in 1 .. Len(s) : t[i] = s[i]
    BY <1>1, <1>2
  <1>4. \A i \in 1 .. Len(s) : s[i] \in S /\ t[i] \in S
    BY <1>1, <1>3, ElementOfSeq
  <1>5. /\ SubSeq(t, 1, Len(s)) \in Seq(S)
        /\ Len(SubSeq(t, 1, Len(s))) = Len(s)
        /\ \A i \in 1 .. Len(s) : SubSeq(t, 1, Len(s))[i] = t[i]
    <2>1. \A i \in 1 .. Len(s) : t[i] \in S
      BY <1>4
    <2>2. /\ SubSeq(t, 1, Len(s)) \in Seq(S)
          /\ Len(SubSeq(t, 1, Len(s))) = IF 1 <= Len(s) THEN Len(s) - 1 + 1 ELSE 0
          /\ \A i \in 1 .. Len(s) - 1 + 1 : SubSeq(t, 1, Len(s))[i] = t[1 + i - 1]
      <3> HIDE <1>2
      <3> QED
        BY <1>1, <2>1, SubSeqProperties
    <2> QED
      BY <1>1, <2>2
  <1>6. SubSeq(t, 1, Len(s)) = s
    BY <1>3, <1>5, SeqEqual
  <1>7. SubSeq(s, 1, Len(s)) = s
    BY SubSeqFull
  <1> QED
    BY <1>1, <1>2, <1>3, <1>6, <1>7 DEF IsPrefix

\* A sequence without repetitions stays so when it gets a new element.
LEMMA AppendNew ==
  ASSUME NEW S, NEW s \in Seq(S), NEW e \in S \ Range(s),
         \A i, j \in 1 .. Len(s) : s[i] = s[j] => i = j
  PROVE  \A i, j \in 1 .. Len(Append(s, e)) :
           Append(s, e)[i] = Append(s, e)[j] => i = j
  <1>1. PICK t : t = Append(s, e)
    OBVIOUS
  <1>2. /\ Len(t) = Len(s) + 1 /\ t[Len(s) + 1] = e
        /\ \A i \in 1 .. Len(s) : t[i] = s[i]
        /\ Len(s) \in Nat
    BY <1>1, AppendProperties, LenProperties
  <1>3. \A i \in 1 .. Len(s) : s[i] # e
    BY LenProperties DEF Range
  <1> SUFFICES ASSUME NEW i \in 1 .. Len(t), NEW j \in 1 .. Len(t), t[i] = t[j]
               PROVE  i = j
    BY <1>1
  <1> QED
    BY <1>2, <1>3

-----------------------------------------------------------------------------
(* The inductive invariant.                                                *)

Locations == {"idle", "match", "upstream", "claim", "lock_io", "append_read",
              "append_write", "splice", "respond"}

RecorderTypes ==
  /\ cassette \in Seq(Keys)
  /\ pc \in [Clients -> Locations]
  /\ job \in [Clients -> [key : Keys \cup {None}, streaming : BOOLEAN]]
  /\ copy \in [Clients -> Seq(Keys)]
  /\ \A c \in Clients : pc[c] # "idle" => job[c].key \in Keys

Durable == Range(cassette)

\* Who is inside append_entry, and who has claimed a key and not written it.
Holds(c) == pc[c] \in {"append_read", "append_write"}
Records(c) == pc[c] = "lock_io" \/ Holds(c)

\* cassette_io says who appends, so one at most does, and what it has read is
\* what the file still holds when it writes.
LockExact == \A c \in Clients : Holds(c) <=> cassette_io = c
CopyFresh == \A c \in Clients : pc[c] = "append_write" => copy[c] = cassette

\* A key on its way to the cassette is in `seen` and not in the file yet, and
\* no two clients carry the same.
ClaimsOpen ==
  /\ Durable \subseteq seen
  /\ \A c \in Clients : Records(c) => job[c].key \in seen \ Durable
ClaimsDistinct ==
  \A c, d \in Clients :
    Records(c) /\ Records(d) /\ job[c].key = job[d].key => c = d

\* What is about to be spliced was written, unless its append failed, and what
\* a reload has read is still in the file.
Backed ==
  /\ \A c \in Clients : pc[c] = "splice" => job[c].key \in Durable \cup failed
  /\ loaded # None => loaded \subseteq Durable

IInv ==
  /\ RecorderTypes /\ LockExact /\ CopyFresh /\ ClaimsOpen /\ ClaimsDistinct
  /\ Backed /\ NoDuplicateEntries /\ ReplayedIsDurable

\* The invariant holds at the start.
LEMMA InitIInv == Init => IInv
  <1> SUFFICES ASSUME Init PROVE IInv
    OBVIOUS
  <1> USE DEF Init
  <1>1. RecorderTypes
    BY DEF RecorderTypes, Locations, NoJob
  <1>2. LockExact
    BY NoneAssumption DEF LockExact, Holds
  <1>3. CopyFresh /\ ClaimsOpen /\ ClaimsDistinct
    BY RangeOfEmpty DEF CopyFresh, ClaimsOpen, ClaimsDistinct, Records, Holds, Durable
  <1>4. Backed /\ NoDuplicateEntries /\ ReplayedIsDurable
    BY RangeOfEmpty DEF Backed, NoDuplicateEntries, ReplayedIsDurable, Durable
  <1> QED
    BY <1>1, <1>2, <1>3, <1>4 DEF IInv

-----------------------------------------------------------------------------
(* The steps.                                                              *)

\* Goto moves one client and no other.
LEMMA GotoMoves ==
  ASSUME RecorderTypes, NEW c \in Clients, NEW loc \in Locations, Goto(c, loc)
  PROVE  /\ pc' \in [Clients -> Locations] /\ pc'[c] = loc
         /\ \A d \in Clients \ {c} : pc'[d] = pc[d]
  BY DEF RecorderTypes, Goto

\* A step outside of the recording of a key: the client takes the job it has,
\* or another, to a location where nothing is claimed.
LEMMA MovesAside ==
  ASSUME IInv, NEW c \in Clients, ~Holds(c),
         NEW loc \in {"idle", "match", "upstream", "claim", "respond"}, Goto(c, loc),
         NEW j \in [key : Keys \cup {None}, streaming : BOOLEAN],
         loc # "idle" => j.key \in Keys,
         job' = [job EXCEPT ![c] = j],
         UNCHANGED <<cassette, server_vars, copy, loaded, failed>>
  PROVE  IInv'
  <1>1. /\ pc' \in [Clients -> Locations] /\ pc'[c] = loc
        /\ \A d \in Clients \ {c} : pc'[d] = pc[d]
    <2>1. loc \in Locations
      BY DEF Locations
    <2> QED
      BY <2>1, GotoMoves DEF IInv
  <1>2. /\ job' \in [Clients -> [key : Keys \cup {None}, streaming : BOOLEAN]]
        /\ job'[c] = j
        /\ \A d \in Clients \ {c} : job'[d] = job[d]
    BY DEF IInv, RecorderTypes
  <1>3. /\ cassette' = cassette /\ Durable' = Durable /\ live' = live
        /\ seen' = seen /\ cassette_io' = cassette_io /\ copy' = copy
        /\ loaded' = loaded /\ failed' = failed
    BY DEF server_vars, Durable
  <1>4. /\ ~Holds(c)' /\ ~Records(c)'
        /\ \A d \in Clients \ {c} : (Holds(d)' <=> Holds(d)) /\ (Records(d)' <=> Records(d))
    BY <1>1 DEF Holds, Records
  <1>5. RecorderTypes'
    BY <1>1, <1>2, <1>3 DEF IInv, RecorderTypes
  <1>6. LockExact'
    BY <1>3, <1>4 DEF IInv, LockExact
  <1>7. CopyFresh'
    BY <1>1, <1>3 DEF IInv, CopyFresh
  <1>8. ClaimsOpen' /\ ClaimsDistinct'
    BY <1>2, <1>3, <1>4 DEF IInv, ClaimsOpen, ClaimsDistinct
  <1>9. Backed'
    BY <1>1, <1>2, <1>3 DEF IInv, Backed
  <1>10. NoDuplicateEntries' /\ ReplayedIsDurable'
    BY <1>3 DEF IInv, NoDuplicateEntries, ReplayedIsDurable, Durable
  <1> QED
    BY <1>5, <1>6, <1>7, <1>8, <1>9, <1>10 DEF IInv

\* A client returns, from wherever it does not hold cassette_io.
LEMMA ReturnKeeps ==
  ASSUME IInv, NEW c \in Clients, ~Holds(c), Return(c),
         UNCHANGED <<cassette, server_vars, copy, loaded, failed>>
  PROVE  IInv'
  <1>1. NoJob \in [key : Keys \cup {None}, streaming : BOOLEAN]
    BY DEF NoJob
  <1> QED
    BY <1>1, MovesAside DEF Return

\* A client goes on with the job it has.
LEMMA GoesOn ==
  ASSUME IInv, NEW c \in Clients, ~Holds(c), pc[c] # "idle",
         NEW loc \in {"match", "upstream", "claim", "respond"}, Goto(c, loc),
         UNCHANGED <<cassette, server_vars, job, copy, loaded, failed>>
  PROVE  IInv'
  <1>1. /\ job[c] \in [key : Keys \cup {None}, streaming : BOOLEAN]
        /\ job[c].key \in Keys
        /\ job' = [job EXCEPT ![c] = job[c]]
    BY DEF IInv, RecorderTypes
  <1> QED
    BY <1>1, MovesAside

\* The steps before a recording and after it touch neither lock nor cassette.
LEMMA RequestSteps ==
  ASSUME IInv, NEW c \in Clients,
         \/ \E k \in Keys, streaming \in BOOLEAN : Arrive(c, k, streaming)
         \/ ServeLocally(c) \/ ForwardUpstream(c) \/ Respond(c)
         \/ UpstreamUnrecordable(c) \/ UpstreamAnswers(c) \/ ClientLeaves(c)
  PROVE  IInv'
  <1>1. ASSUME NEW k \in Keys, NEW streaming \in BOOLEAN, Arrive(c, k, streaming)
        PROVE  IInv'
    <2>1. [key |-> k, streaming |-> streaming]
            \in [key : Keys \cup {None}, streaming : BOOLEAN]
      OBVIOUS
    <2> QED
      BY <1>1, <2>1, MovesAside DEF Arrive, Holds, server_vars
  <1>2. CASE ServeLocally(c) \/ Respond(c) \/ UpstreamUnrecordable(c)
    <2>1. ~Holds(c) /\ Return(c) /\ UNCHANGED <<cassette, server_vars, copy, loaded, failed>>
      BY <1>2 DEF ServeLocally, Respond, UpstreamUnrecordable, Holds, past_vars
    <2> QED
      BY <2>1, ReturnKeeps
  <1>3. CASE ClientLeaves(c)
    <2>1. ~Holds(c) /\ Return(c) /\ UNCHANGED <<cassette, server_vars, copy, loaded, failed>>
      BY <1>3 DEF ClientLeaves, Holds, past_vars
    <2> QED
      BY <2>1, ReturnKeeps
  <1>4. CASE ForwardUpstream(c)
    <2>1. /\ ~Holds(c) /\ pc[c] # "idle" /\ Goto(c, "upstream")
          /\ UNCHANGED <<cassette, server_vars, job, copy, loaded, failed>>
      BY <1>4 DEF ForwardUpstream, Holds, past_vars
    <2> QED
      BY <2>1, GoesOn
  <1>5. CASE UpstreamAnswers(c)
    <2>1. /\ ~Holds(c) /\ pc[c] # "idle" /\ Goto(c, "claim")
          /\ UNCHANGED <<cassette, server_vars, job, copy, loaded, failed>>
      BY <1>5 DEF UpstreamAnswers, Holds, past_vars
    <2> QED
      BY <2>1, GoesOn
  <1> QED
    BY <1>1, <1>2, <1>3, <1>4, <1>5

\* The claim is one step, so a key that is new is carried by no other client.
LEMMA ClaimKeeps ==
  ASSUME IInv, NEW c \in Clients, Claim(c)
  PROVE  IInv'
  <1> DEFINE k == job[c].key
  <1>1. /\ pc[c] = "claim" /\ seen' = seen \cup {k}
        /\ Goto(c, IF k \in seen THEN "respond" ELSE "lock_io")
        /\ cassette' = cassette /\ Durable' = Durable /\ live' = live
        /\ cassette_io' = cassette_io /\ job' = job /\ copy' = copy
        /\ loaded' = loaded /\ failed' = failed
    BY DEF Claim, past_vars, Durable
  <1>2. CASE k \in seen
    <2>1. /\ ~Holds(c) /\ pc[c] # "idle" /\ Goto(c, "respond")
          /\ UNCHANGED <<cassette, server_vars, job, copy, loaded, failed>>
      BY <1>1, <1>2 DEF Holds, server_vars
    <2> QED
      BY <2>1, GoesOn
  <1>3. CASE k \notin seen
    <2>1. /\ pc' \in [Clients -> Locations] /\ pc'[c] = "lock_io"
          /\ \A d \in Clients \ {c} : pc'[d] = pc[d]
      BY <1>1, <1>3, GotoMoves DEF IInv, Locations
    <2>2. /\ ~Holds(c) /\ ~Holds(c)' /\ ~Records(c)
          /\ \A d \in Clients \ {c} : (Holds(d)' <=> Holds(d)) /\ (Records(d)' <=> Records(d))
      BY <1>1, <2>1 DEF Holds, Records
    <2>3. RecorderTypes'
      BY <1>1, <2>1 DEF IInv, RecorderTypes
    <2>4. LockExact' /\ CopyFresh'
      BY <1>1, <2>1, <2>2 DEF IInv, LockExact, CopyFresh
    <2>5. ClaimsOpen'
      BY <1>1, <1>3, <2>2 DEF IInv, ClaimsOpen
    <2>6. ClaimsDistinct'
      BY <1>1, <1>3, <2>2 DEF IInv, ClaimsOpen, ClaimsDistinct
    <2>7. Backed'
      BY <1>1, <2>1 DEF IInv, Backed
    <2>8. NoDuplicateEntries' /\ ReplayedIsDurable'
      BY <1>1 DEF IInv, NoDuplicateEntries, ReplayedIsDurable, Durable
    <2> QED
      BY <2>3, <2>4, <2>5, <2>6, <2>7, <2>8 DEF IInv
  <1> QED
    BY <1>2, <1>3

\* cassette_io is free when it is taken.
LEMMA LockIoKeeps ==
  ASSUME IInv, NEW c \in Clients, LockIo(c)
  PROVE  IInv'
  <1>1. /\ pc[c] = "lock_io" /\ cassette_io = None /\ cassette_io' = c
        /\ Goto(c, "append_read")
        /\ cassette' = cassette /\ Durable' = Durable /\ live' = live /\ seen' = seen
        /\ job' = job /\ copy' = copy /\ loaded' = loaded /\ failed' = failed
    BY DEF LockIo, past_vars, Durable
  <1>2. /\ pc' \in [Clients -> Locations] /\ pc'[c] = "append_read"
        /\ \A d \in Clients \ {c} : pc'[d] = pc[d]
    BY <1>1, GotoMoves DEF IInv, Locations
  <1>3. /\ Holds(c)' /\ \A d \in Clients : Records(d)' <=> Records(d)
        /\ \A d \in Clients \ {c} : Holds(d)' <=> Holds(d)
    BY <1>1, <1>2 DEF Holds, Records
  <1>4. RecorderTypes'
    BY <1>1, <1>2 DEF IInv, RecorderTypes
  <1>5. LockExact'
    <2>1. \A d \in Clients : ~Holds(d)
      BY <1>1, NoneAssumption DEF IInv, LockExact
    <2> QED
      BY <1>1, <1>3, <2>1 DEF LockExact
  <1>6. CopyFresh'
    BY <1>1, <1>2 DEF IInv, CopyFresh
  <1>7. ClaimsOpen' /\ ClaimsDistinct'
    BY <1>1, <1>3 DEF IInv, ClaimsOpen, ClaimsDistinct
  <1>8. Backed'
    BY <1>1, <1>2 DEF IInv, Backed
  <1>9. NoDuplicateEntries' /\ ReplayedIsDurable'
    BY <1>1 DEF IInv, NoDuplicateEntries, ReplayedIsDurable, Durable
  <1> QED
    BY <1>4, <1>5, <1>6, <1>7, <1>8, <1>9 DEF IInv

\* append_entry reads the cassette as it is, and holds the lock.
LEMMA AppendReadKeeps ==
  ASSUME IInv, NEW c \in Clients, AppendRead(c)
  PROVE  IInv'
  <1>1. /\ pc[c] = "append_read" /\ Goto(c, "append_write")
        /\ copy' = [copy EXCEPT ![c] = cassette]
        /\ cassette' = cassette /\ Durable' = Durable /\ live' = live /\ seen' = seen
        /\ cassette_io' = cassette_io
        /\ job' = job /\ loaded' = loaded /\ failed' = failed
    BY DEF AppendRead, past_vars, server_vars, Durable
  <1>2. /\ pc' \in [Clients -> Locations] /\ pc'[c] = "append_write"
        /\ \A d \in Clients \ {c} : pc'[d] = pc[d]
    BY <1>1, GotoMoves DEF IInv, Locations
  <1>3. \A d \in Clients : (Holds(d)' <=> Holds(d)) /\ (Records(d)' <=> Records(d))
    BY <1>1, <1>2 DEF Holds, Records
  <1>4. RecorderTypes'
    BY <1>1, <1>2 DEF IInv, RecorderTypes
  <1>5. LockExact'
    BY <1>1, <1>3 DEF IInv, LockExact
  <1>6. CopyFresh'
    BY <1>1, <1>2 DEF IInv, CopyFresh, RecorderTypes
  <1>7. ClaimsOpen' /\ ClaimsDistinct'
    BY <1>1, <1>3 DEF IInv, ClaimsOpen, ClaimsDistinct
  <1>8. Backed'
    BY <1>1, <1>2 DEF IInv, Backed
  <1>9. NoDuplicateEntries' /\ ReplayedIsDurable'
    BY <1>1 DEF IInv, NoDuplicateEntries, ReplayedIsDurable, Durable
  <1> QED
    BY <1>4, <1>5, <1>6, <1>7, <1>8, <1>9 DEF IInv

\* The writer is alone with the lock, so its copy is the file and its key is
\* new to it: the file gets one entry more.
LEMMA WriteAppends ==
  ASSUME IInv, NEW c \in Clients, AppendWrite(c)
  PROVE  /\ cassette' = Append(cassette, job[c].key)
         /\ job[c].key \in Keys \ Durable
  BY DEF AppendWrite, IInv, CopyFresh, RecorderTypes, ClaimsOpen, Records, Holds

\* append_entry writes back what it read with one entry more.
LEMMA AppendWriteKeeps ==
  ASSUME IInv, NEW c \in Clients, AppendWrite(c)
  PROVE  IInv'
  <1> DEFINE k == job[c].key
  <1>1. /\ pc[c] = "append_write" /\ Goto(c, "splice")
        /\ copy' = [copy EXCEPT ![c] = <<>>] /\ cassette_io' = None
        /\ live' = live /\ seen' = seen
        /\ job' = job /\ loaded' = loaded /\ failed' = failed
    BY DEF AppendWrite, past_vars
  <1>2. /\ pc' \in [Clients -> Locations] /\ pc'[c] = "splice"
        /\ \A d \in Clients \ {c} : pc'[d] = pc[d]
    BY <1>1, GotoMoves DEF IInv, Locations
  <1>3. cassette' = Append(cassette, k) /\ k \in Keys \ Durable
    BY WriteAppends
  <1>4. cassette' \in Seq(Keys) /\ Durable' = Durable \cup {k}
    <2>1. cassette \in Seq(Keys)
      BY DEF IInv, RecorderTypes
    <2>2. Range(Append(cassette, k)) = Range(cassette) \cup {k}
      BY <1>3, <2>1, RangeOfAppend
    <2>3. Append(cassette, k) \in Seq(Keys)
      BY <1>3, <2>1, AppendProperties
    <2> QED
      BY <1>3, <2>2, <2>3 DEF Durable
  <1>5. /\ Holds(c) /\ Records(c) /\ ~Holds(c)' /\ ~Records(c)'
        /\ \A d \in Clients \ {c} : (Holds(d)' <=> Holds(d)) /\ (Records(d)' <=> Records(d))
    BY <1>1, <1>2 DEF Holds, Records
  <1>6. RecorderTypes'
    <2>1. copy' \in [Clients -> Seq(Keys)]
      BY <1>1, EmptySeq DEF IInv, RecorderTypes
    <2> QED
      BY <1>1, <1>2, <1>4, <2>1 DEF IInv, RecorderTypes
  <1>7. \A d \in Clients \ {c} : ~Holds(d)
    BY <1>5 DEF IInv, LockExact
  <1>8. LockExact' /\ CopyFresh'
    BY <1>1, <1>2, <1>5, <1>7, NoneAssumption DEF LockExact, CopyFresh, Holds
  <1>9. ClaimsOpen'
    BY <1>1, <1>4, <1>5 DEF IInv, ClaimsOpen, ClaimsDistinct
  <1>10. ClaimsDistinct'
    BY <1>1, <1>5 DEF IInv, ClaimsDistinct
  <1>11. Backed'
    BY <1>1, <1>2, <1>4 DEF IInv, Backed
  <1>12. NoDuplicateEntries'
    <2>1. cassette \in Seq(Keys)
      BY DEF IInv, RecorderTypes
    <2>2. \A i, j \in 1 .. Len(cassette) : cassette[i] = cassette[j] => i = j
      BY DEF IInv, NoDuplicateEntries
    <2>3. \A i, j \in 1 .. Len(Append(cassette, k)) :
            Append(cassette, k)[i] = Append(cassette, k)[j] => i = j
      BY <1>3, <2>1, <2>2, AppendNew DEF Durable
    <2> QED
      BY <1>3, <2>3 DEF NoDuplicateEntries
  <1>13. ReplayedIsDurable'
    BY <1>1, <1>4 DEF IInv, ReplayedIsDurable, Durable
  <1> QED
    BY <1>6, <1>8, <1>9, <1>10, <1>11, <1>12, <1>13 DEF IInv

\* A failed append keeps the claim, releases the lock and leaves the cassette.
LEMMA AppendFailsKeeps ==
  ASSUME IInv, NEW c \in Clients, AppendFails(c)
  PROVE  IInv'
  <1>1. /\ pc[c] = "append_write" /\ Goto(c, "splice")
        /\ copy' = [copy EXCEPT ![c] = <<>>] /\ cassette_io' = None
        /\ cassette' = cassette /\ Durable' = Durable /\ live' = live /\ seen' = seen
        /\ job' = job /\ loaded' = loaded /\ failed' = failed \cup {job[c].key}
    BY DEF AppendFails, Durable
  <1>2. /\ pc' \in [Clients -> Locations] /\ pc'[c] = "splice"
        /\ \A d \in Clients \ {c} : pc'[d] = pc[d]
    BY <1>1, GotoMoves DEF IInv, Locations
  <1>3. /\ Holds(c) /\ ~Holds(c)' /\ ~Records(c)'
        /\ \A d \in Clients \ {c} : (Holds(d)' <=> Holds(d)) /\ (Records(d)' <=> Records(d))
    BY <1>1, <1>2 DEF Holds, Records
  <1>4. RecorderTypes'
    <2>1. copy' \in [Clients -> Seq(Keys)]
      BY <1>1, EmptySeq DEF IInv, RecorderTypes
    <2> QED
      BY <1>1, <1>2, <2>1 DEF IInv, RecorderTypes
  <1>5. \A d \in Clients \ {c} : ~Holds(d)
    BY <1>3 DEF IInv, LockExact
  <1>6. LockExact' /\ CopyFresh'
    BY <1>1, <1>2, <1>3, <1>5, NoneAssumption DEF LockExact, CopyFresh, Holds
  <1>7. ClaimsOpen' /\ ClaimsDistinct'
    BY <1>1, <1>3 DEF IInv, ClaimsOpen, ClaimsDistinct
  <1>8. Backed'
    BY <1>1, <1>2 DEF IInv, Backed
  <1>9. NoDuplicateEntries' /\ ReplayedIsDurable'
    BY <1>1 DEF IInv, NoDuplicateEntries, ReplayedIsDurable, Durable
  <1> QED
    BY <1>4, <1>6, <1>7, <1>8, <1>9 DEF IInv

\* The splice adds a key that was written, or whose append failed.
LEMMA SpliceKeeps ==
  ASSUME IInv, NEW c \in Clients, Splice(c)
  PROVE  IInv'
  <1>1. /\ pc[c] = "splice" /\ Goto(c, "respond")
        /\ live' = live \cup {job[c].key}
        /\ cassette' = cassette /\ Durable' = Durable /\ seen' = seen
        /\ cassette_io' = cassette_io /\ copy' = copy
        /\ job' = job /\ loaded' = loaded /\ failed' = failed
    BY DEF Splice, Durable
  <1>2. /\ pc' \in [Clients -> Locations] /\ pc'[c] = "respond"
        /\ \A d \in Clients \ {c} : pc'[d] = pc[d]
    BY <1>1, GotoMoves DEF IInv, Locations
  <1>3. \A d \in Clients : (Holds(d)' <=> Holds(d)) /\ (Records(d)' <=> Records(d))
    BY <1>1, <1>2 DEF Holds, Records
  <1>4. RecorderTypes'
    BY <1>1, <1>2 DEF IInv, RecorderTypes
  <1>5. LockExact' /\ CopyFresh'
    BY <1>1, <1>2, <1>3 DEF IInv, LockExact, CopyFresh
  <1>6. ClaimsOpen' /\ ClaimsDistinct'
    BY <1>1, <1>3 DEF IInv, ClaimsOpen, ClaimsDistinct
  <1>7. Backed'
    BY <1>1, <1>2 DEF IInv, Backed
  <1>8. NoDuplicateEntries'
    BY <1>1 DEF IInv, NoDuplicateEntries
  <1>9. ReplayedIsDurable'
    BY <1>1 DEF IInv, ReplayedIsDurable, Backed, Durable
  <1> QED
    BY <1>4, <1>5, <1>6, <1>7, <1>8, <1>9 DEF IInv

\* A reload reads the cassette, and swaps in what it read.
LEMMA ReloadKeeps ==
  ASSUME IInv, ReloadReads \/ ReloadSwaps
  PROVE  IInv'
  <1>1. /\ UNCHANGED <<cassette, seen, cassette_io, pc, job, copy, failed>>
        /\ Durable' = Durable
        /\ \/ loaded' = Durable /\ live' = live
           \/ loaded # None /\ live' = loaded /\ loaded' = None
    BY DEF ReloadReads, ReloadSwaps, server_vars, job_vars, past_vars, Durable
  <1>2. \A d \in Clients : (Holds(d)' <=> Holds(d)) /\ (Records(d)' <=> Records(d))
    BY <1>1 DEF Holds, Records
  <1>3. RecorderTypes' /\ LockExact' /\ CopyFresh'
    BY <1>1, <1>2 DEF IInv, RecorderTypes, LockExact, CopyFresh
  <1>4. ClaimsOpen' /\ ClaimsDistinct' /\ NoDuplicateEntries'
    BY <1>1, <1>2 DEF IInv, ClaimsOpen, ClaimsDistinct, NoDuplicateEntries
  <1>5. Backed' /\ ReplayedIsDurable'
    BY <1>1 DEF IInv, Backed, ReplayedIsDurable, Durable
  <1> QED
    BY <1>3, <1>4, <1>5 DEF IInv

\* A crash at any step leaves a file that the new run agrees with.
LEMMA RestartKeeps ==
  ASSUME IInv, Restart
  PROVE  IInv'
  <1>1. /\ cassette' = cassette /\ Durable' = Durable
        /\ live' = Durable /\ seen' = Durable /\ cassette_io' = None
        /\ pc' = [c \in Clients |-> "idle"] /\ job' = [c \in Clients |-> NoJob]
        /\ copy' = [c \in Clients |-> <<>>] /\ loaded' = None
    BY DEF Restart, seed_dedupe, Durable
  <1>2. \A d \in Clients : ~Holds(d)' /\ ~Records(d)'
    BY <1>1 DEF Holds, Records
  <1>3. RecorderTypes'
    BY <1>1 DEF IInv, RecorderTypes, Locations, NoJob
  <1>4. LockExact' /\ CopyFresh'
    BY <1>1, <1>2, NoneAssumption DEF LockExact, CopyFresh
  <1>5. ClaimsOpen' /\ ClaimsDistinct' /\ NoDuplicateEntries'
    BY <1>1, <1>2 DEF IInv, ClaimsOpen, ClaimsDistinct, NoDuplicateEntries
  <1>6. Backed' /\ ReplayedIsDurable'
    BY <1>1 DEF Backed, ReplayedIsDurable, Durable
  <1> QED
    BY <1>3, <1>4, <1>5, <1>6 DEF IInv

\* Nothing happens.
LEMMA StutterKeeps ==
  ASSUME IInv, UNCHANGED vars
  PROVE  IInv'
  <1>1. UNCHANGED <<cassette, live, seen, cassette_io, pc, job, copy, loaded, failed>>
    BY DEF vars, server_vars, job_vars, past_vars
  <1> QED
    BY <1>1 DEF IInv, RecorderTypes, LockExact, CopyFresh, ClaimsOpen, ClaimsDistinct,
                Backed, NoDuplicateEntries, ReplayedIsDurable, Durable, Holds, Records

\* The invariant is inductive: one lemma for each kind of action.
LEMMA StepIInv == IInv /\ [Next]_vars => IInv'
  <1> SUFFICES ASSUME IInv, [Next]_vars PROVE IInv'
    OBVIOUS
  <1>1. CASE UNCHANGED vars
    BY <1>1, StutterKeeps
  <1>2. CASE ReloadReads \/ ReloadSwaps
    BY <1>2, ReloadKeeps
  <1>3. CASE Restart
    BY <1>3, RestartKeeps
  <1>4. ASSUME NEW c \in Clients,
               \/ \E k \in Keys, streaming \in BOOLEAN : Arrive(c, k, streaming)
               \/ ServeLocally(c) \/ ForwardUpstream(c) \/ Respond(c)
               \/ UpstreamUnrecordable(c) \/ UpstreamAnswers(c) \/ ClientLeaves(c)
        PROVE  IInv'
    BY <1>4, RequestSteps
  <1>5. ASSUME NEW c \in Clients,
               \/ Claim(c) \/ LockIo(c) \/ AppendRead(c) \/ AppendWrite(c)
               \/ AppendFails(c) \/ Splice(c)
        PROVE  IInv'
    BY <1>5, ClaimKeeps, LockIoKeeps, AppendReadKeeps, AppendWriteKeeps,
       AppendFailsKeeps, SpliceKeeps
  <1> QED
    BY <1>1, <1>2, <1>3, <1>4, <1>5 DEF Next, Proceed

\* What claims, cassette, live set and lock keep to, always.
THEOREM SpecIInv == Spec => []IInv
  BY InitIInv, StepIInv, PTL DEF Spec

-----------------------------------------------------------------------------
\* The cassette never holds a (provider, model, message) triple twice, for any
\* number of concurrent misses and any number of crashes and restarts.
THEOREM RecordsOnce == Spec => []NoDuplicateEntries
  BY SpecIInv, PTL DEF IInv

\* What replays from a recording is in the cassette, so that it replays in the
\* next run too, unless its append was reported to have failed.
THEOREM ReplaysFromDisk == Spec => []ReplayedIsDurable
  BY SpecIInv, PTL DEF IInv

\* Only the one client that holds cassette_io writes, and what it writes is
\* the file as it is with one entry more.
LEMMA StepAppends == IInv /\ [Next]_vars => [IsPrefix(cassette, cassette')]_cassette
  <1> SUFFICES ASSUME IInv, [Next]_vars, cassette' # cassette
               PROVE  IsPrefix(cassette, cassette')
    OBVIOUS
  <1>1. \E c \in Clients : AppendWrite(c)
    BY DEF Next, Proceed, vars, Arrive, ServeLocally, ForwardUpstream, Respond,
           UpstreamUnrecordable, UpstreamAnswers, ClientLeaves, Claim, LockIo,
           AppendRead, AppendFails, Splice, ReloadReads, ReloadSwaps, Restart
  <1>2. PICK c \in Clients : AppendWrite(c)
    BY <1>1
  <1>3. cassette \in Seq(Keys) /\ cassette' = Append(cassette, job[c].key)
        /\ job[c].key \in Keys
    BY <1>2, WriteAppends DEF IInv, RecorderTypes
  <1>4. IsPrefix(cassette, Append(cassette, job[c].key))
    BY <1>3, AppendExtends
  <1> QED
    BY <1>3, <1>4

\* No append loses or moves what an earlier one wrote, however many run at
\* once and wherever the process is killed.
THEOREM CassetteOnlyGrows == Spec => AppendsKept
  BY SpecIInv, StepAppends, PTL DEF Spec, AppendsKept
=============================================================================
