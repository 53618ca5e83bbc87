------------------------------ MODULE Recorder ------------------------------
(***************************************************************************)
(* Recording (src/src/record/): concurrent misses forwarded upstream, the  *)
(* dedupe set, the cassette file, the splice into the live set, and what   *)
(* races with them: a reload from disk, clients that leave, failed writes, *)
(* and a crash of the process followed by a new build.                     *)
(*                                                                         *)
(* A key stands for a (provider, model, user_message) triple, and the live *)
(* set is the set of the keys that recordings answer: which of several     *)
(* fixtures answers is Routing's matter, how a reload is triggered and     *)
(* what it reads besides the cassette is HotReload's.                      *)
(***************************************************************************)
EXTENDS Integers, Sequences, FiniteSets, SequencesExt

CONSTANTS Clients,
          Keys,
          OnMiss,       \* VcrMode::RecordOnMiss (TRUE) or VcrMode::Record
          None,
          MaxRequests, MaxRestarts, MaxReloads \* bounds

ASSUME NoneAssumption == None \notin Clients \cup Keys

VARIABLES
  cassette,    \* the keys in the cassette file, in order
  live,        \* AppState.fixtures, as the keys that have a recording there
  seen,        \* Recorder.seen
  cassette_io, \* who holds Recorder.cassette_io, or None
  pc,          \* where each client's request, or its tee task, is
  job,         \* its key and whether it streams
  copy,        \* the cassette as its append_entry has read it
  loaded,      \* the keys that a running reload has read, None without one
  failed,      \* keys of this run whose append failed
  spliced,     \* history: keys of this run spliced into the live set
  count        \* the bounded events so far

server_vars == <<live, seen, cassette_io>>
job_vars    == <<pc, job, copy>>
past_vars   == <<failed, spliced, count>>
vars == <<cassette, server_vars, job_vars, loaded, past_vars>>

NoJob == [key |-> None, streaming |-> FALSE]

Tally(event) == count' = [count EXCEPT ![event] = @ + 1]

-----------------------------------------------------------------------------
Init ==
  /\ cassette = <<>>
  /\ live = {}
  /\ seen = {}
  /\ cassette_io = None
  /\ pc = [c \in Clients |-> "idle"]
  /\ job = [c \in Clients |-> NoJob]
  /\ copy = [c \in Clients |-> <<>>]
  /\ loaded = None
  /\ failed = {}
  /\ spliced = {}
  /\ count = [requests |-> 0, restarts |-> 0, reloads |-> 0]

(* A request, up to the answer of the upstream.                            *)

Goto(c, loc) == pc' = [pc EXCEPT ![c] = loc]
Return(c) == Goto(c, "idle") /\ job' = [job EXCEPT ![c] = NoJob]

Arrive(c, k, streaming) ==
  /\ pc[c] = "idle"
  /\ count.requests < MaxRequests /\ Tally("requests")
  /\ job' = [job EXCEPT ![c] = [key |-> k, streaming |-> streaming]]
  /\ Goto(c, "match")
  /\ UNCHANGED <<cassette, server_vars, copy, loaded, failed, spliced>>

\* handle_request: a hit is served from the live set, in record-on-miss mode.
ServeLocally(c) ==
  /\ pc[c] = "match"
  /\ OnMiss /\ job[c].key \in live
  /\ Return(c)
  /\ UNCHANGED <<cassette, server_vars, copy, loaded, past_vars>>

ForwardUpstream(c) ==
  /\ pc[c] = "match"
  /\ ~(OnMiss /\ job[c].key \in live)
  /\ Goto(c, "upstream")
  /\ UNCHANGED <<cassette, server_vars, job, copy, loaded, past_vars>>

\* Nothing to record: a transport error, a status that is not 2xx, a stream
\* that broke off or outgrew its buffer, an answer with nothing to extract,
\* or an entry that would not load again (persist returns before the claim).
UpstreamUnrecordable(c) ==
  /\ pc[c] = "upstream"
  /\ Return(c)
  /\ UNCHANGED <<cassette, server_vars, copy, loaded, past_vars>>

UpstreamAnswers(c) ==
  /\ pc[c] = "upstream"
  /\ Goto(c, "claim")
  /\ UNCHANGED <<cassette, server_vars, job, copy, loaded, past_vars>>

(* Recorder::persist.                                                      *)

\* Mutant of Claim: the set is consulted, and filled only by the splice.
ClaimLate(c) ==
  /\ pc[c] = "claim"
  /\ Goto(c, IF job[c].key \in seen THEN "respond" ELSE "lock_io")
  /\ UNCHANGED <<cassette, server_vars, job, copy, loaded, past_vars>>

Claim(c) ==
  /\ pc[c] = "claim"
  /\ seen' = seen \cup {job[c].key}
  /\ Goto(c, IF job[c].key \in seen THEN "respond" ELSE "lock_io")
  /\ UNCHANGED <<cassette, live, cassette_io, job, copy, loaded, past_vars>>

\* Mutant of LockIo: appends are not serialized.
LockIoShared(c) ==
  /\ pc[c] = "lock_io"
  /\ cassette_io' = c
  /\ Goto(c, "append_read")
  /\ UNCHANGED <<cassette, live, seen, job, copy, loaded, past_vars>>

LockIo(c) ==
  /\ pc[c] = "lock_io"
  /\ cassette_io = None
  /\ cassette_io' = c
  /\ Goto(c, "append_read")
  /\ UNCHANGED <<cassette, live, seen, job, copy, loaded, past_vars>>

\* append_entry reads the whole file...
AppendRead(c) ==
  /\ pc[c] = "append_read"
  /\ copy' = [copy EXCEPT ![c] = cassette]
  /\ Goto(c, "append_write")
  /\ UNCHANGED <<cassette, server_vars, job, loaded, past_vars>>

\* ...and renames a longer one over it; the guard is dropped after it.
AppendWrite(c) ==
  /\ pc[c] = "append_write"
  /\ cassette' = Append(copy[c], job[c].key)
  /\ copy' = [copy EXCEPT ![c] = <<>>]
  /\ cassette_io' = None
  /\ Goto(c, "splice")
  /\ UNCHANGED <<live, seen, job, loaded, past_vars>>

\* Mutant of AppendFails: the early return leaves the lock taken.
AppendFailsLocked(c) ==
  /\ pc[c] = "append_write"
  /\ failed' = failed \cup {job[c].key}
  /\ copy' = [copy EXCEPT ![c] = <<>>]
  /\ Goto(c, "splice")
  /\ UNCHANGED <<cassette, server_vars, job, loaded, spliced, count>>

\* The error is logged, nothing more.
AppendFails(c) ==
  /\ pc[c] = "append_write"
  /\ failed' = failed \cup {job[c].key}
  /\ copy' = [copy EXCEPT ![c] = <<>>]
  /\ cassette_io' = None
  /\ Goto(c, "splice")
  /\ UNCHANGED <<cassette, live, seen, job, loaded, spliced, count>>

Splice(c) ==
  /\ pc[c] = "splice"
  /\ live' = live \cup {job[c].key}
  /\ spliced' = spliced \cup {job[c].key}
  /\ Goto(c, "respond")
  /\ UNCHANGED <<cassette, seen, cassette_io, job, copy, loaded, failed, count>>

\* forward_and_relay returns, or the tee task ends.
Respond(c) ==
  /\ pc[c] = "respond"
  /\ Return(c)
  /\ UNCHANGED <<cassette, server_vars, copy, loaded, past_vars>>

\* The client hangs up.  The future of a buffered answer is dropped where it
\* awaits: the upstream, or a cassette_io another request holds.  A tee task
\* is not its client's and drains the stream all the same (a client that goes
\* before the task is spawned leaves nothing behind: UpstreamUnrecordable).
ClientLeaves(c) ==
  /\ \/ pc[c] = "upstream"
     \/ pc[c] = "lock_io" /\ cassette_io # None
  /\ ~job[c].streaming
  /\ Return(c)
  /\ UNCHANGED <<cassette, server_vars, copy, loaded, past_vars>>

(* reload_and_swap, whatever triggered it: the cassette is read, and what   *)
(* was read is swapped in later.                                            *)

ReloadReads ==
  /\ loaded = None
  /\ count.reloads < MaxReloads /\ Tally("reloads")
  /\ loaded' = Range(cassette)
  /\ UNCHANGED <<cassette, server_vars, job_vars, failed, spliced>>

ReloadSwaps ==
  /\ loaded # None
  /\ live' = loaded
  /\ loaded' = None
  /\ UNCHANGED <<cassette, seen, cassette_io, job_vars, past_vars>>

\* The dedupe set of a new recorder: the triples that are recorded already.
seed_dedupe(entries) == Range(entries)

\* The process dies and is built again: the fixtures are loaded from disk and
\* the dedupe set is seeded from the recorded ones.
Restart ==
  /\ count.restarts < MaxRestarts /\ Tally("restarts")
  /\ live' = Range(cassette)
  /\ seen' = seed_dedupe(cassette)
  /\ cassette_io' = None
  /\ pc' = [c \in Clients |-> "idle"]
  /\ job' = [c \in Clients |-> NoJob]
  /\ copy' = [c \in Clients |-> <<>>]
  /\ loaded' = None
  /\ failed' = {} /\ spliced' = {}
  /\ UNCHANGED cassette

-----------------------------------------------------------------------------
Proceed(c) ==
  \/ ServeLocally(c) \/ ForwardUpstream(c) \/ Claim(c) \/ LockIo(c)
  \/ AppendRead(c) \/ AppendWrite(c) \/ AppendFails(c) \/ Splice(c) \/ Respond(c)

Next ==
  \/ \E c \in Clients :
       \/ \E k \in Keys, streaming \in BOOLEAN : Arrive(c, k, streaming)
       \/ Proceed(c) \/ UpstreamUnrecordable(c) \/ UpstreamAnswers(c)
       \/ ClientLeaves(c)
  \/ ReloadReads \/ ReloadSwaps
  \/ Restart

Spec == Init /\ [][Next]_vars

\* A task that can run is run, and tokio's Mutex serves its waiters in the
\* order they came, so one that waits for cassette_io is not passed over for
\* ever.  Nothing is assumed of the upstream.
FairSpec ==
  /\ Spec
  /\ \A c \in Clients : WF_vars(Proceed(c)) /\ SF_vars(LockIo(c))

-----------------------------------------------------------------------------
\* No triple is in the cassette twice: not when several requests miss on it
\* at once, not when its recording is requested again, not when a crash at
\* any step is followed by a new run (Recorder::persist and seed_dedupe).
NoDuplicateEntries ==
  \A i, j \in 1 .. Len(cassette) : cassette[i] = cassette[j] => i = j

\* The cassette only grows at its end: no append, however many run at once and
\* wherever the process is killed, loses or moves what an earlier one wrote.
AppendsKept == [][IsPrefix(cassette, cassette')]_cassette

\* What replays from a recording in this run replays in the next one as well,
\* unless its append was reported to have failed: the splice comes after the
\* write, whatever reloads do in between.
ReplayedIsDurable ==
  live \subseteq Range(cassette) \cup failed

\* An answer that is to be recorded is delivered in the end: no request and no
\* tee task waits for cassette_io for ever, also when appends fail, clients
\* leave while they wait for it, or the process is killed and started again.
RecordingEnds == \A c \in Clients : pc[c] = "claim" ~> pc[c] = "idle"

(* What the documentation says and the code does not always do.            *)

\* recorder.rs, persist, at its early return: "already recorded this
\* (provider, model, prompt) triple".  A triple that was claimed is in the
\* live set, or some request is about to put it there.
ClaimIsRecorded ==
  \A k \in seen :
    \/ k \in live
    \/ \E c \in Clients : job[c].key = k /\ pc[c] \in
         {"lock_io", "append_read", "append_write", "splice"}

\* docs/recording.md: "in record-on-miss mode a prompt recorded once replays
\* locally for the rest of the run - even before any reload" (once it is on
\* disk: one whose append failed goes with the first reload).
ReplaysForTheRun == spliced \ failed \subseteq live
=============================================================================
