# A verification model of llmposter

llmposter is a mock server for LLM APIs: tests point their client at it, and it
answers from fixtures, or forwards to the real provider and records the answer
as a new fixture. This directory holds TLA+ modules that model the parts of it
that are hard to test, the TLC configurations that check them on small
instances, and proofs, checked by TLAPS, of the properties that matter most for
every instance. Paths below are relative to the repository root, in which the
crate's code lies under `src/`.

    tlc -config Dispatch.cfg MCDispatch.tla      # a run: PROJECT.json lists all
    tlapm DispatchProofs.tla                     # the proofs of a module

## The system

| Component | State | Operations | What makes it correct |
|---|---|---|---|
| Fixture set and match rules (`server.rs` `FixtureSet`, `fixture.rs`) | list of fixtures, two index lists sorted by priority | builder methods, `validate`, `new`, `find_match`, `append_validated_fixture`, `set_fixtures` | selects the best match; splices and reloads do not take answers away; what passes `validate` has an answer; the explanation of a 404 is true |
| Request reading (`format/`, `handler/`) | none | `extract_request_info` of six endpoints, rejections | the rules see the message, the model and the provider that the client sent |
| Dispatch (`handler/mod.rs`, `handler/embeddings.rs`) | `fixtures` and `scenarios`, each under a `RwLock` | match, move the scenario, push the capture, reply | as if one request at a time; nobody waits for ever |
| Capture log and feed (`push_captured`) | `captured_requests` under a lock, an atomic counter, a broadcast channel | push with FIFO trimming, `reset` | bounded, in match order, nothing lost or sent twice |
| Debug page (`ui.rs`, `ui_assets`) | the page's rows, its receiver of the channel | fetch, subscribe, lag, reconnect, debug a request | a gap is announced, a request has one row; the debugger names the fixture that answers |
| Tokens (`auth.rs` `AuthState`) | remaining uses and deny-list under one `Mutex` | `add_token`, `check_and_use`, `validate`, `revoke` | exactly `max_uses` uses; a denied token is never unknown |
| Auth middleware (`bearer_auth_check`) | none of its own | check, introspect (await), pass or reject | the limit holds under concurrency, the OAuth server cannot undo it |
| Recorder (`record/recorder.rs`, `cassette.rs`, `respond.rs`) | dedupe set, cassette file and its lock, live set | forward, claim, append, splice, tee | no entry twice or lost, across crashes; what replays is durable |
| Hot reload (`server.rs`) | the events the watcher has not taken; what a reload has read; a `Weak` to the state | watcher thread, SIGHUP task, `reload_and_swap` | whole versions only, no change missed, both end with the server |
| Extraction and reassembly (`record/extract.rs`, `reassemble.rs`) | none | pure | a streamed answer is recorded whole or not at all |
| Relayed streams (`respond.rs`) | a channel of 32 chunks, the capture buffer | take, relay, reassemble, push | the client sees the truth, the recording does not depend on it |
| Streams (`stream_sse_frames`, `stream_json_array`, `chaos.rs`) | a channel of 32 frames, a deadline, the chaos plan | send, truncate, disconnect | the client sees a prefix, then the fault that was asked for |
| Replies, formats, templating | counters | pure | the right shape and status; what a format writes, the recorder reads back |
| Utility endpoints (`server.rs`) | none | `/code`, moderations, `add_response_headers` | the log has the status the client got; no default overwrites a header a fixture sets |
| Builder, CLI | configuration | `build` | no edit of a watched file is lost while it runs |

They interact through `AppState`. The auth middleware runs before a handler;
the handler reads the fixture set and writes the scenario map and the log; in a
recording mode it hands a request to the recorder, which later writes the file,
the fixture set and the log; the watcher and the SIGHUP task read the files and
replace the fixture set; the test calls `reset`, `set_fixtures` and the
accessors from its own threads. What is hard is in these meetings: two locks and
a counter that one request touches in three steps; an await between a check and
what depends on it; a file that is read, changed and written by several parties;
reads of several files that are not one snapshot; a process that may be killed
between any two writes. `PROJECT.json` lists the hazards line by line.

## Modules

| Module | Models | Composed with |
|---|---|---|
| `FixtureSet` | fixtures, the two sorted orders, `find_match`, the scenario step; no state | extended by `MatchRule`, `AtomicDispatch` and `Dispatch` |
| `RequestInfo` | what is read out of a request body and its headers; no state | extended by `MatchRule` and `Utility` |
| `MatchRule` | the tests of a match rule, in the three copies the code has of them; no state | extended by `Validation` |
| `Validation` | the builder methods and `validate`; no state | extended by `Routing` |
| `Utility` | `/code`, moderations, the response headers; no state | extended by `Routing` |
| `Routing` | from a request's body to its reply and log entry, as fixtures are built, reloaded and recorded | uses `FixtureSet` as `Dispatch` does, with requests for prompts |
| `TokenBudget` | the promise: a token has a number of uses left, is denied, or is unheard of | implemented by `TokenStore` |
| `TokenStore` | `AuthState`: every call is one step, as one `Mutex` guards both maps | extended by `AuthGate` |
| `AuthGate` | concurrent requests in `bearer_auth_check` over the token store | |
| `AtomicDispatch` | the promise: a request is matched, moves its scenario and enters the log in one step | implemented by `Dispatch` |
| `Dispatch` | concurrent requests, the locks, the three steps of `push_captured`, `reset`, `set_fixtures` | |
| `Recorder` | concurrent recordings, cassette, a reload, cancellation, failure, crash and restart | |
| `HotReload` | `build()`, the watcher's thread, the SIGHUP task, the drop of the server | its reload is `Recorder`'s, seen from the files |
| `LiveFeed` | the debug page on the feed of `push_captured` | its writers are `Dispatch`'s, without the locks |
| `ReplyStream` | the reply to a matched request, the chaos plan, both kinds of streams | follows `Dispatch` |
| `Formats` | the bodies and stream frames of the five endpoints; no state | extended by `Extraction` |
| `Extraction` | what the recorder takes out of bodies and finished streams; no state | extended by `StreamTee` |
| `StreamTee` | a stream that is recorded while it is relayed | refines one step of `Recorder`, informally |
| `MC*` | values for the constants | |
| `AuthGateProofs`, `DispatchProofs`, `RecorderProofs`, `HotReloadProofs`, `LiveFeedProofs`, `ReplyStreamProofs`, `StreamTeeProofs`, `RoutingProofs` | theorems and proofs | each extends the module it is named for; `AuthGateProofs` has `TokenStore`'s as well, which its own use |

**FixtureSet and Routing.** `FixtureSet` takes a match rule as the set of the
prompts it accepts: all tests of `fixture_matches` look at the request only,
except the provider and the scenario guard, which are modelled. `Routing` fills
that in: its "prompts" are the requests of the instance, and `Compiled` gives a
fixture the set of those that pass its rule. `Serve` is a request from the body
to the log entry, `Forward` and `Persist` the recording of one that missed,
`Reload` a `reload_and_swap` on the hand-written files and the cassette, `Call`
one builder method, `SetFixtures` the validation of what was built. One operation
is one step; how they interleave is the matter of `Dispatch` and `Recorder`.
`find_match` takes the first hit in the order `FixtureSet::new` sorted, and
`SelectsBest` says what that amounts to without mentioning orders. A recording's
prompt and model are written as plain strings and read back as substring tests:
`RecordedIsAnswered` says which recording then answers. Hand-written fixtures
win over recordings only by priority: a catch-all, or one with a priority below
-1, does not, so `OverrideWins` states the priority it needs. Since neither the
reading of a request nor the compilation of a fixture depends on the state, both
are tables (`Seen`, `LoadedFiles`, `Recorded`) that TLC evaluates once. Whether a
template renders is up to minijinja and the request: the constant `Renders`, in the
run a template that reads a key some requests lack. One that fails is a 500 after
200 has been captured (`handle_request` works the status out first), the exception
that `RepliesAsWritten` makes; the embeddings handler renders none.

**RequestInfo, MatchRule, Validation, Utility.** A JSON value is a record with a
kind, a text a sequence of words with gaps, a regular expression a finite table
of words, a JSONPath a list of keys; what does not compile is outside the table.
`rule_matches` is `fixture_matches`, `evaluate_fixture_fields` the copy that
explains a 404, `evaluate_fixture` the debugger's in `ui.rs`. They are written
out three times here as well, since `HintIsHonest` and `DebuggerAgrees` are about
whether they agree. They do where the debugger is given what the handler sees; it
gets no headers and reads the model from the body only, so `Simulated` excludes
rules that test the ones, and Gemini's models, which are in the path. `validate`
follows the order of the code's checks and is `None` for an `Err`. A header value is
one unless a word of it is `Unprintable`; an error that carried such a value would be
a 500 in either handler (`Sendable`), and only `validate` keeps it from a server.

**Dispatch.** A request's steps are the points where another thread can come in
between: both lock acquisitions, the selection, the insert into the scenario
map, the atomic increment, the push under the log's lock, the send, and the
release of both guards. Everything in the critical section is synchronous, so no
request is cancelled in it. `job[c].before` and the entry's `sets` are not in
the code: they keep what the selection read and what the match wrote, for the
refinement mapping. Captures that take no scenarios lock are `ArriveEarly` (400 and
401, which `capture_non_matched` leaves out where there is neither a log nor a page)
and `ArriveUtility` (`/code` and moderations, which push in any case). Record-on-miss leaves the critical section
without a push and captures when the upstream has answered. `handler/embeddings.rs`
repeats the critical section of `handle_request`; that the copy selects and moves
the same is `Routing!EmbeddingsMirrorsChat`.

**TokenStore and AuthGate.** `issued`, `granted` and `revoked` are history: what
the promise is about, not what the code keeps. In `AuthGate` the store's answer
is a step of its own and the introspection is two, with other requests in
between; the OAuth server may call any token active. A client may leave while
its request awaits, and only there: that is where axum drops the future.

**Recorder.** A key is a (provider, model, prompt) triple. `persist` is followed
statement by statement: claim, lock, read, write, splice. A buffered request can
be cancelled where it awaits (`upstream`, or `lock_io` while another holds the
lock); a tee task belongs to nobody and cannot. A reload reads the cassette and
swaps later. Renames are atomic, so `AppendWrite` is one step and a crash leaves
the old file or the new one. `Restart` is a crash at any point, followed by
`build()` and its `seed_dedupe`.

**HotReload.** `build()` is several steps - each source loaded, each source
registered with notify - with edits in between. A reload reads file after file
and then swaps; `Edit` may come at any point and raises an event if the file is
watched. The watcher's loop is `Upgrade`, then `RecvBatch` or `RecvTimeout`; the
SIGHUP task's is `Upgrade`, then `RecvSignal` or `Tick`. `Holds` tells when a
worker has an `Arc` to the state: the watcher while it reloads only, the SIGHUP
task from the top of its iteration to the end. The watcher's first test,
`weak.upgrade().is_none()`, drops its `Arc` at once and is part of one step.
`held`, `older`, `passed`, `stale` and `unheard` are history, for the three
exceptions that `QuietMeansFresh` makes because the code has them.

**LiveFeed.** The page loads its settings, fetches the log and then subscribes;
these are three steps, with captures, broadcasts and `reset()` in between. The
broadcast channel is tokio's: a receiver that is overtaken learns how many events
it missed, once. The page keeps no more rows than `capture_capacity` (1000
without one) and does not fetch again when it reconnects.

**ReplyStream.** The order of the tail of `handle_request` is that of its
actions; `captured` is what the head has written into the log. A frame is its
number. Every step of the sending task is a poll that looks at the deadline
first; between two polls time may pass, so a task is late but never early. A
channel is full, or its receiver gone, at any of them. The JSON array is one
handler that sleeps and collects, and dies with its client. What the generator
rolls is open, its range is not. A fixture is one that `validate` lets through
(error fixtures with headers that cannot be sent, or fixtures with no reply at
all, do not reach a server); `disconnect_after_ms` is at least 1. With a deadline
between its two clock reads, an array keeps the frame it has just buffered; after
a sleep it gives it back. `EndsAsPlanned` and `LateStreamsCut` hold of both.

**Formats, Extraction and StreamTee.** A text is a sequence of characters, an
argument object is a value with a text; of frames and bodies only what somebody
reads back is kept. The builders are those of `format/`, with what the handlers
of `handler/` put over them. `parse_sse` is modelled by what it finds in half a
stream: the whole frames, and a torn one that is no JSON. The buffer is always a
beginning of the stream, so it is a number of half frames. `Record` stands for
reassembly and `persist`; what happens in `persist` is `Recorder`'s. In
`Recorder` a streamed answer ends in `UpstreamAnswers` or `UpstreamUnrecordable`:
`StreamTee` says which.

## Runs

A run's properties and the question it answers are in `PROJECT.json`. Each
property of a passing run comes with a mutant of a definition, a plausible slip
in the code, under which TLC finds it violated.

| Run | Instance | Shows |
|---|---|---|
| `token_store` | 3 tokens, limits 0, 1, 2, none | `BudgetExact`, refinement `KeepsBudget` |
| `auth_gate` | 2 tokens, 3 clients, 4 requests, OAuth and page gate on | `ExactlyTheLimit`, `DeniedNeverIntrospected`, `NoEarlyRejection` |
| `dispatch` | 2 clients, 3 captures, log of 2, record-on-miss, one `reset` thread, two fixture sets | order, bound, completeness, `LogExplainsScenarios`, `RequestsFinish`, refinement `DispatchIsAtomic` |
| `recorder` | 2 clients, 2 keys, 3 requests, 1 crash, 1 SIGHUP, failing appends | `NoDuplicateEntries`, `AppendsKept`, `ReplayedIsDurable`, `RecordingEnds` |
| `reply_stream` | 80 fixtures: each other kind, streams of 2 or 3 frames with delays, jitter, truncation, disconnect and duplication combined; channel of 2 | `StatusAsCaptured`, `EndsAsPlanned`, `LateStreamsCut`, `StreamEnds` |
| `stream_tee` | 19 streams of 5 formats, chunks of 1 or 2 half frames, channel of 1, cap of 20 | `RecordedIsWhole`, `ReplaysTheSame`, `SalvageCompletes`, `ClientSeesTruth`, `TeeEnds` |
| `routing` | 20 requests of 8 endpoints, 20 files of up to 2 of 11 fixtures, 3 builder calls of 23, 2 recordings | `SelectsBest`, `OverrideWins`, `RecordedIsAnswered`, `SpliceKeepsAnswers`, `RepliesAsWritten`, `HintIsHonest`, `DebuggerAgrees`, `EmbeddingsMirrorsChat` |
| `hot_reload` | 2 files with 2 contents or broken, 3 edits, 1 signal, 1 connection | `QuietMeansFresh`, `SwapsWhatItRead`, `WorkersEnd` |
| `live_feed` | 2 writers, 4 captures, log and channel of 2, 1 event on the wire, 1 lost connection | `GapsAreAnnounced`, `RowsAreOnce`, `FeedCatchesUp` |
| `hot_reload_builder` | any reload | `BuilderFixturesStay` fails |
| `recorder_replay` | SIGHUP during a recording | `ReplaysForTheRun` fails |
| `recorder_claim` | a client that leaves at `cassette_io` | `ClaimIsRecorded` fails |

*Bounds.* In `dispatch` two clients let one hold the locks and the other wait,
take the path without locks or come back from the upstream, with `reset` or a
swap as a third party; three captures overflow a log of two. The proofs hold for
any number of clients. The scenario has two states,
so that a turn can be taken twice, lost, or undone by a catch-all. Two limits
above zero distinguish the last use from the one before it. Two clients and two
keys are enough for a race on one key with a third request that comes after it
(`MaxRequests` = 3). The fixtures of `routing` contain every test of a rule, and
for each some request that passes and one that fails it; two recordings suffice
for one to shadow the other. Two edits let a reload read one file before and the
other after, and its neighbour be edited behind its back; a third lets a file that
nothing watches break, refuse a reload, and be repaired; both files begin with one
of the contents (`MCFairSpec`), which are interchangeable. Four captures overtake a
channel of two, with one event sent before and one after. A channel of 2 (of 1 in `stream_tee`) is filled by the
shortest stream, so the sender is met blocked in every state of its client; the
latencies 0 to 2 and deadlines 1 to 3 put the deadline before, at and behind
every pause; and the cap of 20 half frames is exceeded by some of the streams and
met by others. The streams of `stream_tee` are those the server builds from a
text, a text with a reason of its own and two calls, and for each format but the
legacy completions one in the shapes of a real provider. Deadlock checking is off
where counters are bounded or a stream comes to its end; that nothing is stuck is
what `RequestsFinish`, `RecordingEnds`, `StreamEnds` and `TeeEnds` say.

*Fairness.* `Dispatch!FairSpec`: a thread that can take a step of its own takes
it, as nothing in the critical section waits for a client or an upstream; strong
fairness for the scenarios lock, which is contended. It is an assumption about
the implementation of `RwLock`, which queues writers, not a promise of its
documentation. `Recorder!FairSpec`: the same for the steps of a recording;
tokio's `Mutex` is documented to be fair, hence strong fairness for
`cassette_io`. `ReplyStream!FairSpec` and `StreamTee!FairSpec`: the runtime polls
a task that is ready, timers run, and a client that has not hung up goes on
reading (one that keeps its connection and never reads does stop both tasks when
the channel is full, also before the injected reset: nothing in the code bounds
that wait). `HotReload!Fairness`: a thread and a task that can run are run, both
waits of 500 ms end, and a reload comes to its end; the editor, the signals and
the clients are free. `LiveFeed!Spec`: the server's task is polled while the page
reads its connection. Nothing is assumed of upstreams, clients, appends or admins.

## Where the code departs from its documentation

The three last runs of the table. The first reload drops the fixtures added in
code, which `docs/library.md` (SIGHUP) says are untouched: `HotReload!SwapIn`
replaces the whole set. A reload that overlaps a recording can drop it from the
live set. A cancelled request leaves its dedupe claim, so that the prompt is
never recorded in that run. `PROJECT.json` quotes the lines, under "findings".

More are part of the models, without a run:

- Overlapping reloads can install the older read for good, as nothing orders the
  watcher's thread and the SIGHUP task; `HotReload` calls that `stale`, and
  `QuietMeansFresh` excepts it.
- A reload that meets a broken file is refused as a whole. If nothing watches that
  file, its repair raises no event, and what the refused reload had read of the
  other sources is not served until the next one: `unheard` in `HotReload`.
- The captured status of a fixture whose template fails to render is 200 although
  500 is returned, against the comment on `CapturedRequest::status_code`: the
  exception in `StatusAsCaptured` and `RepliesAsWritten`.
- Chat, legacy completions and embeddings are one provider, "openai", to the
  recorder. After a chat recording, an embedding of the same model and text is
  not recorded (`docs/recording.md` says single inputs "record normally"), and
  each is replayed for the other: `Routing!Key`, `Provider`.
- A recorded prompt answers later ones that contain it, before their own
  recordings: the minimum in `Routing!Replayed`.
- The embeddings handler ignores refusals: such a fixture yields a made-up vector.
- The SIGHUP task holds the state through its wait, so that the watcher may take
  one wait longer to end than the half second its comment names.
- The page's comment says that it holds no rows the server has dropped; after a
  `reset()` it does, and after a lost connection it misses what came meanwhile.

## Proofs

*TokenStore* (`AuthGateProofs`). `TypeOK`, `BudgetExact` and the refinement
`KeepsBudget`, for any tokens and limits. The inductive invariant adds a ledger:
it says of every token where it can be - with a limit, in the map with what is
left of it or on the deny-list - because `BudgetExact` alone says nothing of a
revoked token, which a later `check_and_use` must not bring back. Then one lemma
per operation, and for the refinement one lemma per operation that it issues,
denies or spends, or leaves the budget as it is. Assumptions: the two markers
are not numbers, and limits are natural numbers or unlimited.

*AuthGate* (`AuthGateProofs`). `ExactlyTheLimit`, `DeniedNeverIntrospected` and
`NoEarlyRejection`, for any tokens, any OAuth server and finitely many clients.
The invariant is the store's, with the books of those on their way: a client
between the check and its way out is counted by where it waits, so that what the
check takes from the token is what it adds to those let through. Most of the
proof is how one client's move changes these counts, which are cardinalities; that
is why the clients must be finitely many. `NoToken` must not be a token.

*Dispatch* (`DispatchProofs`). `TypeOK`, `CapacityRespected`,
`DispatchIdsOrdered`, `LogExplainsScenarios`, `FeedIsComplete` and the refinement
`DispatchIsAtomic`, for any clients, admins, fixtures, scenarios and capacity. The
inductive invariant has three parts besides the types. `LockDiscipline`: who owns
which lock is determined by the program counters, hence two requests are never
both between the selection and the release. `IdBooks`: ids drawn are below the
counter, those in the log and the feed were drawn, and a matched request that has
drawn its id has a greater one than all matched entries before it. `MoveBooks`:
what the request in the critical section knows (the map its selection read, the
fixture it found) agrees with the map, which is what carries the log's account of
the map over the step in which a request has moved the scenario and is not in the
log yet. Trimming keeps a suffix, and a suffix keeps the last move of every
scenario. `FeedIsComplete` takes one invariant more: every id below the counter is
with one request that has not broadcast it, or once in the feed; with no request
under way the feed is then a numbering of 0 .. n - 1, and has n elements. For the
refinement, the log AtomicDispatch sees is the matched part of the log, a
recursive function whose values are found by induction over sets of numbers
(`SetInduction`): trimming drops at most one of them, and the push of a matched
request is the one step that shows. All others are shown to leave the mapped
state as it is. The constants' assumptions are in `Dispatch`; they say that the
markers are not values, that fixture sets are well-formed and that bounds are
numbers.

*Recorder* (`RecorderProofs`). `NoDuplicateEntries`, `ReplayedIsDurable` and the
action property `AppendsKept`, for any clients, keys, crashes and reloads. No
entry is written twice because a key between its claim and its append is in `seen`,
not in the file, and carried by one client only (`ClaimsOpen`, `ClaimsDistinct`);
no append loses another because only the owner of `cassette_io` writes, and its
copy is still the file when it does (`LockExact`, `CopyFresh`). What is spliced or
read by a reload is in the file (`Backed`). A crash empties all of it at once.

*HotReload* (`HotReloadProofs`). `QuietMeansFresh` and the action property
`SwapsWhatItRead`, for any list of sources, contents, edits and signals. The first
needs to know for every source that it is served as it is on disk, or that this is
coming: an event waits, a watched file is broken and will raise one when it is
repaired, or a reload that runs has read it fresh or has not read it yet
(`ServedOrComing`). A swap can serve something older than another reload has read;
`ReadOrComing` says the same of what each reload has read, and `Stages` how far
each is. For the second, `ReadsHeld`: what was read was in the file since the
reload began. Assumptions: there is a source, a broken content is not a version,
the workers are two.

*LiveFeed* (`LiveFeedProofs`). `GapsAreAnnounced` and `RowsAreOnce`, for any number
of writers, captures and lost connections, and any sizes. `Placed` says of what the
page has heard and of what is on the wire that it accounts for the channel from the
page's subscription to its place, one event or a lag of many at a time; the total
of a list is again a recursive function met by induction over sets. `Split` says
that the rows are first of the log and then of the feed, `IdBooks` that an id is in
each at most once, so no request has three rows. The sizes are assumed to be
positive numbers.

*ReplyStream* (`ReplyStreamProofs`). `StatusAsCaptured`, `EndsAsPlanned` and
`LateStreamsCut`, for any fixtures, delays, size of the channel and pace of the
client. `EventFlow` and `ArrayFlow` say where each frame that was sent is: with the
client, or on its way, in order and without a gap; a reset only behind them. `Clock`
carries the third property: as long as the deadline has not come, the time that has
elapsed is at least the sum of the pauses slept, so a sender that has slept all of
them has met the deadline, and `Complete` (all frames sent) is only reached by one
whose pauses are shorter. It is an invariant about time that has passed although the
code only keeps what is left. The sum of the pauses (`Total`) is a recursive
function; `TotalsExist` and `SleptMore` find its values by induction over sets of
numbers. `EveryStream` unfolds the facts about frames and delays once for both
states of a step. Assumptions: the fixtures are of their type, the channel has room
for one frame, None is no number.

*StreamTee* (`StreamTeeProofs`). `ClientSeesTruth`, `SalvageCompletes` and
`RecordedIsWhole`, for any streams, any chunks, channel and cap. `Relayed`: what
the client received, what is in the channel and the chunk in hand lie in the
stream without a gap, as the marks between them tell. `Told`: a failure of the
upstream is in the channel until the client has it, so an orderly end means that
there was none. `Salvage`: a task within the cap has copied all that came, and
hands the copy over only when the upstream is at its end. `RecordedIsWhole`
(`TruncatedIsNotRecorded`) is about the buffer being a beginning of the stream,
cut after any half frame (`CutAt`): a beginning without the mark that completes
the format gives nothing, one with it is the whole stream, or, for Gemini and
Responses, has all that is read of it. Two facts about the data are hypotheses of
these theorems, and true of every stream of the run: a whole stream reassembles to
what `extract_for` takes from the body of the same answer, and its mark comes once
(`MarkedOnce`).

*Routing* (`RoutingProofs`). `SelectsBest`, `OverrideWins`, `RecordedIsAnswered`,
`RepliesAsWritten`, `EmbeddingsMirrorsChat`, `HintIsHonest`, `DebuggerAgrees` and
the action property `SpliceKeepsAnswers`, for any requests, files and builder
calls. `OrderSorts` is the lemma about `FixtureSet::new`: since a position has as
many before it as its place says, and two positions never the same number, the
order lists each position of a kind once and by priority (`FixtureSet` defines it
by these numbers, so that the prover can follow). Then a pass finds the first that
matches, `find_match` the first of all (`Leads`), and that one is the best. The
invariant `LiveBooks`: the live set is the sorted list of the files last loaded
and the recordings in the cassette, in this order, and all of it has passed
validation. From there, a recording has the lowest priority and matches what its
message and model occur in (`StoredIs`); what is served has exactly one outcome
(`ServedIsConclusive`); and a rule sees only the context of a request, which the
two handlers share. The theorems hold for any set of drafts (`Drafting`) that
contains what is written in files, what builder calls make of a new fixture, and
what becomes of a recording: such a set always exists, and only its members need
have integer priorities and an error with a status and headers. `TextsAssumption`
says of the requests that their message and model are sequences and the model is
not empty, which the code refuses; `NoneAssumption` that None is no value. Of
`Renders` nothing is assumed: `LogAgreesWithReply` holds for every renderer, with the
exception of a template that fails.

For the hint and the debugger the rules are taken apart: `evaluate_fixture_fields`
lists one result per test of a rule, and a rule matches if and only if all of them are
passed (`FieldsPass`, from `HeadersPass` to `GuardsPass`). The loop over the fixtures
is a recursive function; `NearestIsLast` finds its values by induction over sets of
numbers, and `NearestIsHonest` that the last one is the best of those before it. The
debugger evaluates the fixtures in the order of `find_match`'s two passes, one check
per test again (`ChecksPass`), and the first of its list that passes is the one the handler
finds (`DebuggerFindsFirst`). These two theorems ask of the drafts also that their
rules have the fields of a rule, with finitely many headers and metadata keys
(`RuleShapes`).

*Only model-checked*: all liveness (`RequestsFinish`, `RecordingEnds`,
`StreamEnds`, `TeeEnds`, `WorkersEnd`, `FeedCatchesUp`), which the prover does not
do. `ReplaysTheSame` of `StreamTee`, and with it that a whole stream says what the
body says: what `chunk_content`, `FlattenSeq` and `SelectSeq` make of a list of
frames or parts takes induction over data, and the prover cannot expand `SelectSeq`.

## Not modelled

The wording of bodies and error messages, ids and token counts, the arithmetic of
the chaos generator, template rendering, the CLI and the builder's options: data
without behaviour over time. The parsing of YAML: a file is a list of fixtures,
or broken. Redaction, a substitution in texts. The vectors of embeddings. The
constant bodies of `/health` and `/v1/models`, the list of fixtures of the debug
page. Poisoned locks (the code takes them over, and nothing in the sections
panics). A regular expression or JSONPath that is changed in a fixture after
`validate` has compiled it. A source that is a single file and is replaced by a
rename, where the notification library decides whether the watch survives.

## Plan

Modelled, in the order in which it mattered: the fixture set, dispatch and
capture log, tokens and their middleware, recorder; replies and streams; then the
reading and matching of requests, validation, hot reload and the debug page.
Next:

1. That `StreamTee` implements the step `Recorder` takes for it, as a refinement.
2. The frames of embeddings and of refusals in `Formats`.
