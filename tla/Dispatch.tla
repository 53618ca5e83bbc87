------------------------------ MODULE Dispatch ------------------------------
(***************************************************************************)
(* Concurrent requests from arrival to the capture log (handler/mod.rs     *)
(* handle_request, handler/embeddings.rs and push_captured), with the two  *)
(* calls of the test API that race with them: reset() and set_fixtures().  *)
(*                                                                         *)
(* A request that parses takes the fixtures read lock, then the scenarios  *)
(* write lock; under both it selects a fixture, moves the fixture's        *)
(* scenario and pushes its entry.  A push is three steps: the id is drawn  *)
(* from an atomic counter, the entry is stored under the log's own lock,   *)
(* and the event is broadcast after that lock is gone.  Requests refused   *)
(* before matching, and recorded ones, push without the scenarios lock.    *)
(***************************************************************************)
EXTENDS FixtureSet

CONSTANTS Clients,      \* connections, one request at a time on each
          Admins,       \* threads of the test that call reset()
          Requests,     \* the well-formed requests clients send
          FixtureSets,  \* the sets that set_fixtures may install
          InitialState, \* the empty string: a scenario with no entry
          Capacity,     \* capture_capacity, or Unbounded
          Unbounded,
          UiEnabled,    \* ui_tx is Some: captures are broadcast to /ui/events
          RecordOnMiss, \* a miss is forwarded upstream instead of a 404
          UpstreamStatuses,
          MaxCaptures   \* bound: the requests of a run

ASSUME CapacityAssumption == Capacity \in Nat \/ Capacity = Unbounded
ASSUME UnboundedAssumption == Unbounded \notin Nat
ASSUME NoneAssumption ==
  None \notin Scenarios \cup States \cup Fixture \cup Requests \cup Clients
ASSUME InitialAssumption == InitialState \in States
ASSUME RequestsAssumption == Requests \subseteq Request
ASSUME FixtureSetsAssumption == \A S \in FixtureSets : WellFormed(S)
ASSUME RecordAssumption ==
  RecordOnMiss \in BOOLEAN /\ UiEnabled \in BOOLEAN /\ UpstreamStatuses \subseteq Nat
ASSUME MaxAssumption == MaxCaptures \in Nat

VARIABLES
  fixtures,         \* AppState.fixtures: the value under its RwLock
  fixtures_readers, \* who holds the read side of that lock
  scenarios,        \* AppState.scenarios: the map under its RwLock
  scenarios_writer, \* who holds the write side of that lock, or None
  captured,         \* AppState.captured_requests
  capture_counter,  \* AppState.capture_counter
  ui_feed,          \* the events sent on AppState.ui_tx, in order
  pc,               \* where each client's request is
  job,              \* the locals of each client's handler, NoJob when idle
  resetting         \* admins between the two statements of reset()

state_vars  == <<fixtures, fixtures_readers, scenarios, scenarios_writer>>
log_vars    == <<captured, capture_counter, ui_feed>>
client_vars == <<pc, job>>
vars        == <<state_vars, log_vars, client_vars, resetting>>

-----------------------------------------------------------------------------
(* Outcomes: the two that come from the matcher, and the rest with the     *)
(* status RequestOutcome::default_status gives them (the /code endpoint    *)
(* pushes the status it echoes; 200 stands for it).                        *)

Dispatched == {"matched", "no_match"}
default_status == [ bad_request |-> 400, auth_rejected |-> 401,
                    code_endpoint |-> 200, moderation |-> 200 ]
Early == DOMAIN default_status
Outcomes == Dispatched \cup Early \cup {"recorded"}

\* `sets` is not in the code's entry: it keeps what the entry's match wrote
\* into the scenario map, None if it wrote nothing.
Entry ==
  { e \in [ id : Nat, outcome : Outcomes, scenario : Scenarios \cup {None},
            sets : States \cup {None}, status : Nat ] :
      e.scenario = None => e.sets = None }

EntryOf(outcome, scenario, sets, status) ==
  [ id |-> 0, outcome |-> outcome, scenario |-> scenario, sets |-> sets,
    status |-> status ]

NoEntry == EntryOf("no_match", None, None, 404)

MatchEntry(f, r) ==
  IF f = None THEN NoEntry
  ELSE EntryOf("matched", f.scenario, f.set_state, FixtureStatus(f, r))

\* Mutant of Trim: the trimming stops one entry late.
TrimLate(log) ==
  IF Capacity = Unbounded \/ Len(log) <= Capacity
  THEN log
  ELSE SubSeq(log, Len(log) - Capacity + 1, Len(log))

\* FIFO trimming: the oldest entries leave until there is room for one.
Trim(log) ==
  IF Capacity = Unbounded \/ Len(log) < Capacity
  THEN log
  ELSE SubSeq(log, Len(log) - Capacity + 2, Len(log))

Locations == { "idle", "read_fixtures", "write_scenarios", "find", "set_state",
               "reserve", "store", "broadcast", "unlock", "hand_over", "upstream" }

NoStates == [n \in Scenarios |-> InitialState]

\* The locals that later steps read; `before` is history, the scenario map
\* that the selection read.
NoJob == [ request |-> None, found |-> None, entry |-> NoEntry, before |-> NoStates ]

\* The client's handler goes on at loc with the locals j.
Goto(c, loc, j) ==
  /\ pc' = [pc EXCEPT ![c] = loc]
  /\ job' = [job EXCEPT ![c] = IF loc = "idle" THEN NoJob ELSE j]

\* Inside the critical section of handle_request.
Critical(c) == c \in fixtures_readers

-----------------------------------------------------------------------------
Init ==
  /\ fixtures \in FixtureSets
  /\ fixtures_readers = {}
  /\ scenarios = NoStates
  /\ scenarios_writer = None
  /\ captured = <<>>
  /\ capture_counter = 0
  /\ ui_feed = <<>>
  /\ pc = [c \in Clients |-> "idle"]
  /\ job = [c \in Clients |-> NoJob]
  /\ resetting = {}

(* Arrivals.  The bound counts the ids drawn and those still to be drawn.  *)

MayArrive ==
  capture_counter + Cardinality({ c \in Clients : pc[c] # "idle" }) < MaxCaptures

\* handle_request: the body parsed and its fields were extracted.
Arrive(c, r) ==
  /\ pc[c] = "idle" /\ MayArrive
  /\ Goto(c, "read_fixtures", [NoJob EXCEPT !.request = r])
  /\ UNCHANGED <<state_vars, log_vars, resetting>>

\* What is captured without a match, with the status of its outcome.
ArriveUnmatched(c, outcome) ==
  /\ pc[c] = "idle" /\ MayArrive
  /\ Goto(c, "reserve", [NoJob EXCEPT !.entry =
                 EntryOf(outcome, None, None, default_status[outcome])])
  /\ UNCHANGED <<state_vars, log_vars, resetting>>

\* capture_non_matched: refused before matching (bad JSON, missing fields, a
\* stream flag that is no boolean, a bad token).  Nothing is pushed where
\* neither log nor feed would show it.
ArriveEarly(c, outcome) ==
  /\ outcome \in {"bad_request", "auth_rejected"}
  /\ Capacity # 0 \/ UiEnabled
  /\ ArriveUnmatched(c, outcome)

\* handle_moderations and handle_status_code push in any case, the latter its
\* 400 for a code that is none as well.
ArriveUtility(c, outcome) ==
  /\ outcome \in {"code_endpoint", "moderation", "bad_request"}
  /\ ArriveUnmatched(c, outcome)

(* The critical section of handle_request.                                 *)

ReadLockFixtures(c) ==
  /\ pc[c] = "read_fixtures"
  /\ fixtures_readers' = fixtures_readers \cup {c}
  /\ Goto(c, "write_scenarios", job[c])
  /\ UNCHANGED <<fixtures, scenarios, scenarios_writer, log_vars, resetting>>

\* Mutant of WriteLockScenarios: the map is only read-locked.
ShareLockScenarios(c) ==
  /\ pc[c] = "write_scenarios"
  /\ scenarios_writer' = c
  /\ Goto(c, "find", job[c])
  /\ UNCHANGED <<fixtures, fixtures_readers, scenarios, log_vars, resetting>>

WriteLockScenarios(c) ==
  /\ pc[c] = "write_scenarios"
  /\ scenarios_writer = None
  /\ scenarios_writer' = c
  /\ Goto(c, "find", job[c])
  /\ UNCHANGED <<fixtures, fixtures_readers, scenarios, log_vars, resetting>>

Choice(c) == find_match(fixtures, job[c].request, scenarios)

FindMatch(c) ==
  /\ pc[c] = "find"
  /\ Goto(c, "set_state", [job[c] EXCEPT !.found = Choice(c), !.before = scenarios])
  /\ UNCHANGED <<state_vars, log_vars, resetting>>

\* Where the request goes once its scenario has moved: to the push, unless
\* it missed and the recorder takes over.
AfterSelect(c) ==
  IF job[c].found = None /\ RecordOnMiss THEN "hand_over" ELSE "reserve"

Selected(c) ==
  [NoJob EXCEPT !.entry = MatchEntry(job[c].found, job[c].request),
                !.before = job[c].before]

\* Mutant of SetState: both guards are dropped before the entry is pushed.
SetStateAndUnlock(c) ==
  /\ pc[c] = "set_state"
  /\ scenarios' = Advance(scenarios, job[c].found)
  /\ fixtures_readers' = fixtures_readers \ {c}
  /\ scenarios_writer' = None
  /\ Goto(c, IF AfterSelect(c) = "hand_over" THEN "upstream" ELSE "reserve", Selected(c))
  /\ UNCHANGED <<fixtures, log_vars, resetting>>

SetState(c) ==
  /\ pc[c] = "set_state"
  /\ scenarios' = Advance(scenarios, job[c].found)
  /\ Goto(c, AfterSelect(c), Selected(c))
  /\ UNCHANGED <<fixtures, fixtures_readers, scenarios_writer, log_vars, resetting>>

\* Mutant of Unlock: the scenarios guard outlives the request.
UnlockFixturesOnly(c) ==
  /\ pc[c] \in {"unlock", "hand_over"}
  /\ fixtures_readers' = fixtures_readers \ {c}
  /\ Goto(c, IF pc[c] = "hand_over" THEN "upstream" ELSE "idle", NoJob)
  /\ UNCHANGED <<fixtures, scenarios, scenarios_writer, log_vars, resetting>>

\* Both guards are dropped; the reply reads none of this state.
Unlock(c) ==
  /\ pc[c] \in {"unlock", "hand_over"}
  /\ fixtures_readers' = fixtures_readers \ {c}
  /\ scenarios_writer' = None
  /\ Goto(c, IF pc[c] = "hand_over" THEN "upstream" ELSE "idle", NoJob)
  /\ UNCHANGED <<fixtures, scenarios, log_vars, resetting>>

(* record_and_respond, as far as the log sees it: the answer of the        *)
(* upstream is captured when it ends, unless the client left before.       *)

UpstreamAnswers(c, status) ==
  /\ pc[c] = "upstream"
  /\ Goto(c, "reserve", [NoJob EXCEPT !.entry =
                 EntryOf("recorded", None, None, status)])
  /\ UNCHANGED <<state_vars, log_vars, resetting>>

ClientLeaves(c) ==
  /\ pc[c] = "upstream"
  /\ Goto(c, "idle", NoJob)
  /\ UNCHANGED <<state_vars, log_vars, resetting>>

(* push_captured.                                                          *)

AfterPush(c) == IF Critical(c) THEN "unlock" ELSE "idle"
AfterStore(c) == IF UiEnabled THEN "broadcast" ELSE AfterPush(c)
AfterReserve(c) == IF Capacity = 0 THEN AfterStore(c) ELSE "store"

\* Mutant of ReserveId: an entry is numbered by its place in the log.
ReserveByLength(c) ==
  /\ pc[c] = "reserve"
  /\ capture_counter' = capture_counter + 1
  /\ Goto(c, AfterReserve(c), [job[c] EXCEPT !.entry.id = Len(captured)])
  /\ UNCHANGED <<state_vars, captured, ui_feed, resetting>>

ReserveId(c) ==
  /\ pc[c] = "reserve"
  /\ capture_counter' = capture_counter + 1
  /\ Goto(c, AfterReserve(c), [job[c] EXCEPT !.entry.id = capture_counter])
  /\ UNCHANGED <<state_vars, captured, ui_feed, resetting>>

Store(c) ==
  /\ pc[c] = "store"
  /\ captured' = Append(Trim(captured), job[c].entry)
  /\ Goto(c, AfterStore(c), job[c])
  /\ UNCHANGED <<state_vars, capture_counter, ui_feed, resetting>>

Broadcast(c) ==
  /\ pc[c] = "broadcast"
  /\ ui_feed' = Append(ui_feed, job[c].entry)
  /\ Goto(c, AfterPush(c), job[c])
  /\ UNCHANGED <<state_vars, captured, capture_counter, resetting>>

(* The test API.                                                           *)

\* Mutant of ResetScenarios: it does not wait for the lock.
ResetScenariosUnlocked(a) ==
  /\ a \notin resetting
  /\ scenarios' = NoStates
  /\ resetting' = resetting \cup {a}
  /\ UNCHANGED <<fixtures, fixtures_readers, scenarios_writer, log_vars, client_vars>>

\* MockServer::reset, first statement: waits for the scenarios lock.
ResetScenarios(a) ==
  /\ a \notin resetting
  /\ scenarios_writer = None
  /\ scenarios' = NoStates
  /\ resetting' = resetting \cup {a}
  /\ UNCHANGED <<fixtures, fixtures_readers, scenarios_writer, log_vars, client_vars>>

\* MockServer::reset, second statement.
ResetCaptured(a) ==
  /\ a \in resetting
  /\ captured' = <<>>
  /\ resetting' = resetting \ {a}
  /\ UNCHANGED <<state_vars, capture_counter, ui_feed, client_vars>>

\* swap_fixtures_unchecked: set_fixtures, a reload; scenarios are kept.
SwapFixtures(S) ==
  /\ fixtures_readers = {}
  /\ fixtures' = S
  /\ UNCHANGED <<fixtures_readers, scenarios, scenarios_writer, log_vars,
                 client_vars, resetting>>

-----------------------------------------------------------------------------
\* The steps a client's request takes by itself once it has arrived.
Serve(c) ==
  \/ ReadLockFixtures(c) \/ WriteLockScenarios(c) \/ FindMatch(c)
  \/ SetState(c) \/ ReserveId(c) \/ Store(c) \/ Broadcast(c) \/ Unlock(c)

Next ==
  \/ \E c \in Clients :
       \/ \E r \in Requests : Arrive(c, r)
       \/ \E outcome \in Early : ArriveEarly(c, outcome) \/ ArriveUtility(c, outcome)
       \/ Serve(c)
       \/ \E status \in UpstreamStatuses : UpstreamAnswers(c, status)
       \/ ClientLeaves(c)
  \/ \E a \in Admins : ResetScenarios(a) \/ ResetCaptured(a)
  \/ \E S \in FixtureSets : SwapFixtures(S)

Spec == Init /\ [][Next]_vars

\* A thread that can run does: no step of Serve waits on a client or on the
\* upstream.  Strong fairness for the scenarios lock: its release wakes the
\* waiters, and a newcomer reads a whole request off its socket before it
\* competes with them, so that it cannot overtake the same waiter for ever.
FairSpec ==
  /\ Spec
  /\ \A c \in Clients : WF_vars(Serve(c)) /\ SF_vars(WriteLockScenarios(c))

-----------------------------------------------------------------------------
Job == [ request : Requests \cup {None},
         found : Fixture \cup {None},
         entry : Entry,
         before : [Scenarios -> States] ]

TypeOK ==
  /\ fixtures \in FixtureSets
  /\ fixtures_readers \subseteq Clients
  /\ scenarios \in [Scenarios -> States]
  /\ scenarios_writer \in Clients \cup {None}
  /\ captured \in Seq(Entry)
  /\ capture_counter \in Nat
  /\ ui_feed \in Seq(Entry)
  /\ pc \in [Clients -> Locations]
  /\ job \in [Clients -> Job]
  /\ resetting \subseteq Admins

\* The request that has moved its scenario and is not in the log yet.  Until
\* it is, others may take the map to be what its selection read.
Pushing(c) == scenarios_writer = c /\ pc[c] \in {"reserve", "store"}

SettledScenarios ==
  IF \E c \in Clients : Pushing(c) THEN job[scenarios_writer].before ELSE scenarios

IsDispatched(e) == e.outcome \in Dispatched

\* The log never holds more than capture_capacity entries, however many
\* requests trim and push at the same time (push_captured).
CapacityRespected == Capacity # Unbounded => Len(captured) <= Capacity

\* Entries of matched and unmatched requests carry increasing ids, in the log
\* and in the feed alike: their order is the order they were matched in, in
\* get_requests() as on the page (the push inside the scenarios lock).
DispatchIdsOrdered ==
  \A log \in {captured, ui_feed} :
    \A i, j \in DOMAIN log :
      i < j /\ IsDispatched(log[i]) /\ IsDispatched(log[j]) => log[i].id < log[j].id

\* When no request is under way, each id drawn was broadcast exactly once, in
\* spite of resets and evictions (push_captured).
FeedIsComplete ==
  UiEnabled /\ (\A c \in Clients : pc[c] \in {"idle", "upstream"}) =>
    /\ Len(ui_feed) = capture_counter
    /\ { ui_feed[i].id : i \in DOMAIN ui_feed } = 0..capture_counter - 1

\* The log explains the scenario map: the last entry in the log that moved a
\* scenario left it in the state it is in.  A reset that races with requests
\* may lose entries of moves that count, never leave the entry of a move it
\* has undone (MockServer::reset clears the scenarios first; only between
\* its two statements does the log hold such entries).
LogExplainsScenarios ==
  resetting = {} =>
    \A i \in DOMAIN captured :
      LET e == captured[i]
          Later(j) == captured[j].sets # None /\ captured[j].scenario = e.scenario
      IN  e.sets # None /\ (\A j \in i + 1 .. Len(captured) : ~Later(j))
            => SettledScenarios[e.scenario] = e.sets

\* What a log shows of the dispatched requests: their entries without the ids.
AsShown(e) == [ outcome |-> e.outcome, scenario |-> e.scenario,
                sets |-> e.sets, status |-> e.status ]

DispatchedIn(log) ==
  LET shown[n \in 0 .. Len(log)] ==
        IF n = 0 THEN <<>>
        ELSE IF IsDispatched(log[n]) THEN Append(shown[n - 1], AsShown(log[n]))
        ELSE shown[n - 1]
  IN  shown[Len(log)]

\* Requests are dispatched one at a time: every behaviour is one of
\* AtomicDispatch, where a request is matched against the live fixtures,
\* moves its scenario and enters the log in a single step (handle_request
\* holds both locks from the selection to the push).
Atomic == INSTANCE AtomicDispatch WITH
  scenarios <- SettledScenarios,
  log <- DispatchedIn(captured)

DispatchIsAtomic == Atomic!Spec

\* A request that has arrived, or whose upstream has answered, is answered:
\* the locks it waits for are always released (handle_request's two guards
\* and push_captured's, nested in that order).
RequestsFinish ==
  \A c \in Clients :
    pc[c] \notin {"idle", "upstream"} ~> pc[c] \in {"idle", "upstream"}
=============================================================================
