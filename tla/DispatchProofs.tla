--------------------------- MODULE DispatchProofs ---------------------------
(***************************************************************************)
(* Concurrent dispatch for any number of clients and admins, any requests, *)
(* fixture sets and capacity: the types, the discipline of the two locks,  *)
(* and from it the order of the ids, the agreement of log and scenarios,   *)
(* the completeness of the feed, and that dispatch appears atomic.         *)
(***************************************************************************)
EXTENDS Dispatch, WellFoundedInduction, SequenceTheorems, FiniteSetTheorems, TLAPS

-----------------------------------------------------------------------------
(* The operators the model is built from.                                  *)

\* The least of some numbers is one of them.
LEMMA MinIsMember ==
  ASSUME NEW S \in SUBSET Nat, S # {}
  PROVE  Min(S) \in S
  <1> DEFINE Less == { ss \in Nat \X Nat : ss[1] < ss[2] }
  <1>1. IsWellFoundedOn(Less, Nat)
    BY NatLessThanWellFounded DEF OpToRel
  <1>2. PICK x \in S : \A y \in S : ~(<<y, x>> \in Less)
    <2> HIDE DEF Less
    <2> QED
      BY <1>1, WFMin
  <1>3. ASSUME NEW y \in S
        PROVE  x <= y
    <2>1. x \in Nat /\ y \in Nat /\ <<y, x>> \notin Less
      BY <1>2
    <2>2. ~(y < x)
      BY <2>1
    <2> QED
      BY <2>1, <2>2
  <1> QED
    BY <1>3 DEF Min

\* The first hit in an order of the positions of a list is in the list.
LEMMA FirstIsFixture ==
  ASSUME NEW fs \in Seq(Fixture), NEW order \in Seq(DOMAIN fs),
         NEW hits \in SUBSET (DOMAIN order), hits # {}
  PROVE  fs[order[Min(hits)]] \in Fixture
  <1>1. Min(hits) \in DOMAIN order
    BY MinIsMember
  <1> HIDE DEF Fixture
  <1> QED
    BY <1>1

\* A set of the server chooses one of its own fixtures, or none.
LEMMA ChoiceIsFixture ==
  ASSUME NEW c, WellFormed(fixtures)
  PROVE  Choice(c) \in Fixture \cup {None}
  <1> DEFINE fs == fixtures.fixtures
             Hits(order) == { k \in DOMAIN order :
                 fixture_matches(fs[order[k]], job[c].request, scenarios) }
             First(order) == IF Hits(order) = {} THEN None ELSE fs[order[Min(Hits(order))]]
             first == First(fixtures.primary_order)
             second == First(fixtures.catch_all_order)
  <1>1. ASSUME NEW order \in Seq(DOMAIN fs)
        PROVE  First(order) \in Fixture \cup {None}
    <2>1. Hits(order) \in SUBSET (DOMAIN order)
      OBVIOUS
    <2>2. fs \in Seq(Fixture)
      BY DEF WellFormed
    <2> HIDE DEF fs, Hits
    <2> QED
      BY <2>1, <2>2, FirstIsFixture
  <1>2. first \in Fixture \cup {None} /\ second \in Fixture \cup {None}
    <2> HIDE DEF First
    <2> QED
      BY <1>1 DEF WellFormed
  <1>3. Choice(c) = IF first # None THEN first ELSE second
    BY DEF Choice, find_match, FirstIn
  <1> HIDE DEF first, second
  <1> QED
    BY <1>2, <1>3

\* A client without a request has a job of the right type.
LEMMA NoJobIsJob == NoJob \in Job
  <1>1. NoEntry \in Entry
    BY DEF NoEntry, EntryOf, Entry, Outcomes, Dispatched
  <1>2. NoStates \in [Scenarios -> States]
    BY InitialAssumption DEF NoStates
  <1> HIDE DEF Entry
  <1> QED
    BY <1>1, <1>2 DEF NoJob, Job

\* The entry of a match or a miss is an entry, of one of those two outcomes.
LEMMA MatchEntryIsEntry ==
  ASSUME NEW f \in Fixture \cup {None}, NEW r
  PROVE  MatchEntry(f, r) \in Entry /\ IsDispatched(MatchEntry(f, r))
  <1>1. CASE f = None
    BY <1>1 DEF MatchEntry, NoEntry, EntryOf, Entry, Outcomes, Dispatched, IsDispatched
  <1>2. CASE f \in Fixture /\ f # None
    <2>1. /\ f.scenario \in Scenarios \cup {None}
          /\ f.set_state \in States \cup {None}
          /\ f.scenario = None => f.set_state = None
          /\ f.error \in Nat \cup {None}
      BY <1>2 DEF Fixture
    <2>2. FixtureStatus(f, r) \in Nat
      BY <2>1 DEF FixtureStatus
    <2>3. MatchEntry(f, r) = EntryOf("matched", f.scenario, f.set_state, FixtureStatus(f, r))
      BY <1>2 DEF MatchEntry
    <2> HIDE DEF MatchEntry, FixtureStatus
    <2> QED
      BY <2>1, <2>2, <2>3 DEF EntryOf, Entry, Outcomes, Dispatched, IsDispatched
  <1> QED
    BY <1>1, <1>2

IsSuffixFrom(k, short, long) ==
  /\ Len(short) = Len(long) - k
  /\ \A i \in 1 .. Len(long) - k : short[i] = long[i + k]

\* Trimming drops a prefix and leaves room for one entry.
LEMMA TrimDropsPrefix ==
  ASSUME NEW log \in Seq(Entry)
  PROVE  /\ Trim(log) \in Seq(Entry)
         /\ Capacity \in Nat \ {0} => Len(Trim(log)) < Capacity
         /\ \E k \in 0 .. Len(log) : IsSuffixFrom(k, Trim(log), log)
  <1>1. CASE Capacity = Unbounded \/ Len(log) < Capacity
    <2>1. Trim(log) = log
      BY <1>1 DEF Trim
    <2>2. IsSuffixFrom(0, Trim(log), log)
      BY <2>1 DEF IsSuffixFrom
    <2> QED
      BY <1>1, <2>1, <2>2, UnboundedAssumption
  <1>2. CASE Capacity \in Nat /\ Len(log) >= Capacity
    <2> DEFINE k == Len(log) - Capacity + 1
    <2>1. Trim(log) = SubSeq(log, Len(log) - Capacity + 2, Len(log))
      BY <1>2, UnboundedAssumption DEF Trim
    <2>2. CASE Capacity = 0
      <3>1. Trim(log) = <<>>
        BY <2>1, <2>2, SubSeqEmpty
      <3>2. IsSuffixFrom(Len(log), Trim(log), log)
        BY <3>1 DEF IsSuffixFrom
      <3> QED
        BY <2>2, <3>1, <3>2
    <2>3. CASE Capacity # 0
      <3>1. \A i \in Len(log) - Capacity + 2 .. Len(log) : log[i] \in Entry
        BY <1>2, <2>3
      <3>2. /\ Trim(log) \in Seq(Entry)
            /\ Len(Trim(log)) = Capacity - 1
            /\ \A i \in 1 .. Capacity - 1 :
                 Trim(log)[i] = log[Len(log) - Capacity + 2 + i - 1]
        BY <1>2, <2>1, <2>3, <3>1, SubSeqProperties
      <3>3. k \in 0 .. Len(log) /\ IsSuffixFrom(k, Trim(log), log)
        BY <1>2, <2>3, <3>2 DEF IsSuffixFrom
      <3> HIDE DEF k
      <3> QED
        BY <1>2, <3>2, <3>3
    <2> QED
      BY <2>2, <2>3
  <1>3. Len(log) \in Nat
    OBVIOUS
  <1>4. \/ Capacity = Unbounded \/ Len(log) < Capacity
        \/ Capacity \in Nat /\ Len(log) >= Capacity
    BY <1>3, CapacityAssumption
  <1> QED
    BY <1>1, <1>2, <1>4

-----------------------------------------------------------------------------
(* Types.                                                                  *)

\* Goto keeps the types of the places and jobs.
LEMMA GotoKeepsTypes ==
  ASSUME TypeOK, NEW c \in Clients, NEW loc \in Locations, NEW j \in Job,
         Goto(c, loc, j)
  PROVE  pc' \in [Clients -> Locations] /\ job' \in [Clients -> Job]
  <1> HIDE DEF Job, NoJob
  <1> QED
    BY NoJobIsJob DEF TypeOK, Goto

\* The types hold at the start.
LEMMA InitTypes == Init => TypeOK
  <1> SUFFICES ASSUME Init PROVE TypeOK
    OBVIOUS
  <1>1. job \in [Clients -> Job]
    BY NoJobIsJob DEF Init
  <1> QED
    BY <1>1, InitialAssumption DEF Init, TypeOK, NoStates, Locations

\* Every step keeps the types.
LEMMA StepTypes == TypeOK /\ [Next]_vars => TypeOK'
  <1> SUFFICES ASSUME TypeOK, [Next]_vars PROVE TypeOK'
    OBVIOUS
  <1> USE DEF state_vars, log_vars, client_vars
  <1>0. /\ \A c \in Clients : job[c] \in Job
        /\ NoJob \in Job
    BY NoJobIsJob DEF TypeOK
  <1>1. ASSUME NEW c \in Clients, NEW r \in Requests, Arrive(c, r)
        PROVE  TypeOK'
    <2>1. [NoJob EXCEPT !.request = r] \in Job
      BY <1>0 DEF Job
    <2>2. "read_fixtures" \in Locations
      BY DEF Locations
    <2>3. pc' \in [Clients -> Locations] /\ job' \in [Clients -> Job]
      BY <1>1, <2>1, <2>2, GotoKeepsTypes DEF Arrive
    <2> QED
      BY <1>1, <2>3 DEF Arrive, TypeOK
  <1>2. ASSUME NEW c \in Clients, NEW outcome \in Early, ArriveUnmatched(c, outcome)
        PROVE  TypeOK'
    <2>1. EntryOf(outcome, None, None, default_status[outcome]) \in Entry
      BY DEF EntryOf, Entry, Outcomes, Early, default_status
    <2>2. [NoJob EXCEPT !.entry =
             EntryOf(outcome, None, None, default_status[outcome])] \in Job
      BY <1>0, <2>1 DEF Job
    <2>3. "reserve" \in Locations
      BY DEF Locations
    <2>4. pc' \in [Clients -> Locations] /\ job' \in [Clients -> Job]
      BY <1>2, <2>2, <2>3, GotoKeepsTypes DEF ArriveUnmatched
    <2> QED
      BY <1>2, <2>4 DEF ArriveUnmatched, TypeOK
  <1>3. ASSUME NEW c \in Clients, ReadLockFixtures(c)
        PROVE  TypeOK'
    <2>1. pc' \in [Clients -> Locations] /\ job' \in [Clients -> Job]
      <3>1. "write_scenarios" \in Locations
        BY DEF Locations
      <3> QED
        BY <1>0, <1>3, <3>1, GotoKeepsTypes DEF ReadLockFixtures
    <2> QED
      BY <1>3, <2>1 DEF ReadLockFixtures, TypeOK
  <1>4. ASSUME NEW c \in Clients, WriteLockScenarios(c)
        PROVE  TypeOK'
    <2>1. pc' \in [Clients -> Locations] /\ job' \in [Clients -> Job]
      <3>1. "find" \in Locations
        BY DEF Locations
      <3> QED
        BY <1>0, <1>4, <3>1, GotoKeepsTypes DEF WriteLockScenarios
    <2> QED
      BY <1>4, <2>1 DEF WriteLockScenarios, TypeOK
  <1>5. ASSUME NEW c \in Clients, FindMatch(c)
        PROVE  TypeOK'
    <2>1. Choice(c) \in Fixture \cup {None}
      BY ChoiceIsFixture, FixtureSetsAssumption DEF TypeOK
    <2>2. [job[c] EXCEPT !.found = Choice(c), !.before = scenarios] \in Job
      <3> HIDE DEF Choice
      <3> QED
        BY <1>0, <2>1 DEF Job, TypeOK
    <2>3. "set_state" \in Locations
      BY DEF Locations
    <2>4. pc' \in [Clients -> Locations] /\ job' \in [Clients -> Job]
      BY <1>5, <2>2, <2>3, GotoKeepsTypes DEF FindMatch
    <2> QED
      BY <1>5, <2>4 DEF FindMatch, TypeOK
  <1>6. ASSUME NEW c \in Clients, SetState(c)
        PROVE  TypeOK'
    <2>1. job[c].found \in Fixture \cup {None} /\ job[c].before \in [Scenarios -> States]
      BY <1>0 DEF Job
    <2>2. Selected(c) \in Job
      BY <1>0, <2>1, MatchEntryIsEntry DEF Selected, Job
    <2>3. AfterSelect(c) \in Locations
      BY DEF AfterSelect, Locations
    <2>4. pc' \in [Clients -> Locations] /\ job' \in [Clients -> Job]
      BY <1>6, <2>2, <2>3, GotoKeepsTypes DEF SetState
    <2>5. Advance(scenarios, job[c].found) \in [Scenarios -> States]
      <3>1. CASE job[c].found = None \/ job[c].found.set_state = None
        BY <3>1 DEF Advance, TypeOK
      <3>2. CASE ~(job[c].found = None \/ job[c].found.set_state = None)
        <4>1. job[c].found.set_state \in States
          BY <2>1, <3>2 DEF Fixture
        <4> QED
          BY <3>2, <4>1 DEF Advance, TypeOK
      <3> QED
        BY <3>1, <3>2
    <2> QED
      BY <1>6, <2>4, <2>5 DEF SetState, TypeOK
  <1>7. ASSUME NEW c \in Clients, Unlock(c)
        PROVE  TypeOK'
    <2>1. pc' \in [Clients -> Locations] /\ job' \in [Clients -> Job]
      <3>1. (IF pc[c] = "hand_over" THEN "upstream" ELSE "idle") \in Locations
        BY DEF Locations
      <3> QED
        BY <1>0, <1>7, <3>1, GotoKeepsTypes DEF Unlock
    <2> QED
      BY <1>7, <2>1 DEF Unlock, TypeOK
  <1>8. ASSUME NEW c \in Clients, NEW status \in UpstreamStatuses,
               UpstreamAnswers(c, status)
        PROVE  TypeOK'
    <2>1. EntryOf("recorded", None, None, status) \in Entry
      BY RecordAssumption DEF EntryOf, Entry, Outcomes
    <2>2. [NoJob EXCEPT !.entry = EntryOf("recorded", None, None, status)] \in Job
      BY <1>0, <2>1 DEF Job
    <2>3. "reserve" \in Locations
      BY DEF Locations
    <2>4. pc' \in [Clients -> Locations] /\ job' \in [Clients -> Job]
      BY <1>8, <2>2, <2>3, GotoKeepsTypes DEF UpstreamAnswers
    <2> QED
      BY <1>8, <2>4 DEF UpstreamAnswers, TypeOK
  <1>9. ASSUME NEW c \in Clients, ClientLeaves(c)
        PROVE  TypeOK'
    <2>1. pc' \in [Clients -> Locations] /\ job' \in [Clients -> Job]
      <3>1. "idle" \in Locations
        BY DEF Locations
      <3> QED
        BY <1>0, <1>9, <3>1, GotoKeepsTypes DEF ClientLeaves
    <2> QED
      BY <1>9, <2>1 DEF ClientLeaves, TypeOK
  <1>10. ASSUME NEW c \in Clients, ReserveId(c)
         PROVE  TypeOK'
    <2>1. [job[c] EXCEPT !.entry.id = capture_counter] \in Job
      <3>1. [job[c].entry EXCEPT !.id = capture_counter] \in Entry
        BY <1>0 DEF Job, Entry, TypeOK
      <3> QED
        BY <1>0, <3>1 DEF Job
    <2>2. AfterReserve(c) \in Locations
      BY DEF AfterReserve, AfterStore, AfterPush, Locations
    <2>3. pc' \in [Clients -> Locations] /\ job' \in [Clients -> Job]
      BY <1>10, <2>1, <2>2, GotoKeepsTypes DEF ReserveId
    <2> QED
      BY <1>10, <2>3 DEF ReserveId, TypeOK
  <1>11. ASSUME NEW c \in Clients, Store(c)
         PROVE  TypeOK'
    <2>1. AfterStore(c) \in Locations
      BY DEF AfterStore, AfterPush, Locations
    <2>2. pc' \in [Clients -> Locations] /\ job' \in [Clients -> Job]
      BY <1>0, <1>11, <2>1, GotoKeepsTypes DEF Store
    <2>3. Append(Trim(captured), job[c].entry) \in Seq(Entry)
      <3>1. job[c].entry \in Entry /\ Trim(captured) \in Seq(Entry)
        BY <1>0, TrimDropsPrefix DEF Job, TypeOK
      <3> QED
        BY <3>1
    <2> QED
      BY <1>11, <2>2, <2>3 DEF Store, TypeOK
  <1>12. ASSUME NEW c \in Clients, Broadcast(c)
         PROVE  TypeOK'
    <2>1. AfterPush(c) \in Locations
      BY DEF AfterPush, Locations
    <2>2. pc' \in [Clients -> Locations] /\ job' \in [Clients -> Job]
      BY <1>0, <1>12, <2>1, GotoKeepsTypes DEF Broadcast
    <2>3. Append(ui_feed, job[c].entry) \in Seq(Entry)
      <3>1. job[c].entry \in Entry /\ ui_feed \in Seq(Entry)
        BY <1>0 DEF Job, TypeOK
      <3> QED
        BY <3>1
    <2> QED
      BY <1>12, <2>2, <2>3 DEF Broadcast, TypeOK
  <1>13. ASSUME NEW a \in Admins, ResetScenarios(a) \/ ResetCaptured(a)
         PROVE  TypeOK'
    <2>1. CASE ResetScenarios(a)
      <3>1. NoStates \in [Scenarios -> States]
        BY InitialAssumption DEF NoStates
      <3> QED
        BY <2>1, <3>1 DEF ResetScenarios, TypeOK
    <2>2. CASE ResetCaptured(a)
      <3>1. <<>> \in Seq(Entry)
        OBVIOUS
      <3> QED
        BY <2>2, <3>1 DEF ResetCaptured, TypeOK
    <2> QED
      BY <1>13, <2>1, <2>2
  <1>14. ASSUME NEW S \in FixtureSets, SwapFixtures(S)
         PROVE  TypeOK'
    BY <1>14 DEF SwapFixtures, TypeOK
  <1>15. CASE UNCHANGED vars
    BY <1>15 DEF vars, TypeOK
  <1> QED
    BY <1>1, <1>2, <1>3, <1>4, <1>5, <1>6, <1>7, <1>8, <1>9, <1>10, <1>11, <1>12,
       <1>13, <1>14, <1>15 DEF Next, Serve, ArriveEarly, ArriveUtility

\* Every variable keeps its type, whatever the clients, admins, requests,
\* fixture sets and capacity.
THEOREM TypeCorrect == Spec => []TypeOK
  BY InitTypes, StepTypes, PTL DEF Spec

-----------------------------------------------------------------------------
(* The locks.  A request holds the scenarios lock from its selection to    *)
(* the end of its push, and the fixtures lock a little longer; what it     *)
(* then pushes is the entry of a match or a miss.  Every other push, and   *)
(* only such a push, is made without them.                                 *)

Selecting == {"find", "set_state", "unlock", "hand_over"}
Pushes == {"reserve", "store", "broadcast"}

LockDiscipline ==
  \A c \in Clients :
    /\ c \in fixtures_readers <=> pc[c] = "write_scenarios" \/ scenarios_writer = c
    /\ pc[c] \in Selecting => scenarios_writer = c
    /\ scenarios_writer = c => pc[c] \in Selecting \cup Pushes
    /\ pc[c] \in Pushes => (IsDispatched(job[c].entry) <=> scenarios_writer = c)
    /\ pc[c] = "store" => Capacity # 0

\* No lock is held at the start.
LEMMA InitLocks == Init => LockDiscipline
  BY NoneAssumption DEF Init, LockDiscipline, Selecting, Pushes

\* Every step takes and releases the locks as their order says.
LEMMA StepLocks == TypeOK /\ LockDiscipline /\ [Next]_vars => LockDiscipline'
  <1> SUFFICES ASSUME TypeOK, LockDiscipline, [Next]_vars PROVE LockDiscipline'
    OBVIOUS
  <1> USE DEF state_vars, log_vars, client_vars
  <1>0. /\ None \notin Clients
        /\ scenarios_writer \in Clients \cup {None}
        /\ pc \in [Clients -> Locations]
        /\ job \in [Clients -> Job]
    BY NoneAssumption DEF TypeOK
  <1> USE DEF LockDiscipline, Selecting, Pushes, Goto
  <1>1. ASSUME NEW c \in Clients, NEW r \in Requests, Arrive(c, r)
        PROVE  LockDiscipline'
    BY <1>0, <1>1 DEF Arrive
  <1>2. ASSUME NEW c \in Clients, NEW outcome \in Early, ArriveUnmatched(c, outcome)
        PROVE  LockDiscipline'
    <2>1. job'[c].entry.outcome = outcome
      BY <1>0, <1>2 DEF ArriveUnmatched, EntryOf, NoJob
    <2>2. ~IsDispatched(job'[c].entry)
      BY <2>1 DEF IsDispatched, Dispatched, Early, default_status
    <2> QED
      BY <1>0, <1>2, <2>2 DEF ArriveUnmatched
  <1>3. ASSUME NEW c \in Clients, ReadLockFixtures(c)
        PROVE  LockDiscipline'
    BY <1>0, <1>3 DEF ReadLockFixtures
  <1>4. ASSUME NEW c \in Clients, WriteLockScenarios(c)
        PROVE  LockDiscipline'
    BY <1>0, <1>4 DEF WriteLockScenarios
  <1>5. ASSUME NEW c \in Clients, FindMatch(c)
        PROVE  LockDiscipline'
    BY <1>0, <1>5 DEF FindMatch
  <1>6. ASSUME NEW c \in Clients, SetState(c)
        PROVE  LockDiscipline'
    <2>1. job[c].found \in Fixture \cup {None}
      BY <1>0 DEF Job
    <2>2. AfterSelect(c) \in {"hand_over", "reserve"}
      BY DEF AfterSelect
    <2>3. job'[c].entry = MatchEntry(job[c].found, job[c].request)
      BY <1>0, <1>6, <2>2 DEF SetState, Selected, NoJob
    <2>4. IsDispatched(job'[c].entry)
      BY <2>1, <2>3, MatchEntryIsEntry
    <2> QED
      BY <1>0, <1>6, <2>2, <2>4 DEF SetState
  <1>7. ASSUME NEW c \in Clients, Unlock(c)
        PROVE  LockDiscipline'
    BY <1>0, <1>7 DEF Unlock
  <1>8. ASSUME NEW c \in Clients, NEW status \in UpstreamStatuses,
               UpstreamAnswers(c, status)
        PROVE  LockDiscipline'
    <2>1. job'[c].entry.outcome = "recorded"
      BY <1>0, <1>8 DEF UpstreamAnswers, EntryOf, NoJob
    <2>2. ~IsDispatched(job'[c].entry)
      BY <2>1 DEF IsDispatched, Dispatched
    <2> QED
      BY <1>0, <1>8, <2>2 DEF UpstreamAnswers
  <1>9. ASSUME NEW c \in Clients, ClientLeaves(c)
        PROVE  LockDiscipline'
    BY <1>0, <1>9 DEF ClientLeaves
  <1>10. ASSUME NEW c \in Clients, ReserveId(c)
         PROVE  LockDiscipline'
    <2>1. AfterReserve(c) \in {"store", "broadcast", "unlock", "idle"}
      BY DEF AfterReserve, AfterStore, AfterPush
    <2>2. /\ AfterReserve(c) = "store" => Capacity # 0
          /\ AfterReserve(c) = "unlock" => c \in fixtures_readers
          /\ AfterReserve(c) = "idle" => c \notin fixtures_readers
      BY DEF AfterReserve, AfterStore, AfterPush, Critical
    <2>3. AfterReserve(c) # "idle" =>
            IsDispatched(job'[c].entry) = IsDispatched(job[c].entry)
      BY <1>0, <1>10 DEF ReserveId, IsDispatched, Job, Entry
    <2> QED
      BY <1>0, <1>10, <2>1, <2>2, <2>3 DEF ReserveId
  <1>11. ASSUME NEW c \in Clients, Store(c)
         PROVE  LockDiscipline'
    <2>1. /\ AfterStore(c) \in {"broadcast", "unlock", "idle"}
          /\ AfterStore(c) = "unlock" => c \in fixtures_readers
          /\ AfterStore(c) = "idle" => c \notin fixtures_readers
      BY DEF AfterStore, AfterPush, Critical
    <2> QED
      BY <1>0, <1>11, <2>1 DEF Store
  <1>12. ASSUME NEW c \in Clients, Broadcast(c)
         PROVE  LockDiscipline'
    <2>1. /\ AfterPush(c) \in {"unlock", "idle"}
          /\ AfterPush(c) = "unlock" => c \in fixtures_readers
          /\ AfterPush(c) = "idle" => c \notin fixtures_readers
      BY DEF AfterPush, Critical
    <2> QED
      BY <1>0, <1>12, <2>1 DEF Broadcast
  <1>13. ASSUME NEW a \in Admins, ResetScenarios(a) \/ ResetCaptured(a)
         PROVE  LockDiscipline'
    BY <1>13 DEF ResetScenarios, ResetCaptured
  <1>14. ASSUME NEW S \in FixtureSets, SwapFixtures(S)
         PROVE  LockDiscipline'
    BY <1>14 DEF SwapFixtures
  <1>15. CASE UNCHANGED vars
    BY <1>15 DEF vars
  <1> QED
    BY <1>1, <1>2, <1>3, <1>4, <1>5, <1>6, <1>7, <1>8, <1>9, <1>10, <1>11, <1>12,
       <1>13, <1>14, <1>15 DEF Next, Serve, ArriveEarly, ArriveUtility

\* No two requests are in the critical section at once.
LEMMA MutualExclusion ==
  ASSUME LockDiscipline, NEW c \in Clients, NEW d \in Clients,
         pc[c] \in Pushes, pc[d] \in Pushes,
         IsDispatched(job[c].entry), IsDispatched(job[d].entry)
  PROVE  c = d
  BY DEF LockDiscipline

-----------------------------------------------------------------------------
(* The ids.                                                                *)

EarlierIds(log, id) ==
  \A i \in DOMAIN log : IsDispatched(log[i]) => log[i].id < id

IdBooks ==
  /\ \A i \in DOMAIN captured : captured[i].id < capture_counter
  /\ \A i \in DOMAIN ui_feed : ui_feed[i].id < capture_counter
  /\ \A c \in Clients :
       pc[c] \in {"store", "broadcast"} =>
         /\ job[c].entry.id < capture_counter
         /\ IsDispatched(job[c].entry) =>
              /\ EarlierIds(ui_feed, job[c].entry.id)
              /\ pc[c] = "store" => EarlierIds(captured, job[c].entry.id)

\* At the start no id is drawn and the log is empty.
LEMMA InitIds == Init => IdBooks /\ DispatchIdsOrdered /\ CapacityRespected
  BY CapacityAssumption DEF Init, IdBooks, DispatchIdsOrdered, CapacityRespected

\* What the ids depend on, when no entry is numbered, stored or broadcast.
LEMMA SameLogSameIds ==
  ASSUME TypeOK, IdBooks, DispatchIdsOrdered, CapacityRespected,
         NEW c \in Clients, NEW loc \in Locations \ {"store", "broadcast"}, NEW j,
         Goto(c, loc, j), UNCHANGED log_vars
  PROVE  IdBooks' /\ DispatchIdsOrdered' /\ CapacityRespected'
  <1>1. pc' = [pc EXCEPT ![c] = loc] /\ pc \in [Clients -> Locations]
    BY DEF Goto, TypeOK
  <1>2. \A d \in Clients : d # c => job'[d] = job[d]
    BY DEF Goto, TypeOK
  <1>3. \A d \in Clients :
          pc'[d] \in {"store", "broadcast"} => pc[d] = pc'[d] /\ job'[d] = job[d]
    BY <1>1, <1>2
  <1> QED
    BY <1>3 DEF IdBooks, DispatchIdsOrdered, CapacityRespected, EarlierIds, log_vars

\* An entry with a later id than those of its kind may go to the end of a log.
LEMMA AppendInOrder ==
  ASSUME NEW log \in Seq(Entry), NEW e \in Entry,
         \A i, j \in DOMAIN log :
           i < j /\ IsDispatched(log[i]) /\ IsDispatched(log[j]) => log[i].id < log[j].id,
         IsDispatched(e) => EarlierIds(log, e.id)
  PROVE  LET longer == Append(log, e)
         IN  \A i, j \in DOMAIN longer :
               i < j /\ IsDispatched(longer[i]) /\ IsDispatched(longer[j])
                 => longer[i].id < longer[j].id
  <1> DEFINE longer == Append(log, e)
  <1>1. /\ DOMAIN longer = 1 .. Len(log) + 1
        /\ longer[Len(log) + 1] = e
        /\ \A i \in 1 .. Len(log) : longer[i] = log[i]
        /\ Len(log) \in Nat
    OBVIOUS
  <1> HIDE DEF longer
  <1>2. ASSUME NEW i \in DOMAIN longer, NEW j \in DOMAIN longer,
               i < j, IsDispatched(longer[i]), IsDispatched(longer[j])
        PROVE  longer[i].id < longer[j].id
    <2>1. i \in 1 .. Len(log)
      BY <1>1, <1>2
    <2>2. CASE j \in 1 .. Len(log)
      BY <1>1, <1>2, <2>1, <2>2
    <2>3. CASE j = Len(log) + 1
      BY <1>1, <1>2, <2>1, <2>3 DEF EarlierIds
    <2> QED
      BY <1>1, <2>2, <2>3
  <1> QED
    BY <1>2 DEF longer

\* What holds of the ids of a log holds of those trimming leaves.
LEMMA TrimKeepsIds ==
  ASSUME NEW log \in Seq(Entry), NEW n,
         \A i \in DOMAIN log : log[i].id < n,
         \A i, j \in DOMAIN log :
           i < j /\ IsDispatched(log[i]) /\ IsDispatched(log[j]) => log[i].id < log[j].id
  PROVE  LET left == Trim(log)
         IN  /\ \A i \in DOMAIN left : left[i].id < n
             /\ \A i, j \in DOMAIN left :
                  i < j /\ IsDispatched(left[i]) /\ IsDispatched(left[j])
                    => left[i].id < left[j].id
             /\ \A id : EarlierIds(log, id) => EarlierIds(left, id)
  <1>1. PICK k \in 0 .. Len(log) : IsSuffixFrom(k, Trim(log), log)
    BY TrimDropsPrefix
  <1>2. \A i \in DOMAIN Trim(log) :
          /\ i \in Nat /\ i + k \in DOMAIN log /\ Trim(log)[i] = log[i + k]
    BY <1>1, TrimDropsPrefix DEF IsSuffixFrom
  <1> HIDE DEF Trim
  <1>3. \A i \in DOMAIN Trim(log) : Trim(log)[i].id < n
    BY <1>2
  <1>4. \A i, j \in DOMAIN Trim(log) :
          i < j /\ IsDispatched(Trim(log)[i]) /\ IsDispatched(Trim(log)[j])
            => Trim(log)[i].id < Trim(log)[j].id
    <2>1. \A i, j \in DOMAIN Trim(log) : i < j => i + k < j + k
      BY <1>2
    <2> QED
      BY <1>2, <2>1
  <1>5. \A id : EarlierIds(log, id) => EarlierIds(Trim(log), id)
    BY <1>2 DEF EarlierIds
  <1> QED
    BY <1>3, <1>4, <1>5

\* fetch_add: the id drawn is new, and greater than those in the log.
LEMMA ReserveKeepsIds ==
  ASSUME TypeOK, LockDiscipline, IdBooks, DispatchIdsOrdered, CapacityRespected,
         NEW c \in Clients, ReserveId(c)
  PROVE  IdBooks' /\ DispatchIdsOrdered' /\ CapacityRespected'
  <1> USE DEF state_vars, log_vars
  <1>1. /\ capture_counter \in Nat /\ capture_counter' = capture_counter + 1
        /\ captured' = captured /\ ui_feed' = ui_feed
        /\ captured \in Seq(Entry) /\ ui_feed \in Seq(Entry)
        /\ job[c] \in Job
    BY DEF ReserveId, TypeOK
  <1>2. \A d \in Clients : d # c => pc'[d] = pc[d] /\ job'[d] = job[d]
    BY DEF ReserveId, Goto, TypeOK
  <1>3. pc'[c] = AfterReserve(c)
    BY DEF ReserveId, Goto, TypeOK
  <1>4. AfterReserve(c) # "idle" => job'[c].entry.id = capture_counter
    BY <1>1 DEF ReserveId, Goto, TypeOK, Job, Entry
  <1>5. \A d \in Clients : job[d].entry.id \in Nat
    BY DEF TypeOK, Job, Entry
  <1>6. /\ \A i \in DOMAIN captured : captured[i] \in Entry
        /\ \A i \in DOMAIN ui_feed : ui_feed[i] \in Entry
    BY <1>1
  <1>7. /\ \A i \in DOMAIN captured : captured[i].id \in Nat
        /\ \A i \in DOMAIN ui_feed : ui_feed[i].id \in Nat
    BY <1>6 DEF Entry
  <1>8. IdBooks'
    <2>1. /\ \A i \in DOMAIN captured : captured[i].id < capture_counter'
          /\ \A i \in DOMAIN ui_feed : ui_feed[i].id < capture_counter'
      BY <1>1, <1>7 DEF IdBooks
    <2>2. ASSUME NEW d \in Clients, pc'[d] \in {"store", "broadcast"}
          PROVE  /\ job'[d].entry.id < capture_counter'
                 /\ IsDispatched(job'[d].entry) =>
                      /\ EarlierIds(ui_feed, job'[d].entry.id)
                      /\ pc'[d] = "store" => EarlierIds(captured, job'[d].entry.id)
      <3>1. CASE d = c
        BY <1>1, <1>3, <1>4, <2>2, <3>1 DEF IdBooks, EarlierIds
      <3>2. CASE d # c
        BY <1>1, <1>2, <1>5, <2>2, <3>2 DEF IdBooks
      <3> QED
        BY <3>1, <3>2
    <2> QED
      BY <1>1, <2>1, <2>2 DEF IdBooks, EarlierIds
  <1> QED
    BY <1>1, <1>8 DEF DispatchIdsOrdered, CapacityRespected

\* The push and its trimming: the log stays in order and within its capacity.
LEMMA StoreKeepsIds ==
  ASSUME TypeOK, LockDiscipline, IdBooks, DispatchIdsOrdered, CapacityRespected,
         NEW c \in Clients, Store(c)
  PROVE  IdBooks' /\ DispatchIdsOrdered' /\ CapacityRespected'
  <1> DEFINE e == job[c].entry
             left == Trim(captured)
  <1> USE DEF state_vars, log_vars
  <1>1. /\ captured \in Seq(Entry) /\ e \in Entry /\ pc[c] = "store"
        /\ ui_feed' = ui_feed /\ capture_counter' = capture_counter
    BY DEF Store, TypeOK, Job
  <1>2. captured' = Append(left, e)
    BY DEF Store
  <1>3. /\ left \in Seq(Entry)
        /\ \A i \in DOMAIN left : left[i].id < capture_counter
        /\ \A i, j \in DOMAIN left :
             i < j /\ IsDispatched(left[i]) /\ IsDispatched(left[j]) => left[i].id < left[j].id
        /\ \A id : EarlierIds(captured, id) => EarlierIds(left, id)
    <2> HIDE DEF left
    <2> QED
      BY <1>1, TrimKeepsIds, TrimDropsPrefix DEF left, IdBooks, DispatchIdsOrdered
  <1>4. Capacity \in Nat => Len(left) < Capacity
    BY <1>1, TrimDropsPrefix DEF LockDiscipline
  <1> HIDE DEF left
  <1>5. /\ Len(captured') = Len(left) + 1
        /\ \A i \in DOMAIN captured' :
             (i \in DOMAIN left /\ captured'[i] = left[i]) \/ captured'[i] = e
    BY <1>1, <1>2, <1>3
  <1>6. DispatchIdsOrdered'
    <2>1. IsDispatched(e) => EarlierIds(left, e.id)
      BY <1>1, <1>3 DEF IdBooks
    <2>2. \A i, j \in DOMAIN captured' :
            i < j /\ IsDispatched(captured'[i]) /\ IsDispatched(captured'[j])
              => captured'[i].id < captured'[j].id
      <3> HIDE DEF e
      <3> QED
        BY <1>1, <1>2, <1>3, <2>1, AppendInOrder
    <2> QED
      BY <1>1, <2>2 DEF DispatchIdsOrdered
  <1>7. CapacityRespected'
    BY <1>3, <1>4, <1>5, CapacityAssumption DEF CapacityRespected
  <1>8. ASSUME NEW d \in Clients, pc'[d] \in {"store", "broadcast"}
        PROVE  /\ job'[d].entry = job[d].entry
               /\ pc'[d] = "store" => d # c /\ pc[d] = "store"
               /\ pc[d] \in {"store", "broadcast"}
    <2>1. AfterStore(c) \in {"broadcast", "unlock", "idle"}
      BY DEF AfterStore, AfterPush
    <2> QED
      BY <1>1, <1>8, <2>1 DEF Store, Goto, TypeOK
  <1>9. ASSUME NEW d \in Clients, pc'[d] = "store", IsDispatched(job[d].entry)
        PROVE  EarlierIds(captured', job[d].entry.id)
    <2>1. d # c /\ pc[d] = "store"
      BY <1>8, <1>9
    <2>2. EarlierIds(left, job[d].entry.id)
      BY <1>3, <1>9, <2>1 DEF IdBooks
    <2>3. ~IsDispatched(e)
      BY <1>1, <1>9, <2>1, MutualExclusion DEF Pushes
    <2> QED
      BY <1>5, <2>2, <2>3 DEF EarlierIds
  <1>10. \A i \in DOMAIN captured' : captured'[i].id < capture_counter'
    BY <1>1, <1>3, <1>5 DEF IdBooks
  <1>11. IdBooks'
    BY <1>1, <1>8, <1>9, <1>10 DEF IdBooks, EarlierIds
  <1> QED
    BY <1>6, <1>7, <1>11

\* The broadcast leaves the log alone.
LEMMA BroadcastKeepsIds ==
  ASSUME TypeOK, LockDiscipline, IdBooks, DispatchIdsOrdered, CapacityRespected,
         NEW c \in Clients, Broadcast(c)
  PROVE  IdBooks' /\ DispatchIdsOrdered' /\ CapacityRespected'
  <1> DEFINE e == job[c].entry
  <1> USE DEF state_vars, log_vars
  <1>1. /\ ui_feed \in Seq(Entry) /\ e \in Entry /\ pc[c] = "broadcast"
        /\ captured' = captured /\ capture_counter' = capture_counter
        /\ ui_feed' = Append(ui_feed, e)
    BY DEF Broadcast, TypeOK, Job
  <1>2. \A i \in DOMAIN ui_feed' :
          (i \in DOMAIN ui_feed /\ ui_feed'[i] = ui_feed[i]) \/ ui_feed'[i] = e
    BY <1>1
  <1>3. DispatchIdsOrdered'
    <2>1. \A i, j \in DOMAIN ui_feed' :
            i < j /\ IsDispatched(ui_feed'[i]) /\ IsDispatched(ui_feed'[j])
              => ui_feed'[i].id < ui_feed'[j].id
      <3>1. IsDispatched(e) => EarlierIds(ui_feed, e.id)
        BY <1>1 DEF IdBooks
      <3> HIDE DEF e
      <3> QED
        BY <1>1, <3>1, AppendInOrder DEF DispatchIdsOrdered
    <2> QED
      BY <1>1, <2>1 DEF DispatchIdsOrdered
  <1>4. ASSUME NEW d \in Clients, pc'[d] \in {"store", "broadcast"}
        PROVE  d # c /\ pc'[d] = pc[d] /\ job'[d] = job[d]
    <2>1. AfterPush(c) \in {"unlock", "idle"}
      BY DEF AfterPush
    <2> QED
      BY <1>1, <1>4, <2>1 DEF Broadcast, Goto, TypeOK
  <1>5. ASSUME NEW d \in Clients, pc'[d] \in {"store", "broadcast"},
               IsDispatched(job[d].entry)
        PROVE  EarlierIds(ui_feed', job[d].entry.id)
    <2>1. EarlierIds(ui_feed, job[d].entry.id)
      BY <1>4, <1>5 DEF IdBooks
    <2>2. ~IsDispatched(e)
      BY <1>1, <1>4, <1>5, MutualExclusion DEF Pushes
    <2> QED
      BY <1>2, <2>1, <2>2 DEF EarlierIds
  <1>6. IdBooks'
    BY <1>1, <1>2, <1>4, <1>5 DEF IdBooks, EarlierIds
  <1> QED
    BY <1>1, <1>3, <1>6 DEF CapacityRespected

\* Every step keeps the ids in order and the log within its capacity.
LEMMA StepIds ==
  ASSUME TypeOK, LockDiscipline, IdBooks, DispatchIdsOrdered, CapacityRespected,
         [Next]_vars
  PROVE  IdBooks' /\ DispatchIdsOrdered' /\ CapacityRespected'
  <1> DEFINE Goal == IdBooks' /\ DispatchIdsOrdered' /\ CapacityRespected'
  <1> USE DEF state_vars, log_vars, client_vars
  <1>1. ASSUME NEW c \in Clients, NEW r \in Requests, Arrive(c, r)
        PROVE  Goal
    <2>1. "read_fixtures" \in Locations \ {"store", "broadcast"}
      BY DEF Locations
    <2> QED
      BY <1>1, <2>1, SameLogSameIds DEF Arrive
  <1>2. ASSUME NEW c \in Clients, NEW outcome \in Early, ArriveUnmatched(c, outcome)
        PROVE  Goal
    <2>1. "reserve" \in Locations \ {"store", "broadcast"}
      BY DEF Locations
    <2> QED
      BY <1>2, <2>1, SameLogSameIds DEF ArriveUnmatched
  <1>3. ASSUME NEW c \in Clients, ReadLockFixtures(c)
        PROVE  Goal
    <2>1. "write_scenarios" \in Locations \ {"store", "broadcast"}
      BY DEF Locations
    <2> QED
      BY <1>3, <2>1, SameLogSameIds DEF ReadLockFixtures
  <1>4. ASSUME NEW c \in Clients, WriteLockScenarios(c)
        PROVE  Goal
    <2>1. "find" \in Locations \ {"store", "broadcast"}
      BY DEF Locations
    <2> QED
      BY <1>4, <2>1, SameLogSameIds DEF WriteLockScenarios
  <1>5. ASSUME NEW c \in Clients, FindMatch(c)
        PROVE  Goal
    <2>1. "set_state" \in Locations \ {"store", "broadcast"}
      BY DEF Locations
    <2> QED
      BY <1>5, <2>1, SameLogSameIds DEF FindMatch
  <1>6. ASSUME NEW c \in Clients, SetState(c)
        PROVE  Goal
    <2>1. AfterSelect(c) \in Locations \ {"store", "broadcast"}
      BY DEF AfterSelect, Locations
    <2> QED
      BY <1>6, <2>1, SameLogSameIds DEF SetState
  <1>7. ASSUME NEW c \in Clients, Unlock(c)
        PROVE  Goal
    <2>1. (IF pc[c] = "hand_over" THEN "upstream" ELSE "idle")
             \in Locations \ {"store", "broadcast"}
      BY DEF Locations
    <2> QED
      BY <1>7, <2>1, SameLogSameIds DEF Unlock
  <1>8. ASSUME NEW c \in Clients, NEW status \in UpstreamStatuses,
               UpstreamAnswers(c, status)
        PROVE  Goal
    <2>1. "reserve" \in Locations \ {"store", "broadcast"}
      BY DEF Locations
    <2> QED
      BY <1>8, <2>1, SameLogSameIds DEF UpstreamAnswers
  <1>9. ASSUME NEW c \in Clients, ClientLeaves(c)
        PROVE  Goal
    <2>1. "idle" \in Locations \ {"store", "broadcast"}
      BY DEF Locations
    <2> QED
      BY <1>9, <2>1, SameLogSameIds DEF ClientLeaves
  <1>10. ASSUME NEW a \in Admins, ResetScenarios(a) \/ ResetCaptured(a)
         PROVE  Goal
    BY <1>10, CapacityAssumption DEF ResetScenarios, ResetCaptured, IdBooks,
       DispatchIdsOrdered, CapacityRespected, EarlierIds
  <1>11. ASSUME NEW S \in FixtureSets, SwapFixtures(S)
         PROVE  Goal
    BY <1>11 DEF SwapFixtures, IdBooks, DispatchIdsOrdered, CapacityRespected, EarlierIds
  <1>12. CASE UNCHANGED vars
    BY <1>12 DEF vars, IdBooks, DispatchIdsOrdered, CapacityRespected, EarlierIds
  <1> QED
    BY <1>1, <1>2, <1>3, <1>4, <1>5, <1>6, <1>7, <1>8, <1>9, <1>10, <1>11, <1>12,
       ReserveKeepsIds, StoreKeepsIds, BroadcastKeepsIds DEF Next, Serve, ArriveEarly, ArriveUtility

-----------------------------------------------------------------------------
(* The log and the scenarios: what a request under way has read of the     *)
(* scenario map, and what it has changed.                                  *)

MoveBooks ==
  \A c \in Clients :
    /\ pc[c] = "set_state" => job[c].before = scenarios
    /\ pc[c] \in Pushes /\ ~IsDispatched(job[c].entry) => job[c].entry.sets = None
    /\ Pushing(c) =>
         LET e == job[c].entry
         IN  /\ e.sets # None => scenarios[e.scenario] = e.sets
             /\ \A n \in Scenarios :
                  e.sets = None \/ e.scenario # n => scenarios[n] = job[c].before[n]

\* The log explains the map m: what LogExplainsScenarios says when no reset
\* is under way, of any log and map.
MovedOnlyBefore(log, i) ==
  \A j \in i + 1 .. Len(log) :
    ~(log[j].sets # None /\ log[j].scenario = log[i].scenario)

Explains(log, m) ==
  \A i \in DOMAIN log :
    log[i].sets # None /\ MovedOnlyBefore(log, i) => m[log[i].scenario] = log[i].sets

\* LogExplainsScenarios, said of the scenarios that no client is about to log.
LEMMA LogExplains ==
  LogExplainsScenarios <=> (resetting = {} => Explains(captured, SettledScenarios))
  BY DEF LogExplainsScenarios, Explains, MovedOnlyBefore

\* Trimming does not change what the rest of a log explains.
LEMMA TrimExplains ==
  ASSUME NEW log \in Seq(Entry), NEW m, Explains(log, m)
  PROVE  Explains(Trim(log), m)
  <1> DEFINE left == Trim(log)
  <1>1. PICK k \in 0 .. Len(log) : IsSuffixFrom(k, left, log)
    BY TrimDropsPrefix
  <1>2. /\ Len(left) \in Nat /\ Len(log) \in Nat /\ Len(left) + k = Len(log)
        /\ \A i \in 1 .. Len(left) : left[i] = log[i + k]
        /\ DOMAIN left = 1 .. Len(left)
    BY <1>1, TrimDropsPrefix DEF IsSuffixFrom
  <1> HIDE DEF left
  <1>3. ASSUME NEW i \in DOMAIN left, left[i].sets # None, MovedOnlyBefore(left, i)
        PROVE  m[left[i].scenario] = left[i].sets
    <2>1. i + k \in DOMAIN log /\ left[i] = log[i + k]
      BY <1>2, <1>3
    <2>2. ASSUME NEW j \in i + k + 1 .. Len(log)
          PROVE  ~(log[j].sets # None /\ log[j].scenario = log[i + k].scenario)
      <3>1. i \in Nat /\ k \in Nat /\ Len(left) \in Nat /\ Len(left) + k = Len(log)
        BY <1>2, <1>3
      <3>2. j - k \in i + 1 .. Len(left) /\ j - k \in 1 .. Len(left) /\ (j - k) + k = j
        <4> HIDE DEF Entry, Explains
        <4> QED
          BY <1>1, <3>1
      <3>3. left[j - k] = log[j]
        BY <1>2, <3>2
      <3> QED
        BY <1>3, <2>1, <3>2, <3>3 DEF MovedOnlyBefore
    <2> QED
      BY <1>3, <2>1, <2>2 DEF Explains, MovedOnlyBefore
  <1> QED
    BY <1>3 DEF Explains, left

\* The entry of a move at its end makes a log explain the map after the move.
LEMMA AppendExplains ==
  ASSUME NEW log \in Seq(Entry), NEW e \in Entry, NEW m, NEW n,
         Explains(log, m),
         e.sets # None => n[e.scenario] = e.sets,
         \A s \in Scenarios : e.sets = None \/ e.scenario # s => n[s] = m[s]
  PROVE  Explains(Append(log, e), n)
  <1> DEFINE longer == Append(log, e)
  <1>1. /\ Len(log) \in Nat /\ Len(longer) = Len(log) + 1
        /\ DOMAIN longer = 1 .. Len(log) + 1
        /\ longer[Len(log) + 1] = e
        /\ \A i \in 1 .. Len(log) : longer[i] = log[i]
        /\ DOMAIN log = 1 .. Len(log)
    OBVIOUS
  <1> HIDE DEF longer
  <1>2. ASSUME NEW i \in DOMAIN longer, longer[i].sets # None, MovedOnlyBefore(longer, i)
        PROVE  n[longer[i].scenario] = longer[i].sets
    <2>1. CASE i = Len(log) + 1
      BY <1>1, <1>2, <2>1
    <2>2. CASE i \in 1 .. Len(log)
      <3>1. longer[i] = log[i] /\ log[i] \in Entry
        BY <1>1, <2>2
      <3>2. ~(e.sets # None /\ e.scenario = log[i].scenario)
        <4>1. Len(log) + 1 \in i + 1 .. Len(longer)
          BY <1>1, <2>2
        <4> QED
          BY <1>1, <1>2, <3>1, <4>1 DEF MovedOnlyBefore
      <3>3. MovedOnlyBefore(log, i)
        <4>1. \A j \in i + 1 .. Len(log) : j \in i + 1 .. Len(longer) /\ longer[j] = log[j]
          BY <1>1, <2>2
        <4> QED
          BY <1>2, <3>1, <4>1 DEF MovedOnlyBefore
      <3>4. m[log[i].scenario] = log[i].sets
        BY <1>1, <1>2, <2>2, <3>1, <3>3 DEF Explains
      <3>5. log[i].scenario \in Scenarios
        BY <1>2, <3>1 DEF Entry
      <3> QED
        BY <3>1, <3>2, <3>4, <3>5
    <2> QED
      BY <1>1, <2>1, <2>2
  <1> QED
    BY <1>2 DEF Explains, longer

\* No scenario has moved at the start, and nothing is logged.
LEMMA InitMoves == Init => MoveBooks /\ LogExplainsScenarios
  <1> SUFFICES ASSUME Init PROVE MoveBooks /\ LogExplainsScenarios
    OBVIOUS
  <1>1. captured = <<>> /\ \A c \in Clients : pc[c] = "idle"
    BY DEF Init
  <1>2. Explains(captured, SettledScenarios)
    BY <1>1 DEF Explains
  <1> QED
    BY <1>1, <1>2, LogExplains DEF MoveBooks, Pushes, Pushing

\* The scenarios without the move that the writer has not logged yet.
LEMMA Settled ==
  ASSUME NEW c \in Clients
  PROVE  /\ Pushing(c) => SettledScenarios = job[c].before
         /\ scenarios_writer = c /\ ~Pushing(c) => SettledScenarios = scenarios
         /\ scenarios_writer \notin Clients => SettledScenarios = scenarios
  BY DEF SettledScenarios, Pushing

\* A step of a request outside the part of the critical section in which the
\* map is ahead of the log.
LEMMA StepOutside ==
  ASSUME TypeOK, MoveBooks, LogExplainsScenarios,
         NEW c \in Clients, NEW loc, NEW j, Goto(c, loc, j), loc # "set_state",
         UNCHANGED <<scenarios, scenarios_writer, captured, resetting>>,
         \/ scenarios_writer # c
         \/ pc[c] \notin {"reserve", "store"} /\ loc \notin {"reserve", "store"},
         loc \in Pushes /\ ~IsDispatched(job'[c].entry) => job'[c].entry.sets = None
  PROVE  MoveBooks' /\ LogExplainsScenarios'
  <1>1. /\ pc'[c] = loc
        /\ \A d \in Clients : d # c => pc'[d] = pc[d] /\ job'[d] = job[d]
    BY DEF Goto, TypeOK
  <1>2. ~Pushing(c) /\ ~Pushing(c)'
    BY <1>1 DEF Pushing
  <1>3. \A d \in Clients :
          /\ Pushing(d)' <=> Pushing(d)
          /\ Pushing(d) => job'[d] = job[d]
    BY <1>1, <1>2 DEF Pushing
  <1>4. SettledScenarios' = SettledScenarios
    <2>1. CASE \E d \in Clients : Pushing(d)
      <3>1. PICK d \in Clients : Pushing(d)
        BY <2>1
      <3>2. scenarios_writer = d /\ scenarios_writer' = d
        BY <3>1 DEF Pushing
      <3>3. job'[d] = job[d] /\ Pushing(d)'
        BY <1>3, <3>1
      <3> QED
        BY <3>1, <3>2, <3>3 DEF SettledScenarios
    <2>2. CASE ~\E d \in Clients : Pushing(d)
      BY <1>3, <2>2 DEF SettledScenarios
    <2> QED
      BY <2>1, <2>2
  <1>5. LogExplainsScenarios'
    <2>1. resetting = {} => Explains(captured, SettledScenarios)
      BY LogExplains
    <2>2. resetting' = {} => Explains(captured', SettledScenarios')
      BY <1>4, <2>1
    <2> QED
      BY <2>2 DEF LogExplainsScenarios, Explains, MovedOnlyBefore
  <1>6. MoveBooks'
    <2>1. ASSUME NEW d \in Clients
          PROVE  /\ pc'[d] = "set_state" => job'[d].before = scenarios'
                 /\ pc'[d] \in Pushes /\ ~IsDispatched(job'[d].entry)
                      => job'[d].entry.sets = None
      BY <1>1 DEF MoveBooks
    <2>2. ASSUME NEW d \in Clients, Pushing(d)'
          PROVE  LET e == job'[d].entry
                 IN  /\ e.sets # None => scenarios'[e.scenario] = e.sets
                     /\ \A n \in Scenarios : e.sets = None \/ e.scenario # n
                          => scenarios'[n] = job'[d].before[n]
      BY <1>3, <2>2 DEF MoveBooks
    <2> QED
      BY <2>1, <2>2 DEF MoveBooks, IsDispatched
  <1> QED
    BY <1>5, <1>6

\* The step that moves the scenario: the map runs ahead of the log, by the
\* move that the entry under way will record.
LEMMA SetStateMoves ==
  ASSUME TypeOK, LockDiscipline, MoveBooks, LogExplainsScenarios,
         NEW c \in Clients, SetState(c)
  PROVE  MoveBooks' /\ LogExplainsScenarios'
  <1> DEFINE f == job[c].found
             e == MatchEntry(f, job[c].request)
             m == [job[c].before EXCEPT ![f.scenario] = f.set_state]
  <1> USE DEF state_vars, log_vars
  <1>1. /\ pc[c] = "set_state" /\ scenarios_writer = c
        /\ captured' = captured /\ resetting' = resetting
        /\ scenarios_writer' = c
        /\ scenarios' = Advance(scenarios, f)
        /\ job[c].before = scenarios
        /\ scenarios \in [Scenarios -> States]
        /\ f \in Fixture \cup {None}
    BY DEF SetState, LockDiscipline, Selecting, MoveBooks, TypeOK, Job
  <1>2. /\ pc'[c] = AfterSelect(c)
        /\ AfterSelect(c) \in {"hand_over", "reserve"}
        /\ job'[c].entry = e /\ job'[c].before = scenarios
        /\ \A d \in Clients : d # c => pc'[d] = pc[d] /\ job'[d] = job[d]
    <2>1. AfterSelect(c) \in {"hand_over", "reserve"}
      BY DEF AfterSelect
    <2>2. job' = [job EXCEPT ![c] = Selected(c)] /\ pc' = [pc EXCEPT ![c] = AfterSelect(c)]
      BY <2>1 DEF SetState, Goto
    <2>3. Selected(c).entry = e /\ Selected(c).before = job[c].before
      BY DEF Selected, NoJob
    <2> QED
      BY <1>1, <2>1, <2>2, <2>3 DEF TypeOK
  <1>3. SettledScenarios = scenarios
    BY <1>1, Settled DEF Pushing
  <1>4. \A d \in Clients : d # c => ~Pushing(d) /\ ~Pushing(d)'
    BY <1>1 DEF Pushing
  <1>5. SettledScenarios' = scenarios
    <2>1. CASE AfterSelect(c) = "reserve"
      <3>1. Pushing(c)'
        BY <1>1, <1>2, <2>1 DEF Pushing
      <3> QED
        BY <1>1, <1>2, <3>1 DEF SettledScenarios
    <2>2. CASE AfterSelect(c) = "hand_over"
      <3>1. f = None
        BY <2>2 DEF AfterSelect
      <3>2. scenarios' = scenarios
        BY <1>1, <3>1 DEF Advance
      <3>3. ~Pushing(c)'
        BY <1>2, <2>2 DEF Pushing
      <3> QED
        BY <1>4, <3>2, <3>3 DEF SettledScenarios
    <2> QED
      BY <1>2, <2>1, <2>2
  <1>6. LogExplainsScenarios'
    BY <1>1, <1>3, <1>5, LogExplains DEF LogExplainsScenarios, Explains, MovedOnlyBefore
  <1>7. /\ e.sets # None => scenarios'[e.scenario] = e.sets
        /\ \A n \in Scenarios : e.sets = None \/ e.scenario # n => scenarios'[n] = scenarios[n]
    <2>1. CASE f = None
      BY <1>1, <2>1 DEF MatchEntry, NoEntry, EntryOf, Advance
    <2>2. CASE f \in Fixture /\ f # None
      <3>1. e.scenario = f.scenario /\ e.sets = f.set_state
        BY <2>2 DEF MatchEntry, EntryOf
      <3>2. f.scenario = None => f.set_state = None
        BY <2>2 DEF Fixture
      <3>3. f.scenario \in Scenarios \cup {None}
        BY <2>2 DEF Fixture
      <3> HIDE DEF f, e
      <3> QED
        BY <1>1, <2>2, <3>1, <3>2, <3>3 DEF Advance
    <2> QED
      BY <1>1, <2>1, <2>2
  <1>8. MoveBooks'
    <2>1. IsDispatched(e)
      BY <1>1, MatchEntryIsEntry
    <2>2. ASSUME NEW d \in Clients
          PROVE  /\ pc'[d] = "set_state" => job'[d].before = scenarios'
                 /\ pc'[d] \in Pushes /\ ~IsDispatched(job'[d].entry)
                      => job'[d].entry.sets = None
                 /\ Pushing(d)' =>
                      LET x == job'[d].entry
                      IN  /\ x.sets # None => scenarios'[x.scenario] = x.sets
                          /\ \A n \in Scenarios : x.sets = None \/ x.scenario # n
                               => scenarios'[n] = job'[d].before[n]
      <3>1. CASE d = c
        <4> HIDE DEF e
        <4> QED
          BY <1>2, <1>7, <2>1, <3>1
      <3>2. CASE d # c
        <4>1. pc[d] # "set_state"
          BY <1>1, <3>2 DEF LockDiscipline, Selecting
        <4> QED
          BY <1>2, <1>4, <3>2, <4>1 DEF MoveBooks
      <3> QED
        BY <3>1, <3>2
    <2> QED
      BY <2>2 DEF MoveBooks, IsDispatched
  <1> QED
    BY <1>6, <1>8

\* The step that brings the log up to the map again.
LEMMA StoreMoves ==
  ASSUME TypeOK, LockDiscipline, MoveBooks, LogExplainsScenarios,
         NEW c \in Clients, Store(c)
  PROVE  MoveBooks' /\ LogExplainsScenarios'
  <1> DEFINE e == job[c].entry
             left == Trim(captured)
  <1> USE DEF state_vars, log_vars
  <1>1. /\ pc[c] = "store"
        /\ captured' = Append(left, e) /\ resetting' = resetting
        /\ scenarios_writer' = scenarios_writer /\ scenarios' = scenarios
        /\ captured \in Seq(Entry) /\ e \in Entry
    BY DEF Store, TypeOK, Job
  <1>2. /\ pc'[c] = AfterStore(c)
        /\ AfterStore(c) \in {"broadcast", "unlock", "idle"}
        /\ \A d \in Clients : d # c => pc'[d] = pc[d] /\ job'[d] = job[d]
        /\ AfterStore(c) # "idle" => job'[c] = job[c]
    BY DEF Store, Goto, TypeOK, AfterStore, AfterPush
  <1>3. resetting = {} => Explains(left, SettledScenarios)
    BY <1>1, LogExplains, TrimExplains
  <1>4. left \in Seq(Entry)
    BY <1>1, TrimDropsPrefix
  <1>5. ~Pushing(c)' /\ \A d \in Clients : d # c => (Pushing(d)' <=> Pushing(d))
    BY <1>1, <1>2 DEF Pushing
  <1>6. resetting = {} => Explains(captured', SettledScenarios')
    <2> SUFFICES ASSUME resetting = {} PROVE Explains(captured', SettledScenarios')
      OBVIOUS
    <2>1. CASE scenarios_writer = c
      <3>1. Pushing(c) /\ SettledScenarios = job[c].before
        BY <1>1, <2>1, Settled DEF Pushing
      <3>2. SettledScenarios' = scenarios
        <4>1. \A d \in Clients : ~Pushing(d)'
          BY <1>1, <1>5, <2>1 DEF Pushing
        <4> QED
          BY <1>1, <4>1 DEF SettledScenarios
      <3>3. /\ e.sets # None => scenarios[e.scenario] = e.sets
            /\ \A s \in Scenarios : e.sets = None \/ e.scenario # s
                 => scenarios[s] = SettledScenarios[s]
        BY <3>1 DEF MoveBooks
      <3> HIDE DEF e, left
      <3> QED
        BY <1>1, <1>3, <1>4, <3>2, <3>3, AppendExplains
    <2>2. CASE scenarios_writer # c
      <3>1. e.sets = None
        BY <1>1, <2>2 DEF LockDiscipline, Pushes, MoveBooks
      <3>2. SettledScenarios' = SettledScenarios
        <4>1. ~Pushing(c) /\ ~Pushing(c)'
          BY <1>1, <2>2 DEF Pushing
        <4>2. CASE \E d \in Clients : Pushing(d)
          <5>1. PICK d \in Clients : Pushing(d)
            BY <4>2
          <5>2. d # c /\ scenarios_writer = d /\ scenarios_writer' = d /\ Pushing(d)'
            BY <1>1, <1>5, <4>1, <5>1 DEF Pushing
          <5>3. job'[d] = job[d]
            BY <1>2, <5>2
          <5> QED
            BY <5>1, <5>2, <5>3 DEF SettledScenarios
        <4>3. CASE ~\E d \in Clients : Pushing(d)
          <5>1. ~\E d \in Clients : Pushing(d)'
            BY <1>5, <4>1, <4>3
          <5> QED
            BY <1>1, <4>3, <5>1 DEF SettledScenarios
        <4> QED
          BY <4>2, <4>3
      <3> HIDE DEF e, left
      <3> QED
        BY <1>1, <1>3, <1>4, <3>1, <3>2, AppendExplains
    <2> QED
      BY <2>1, <2>2
  <1>7. LogExplainsScenarios'
    BY <1>1, <1>6 DEF LogExplainsScenarios, Explains, MovedOnlyBefore
  <1>8. MoveBooks'
    <2>1. ASSUME NEW d \in Clients
          PROVE  /\ pc'[d] = "set_state" => job'[d].before = scenarios'
                 /\ pc'[d] \in Pushes /\ ~IsDispatched(job'[d].entry)
                      => job'[d].entry.sets = None
                 /\ Pushing(d)' =>
                      LET x == job'[d].entry
                      IN  /\ x.sets # None => scenarios'[x.scenario] = x.sets
                          /\ \A n \in Scenarios : x.sets = None \/ x.scenario # n
                               => scenarios'[n] = job'[d].before[n]
      <3>1. CASE d = c
        BY <1>1, <1>2, <1>5, <3>1 DEF MoveBooks, Pushes
      <3>2. CASE d # c
        BY <1>1, <1>2, <1>5, <3>2 DEF MoveBooks
      <3> QED
        BY <3>1, <3>2
    <2> QED
      BY <2>1 DEF MoveBooks, IsDispatched
  <1> QED
    BY <1>7, <1>8

\* Numbering an entry changes nothing else of it.
LEMMA ReserveMoves ==
  ASSUME TypeOK, LockDiscipline, CapacityRespected, MoveBooks, LogExplainsScenarios,
         NEW c \in Clients, ReserveId(c)
  PROVE  MoveBooks' /\ LogExplainsScenarios'
  <1> DEFINE loc == AfterReserve(c)
             j == [job[c] EXCEPT !.entry.id = capture_counter]
  <1> USE DEF state_vars, log_vars
  <1>1. /\ pc[c] = "reserve" /\ Goto(c, loc, j)
        /\ UNCHANGED <<scenarios, scenarios_writer, captured, resetting>>
    BY DEF ReserveId
  <1>2. loc \in {"store", "broadcast", "unlock", "idle"}
    BY DEF AfterReserve, AfterStore, AfterPush
  <1>3. /\ pc'[c] = loc
        /\ \A d \in Clients : d # c => pc'[d] = pc[d] /\ job'[d] = job[d]
        /\ loc # "idle" => job'[c] = j
    BY <1>1 DEF Goto, TypeOK
  <1>4. /\ j.before = job[c].before
        /\ j.entry.sets = job[c].entry.sets /\ j.entry.scenario = job[c].entry.scenario
        /\ j.entry.outcome = job[c].entry.outcome
    BY DEF TypeOK, Job, Entry
  <1> HIDE DEF loc, j
  <1>5. loc # "idle" /\ ~IsDispatched(job'[c].entry) => job'[c].entry.sets = None
    BY <1>1, <1>3, <1>4 DEF MoveBooks, Pushes, IsDispatched
  <1>6. CASE scenarios_writer # c
    <2>1. loc # "set_state" /\ (loc \in Pushes => loc # "idle")
      BY <1>2 DEF Pushes
    <2> QED
      BY <1>1, <1>5, <1>6, <2>1, StepOutside
  <1>7. CASE scenarios_writer = c
    <2>1. Pushing(c) /\ SettledScenarios = job[c].before
      BY <1>1, <1>7, Settled DEF Pushing
    <2>2. \A d \in Clients : d # c => ~Pushing(d) /\ ~Pushing(d)'
      BY <1>1, <1>7 DEF Pushing
    <2>3. LogExplainsScenarios'
      <3>1. CASE loc = "store"
        <4>1. Pushing(c)'
          BY <1>1, <1>3, <1>7, <3>1 DEF Pushing
        <4>2. SettledScenarios' = job[c].before
          BY <1>1, <1>3, <1>4, <1>7, <3>1, <4>1 DEF SettledScenarios
        <4> QED
          BY <1>1, <2>1, <4>2, LogExplains
             DEF LogExplainsScenarios, Explains, MovedOnlyBefore
      <3>2. CASE loc # "store"
        <4>1. Capacity = 0
          BY <3>2 DEF loc, AfterReserve
        <4>2. captured = <<>>
          BY <4>1, UnboundedAssumption DEF CapacityRespected, TypeOK
        <4> QED
          BY <1>1, <4>2 DEF LogExplainsScenarios
      <3> QED
        BY <3>1, <3>2
    <2>4. ASSUME NEW d \in Clients
          PROVE  /\ pc'[d] = "set_state" => job'[d].before = scenarios'
                 /\ pc'[d] \in Pushes /\ ~IsDispatched(job'[d].entry)
                      => job'[d].entry.sets = None
                 /\ Pushing(d)' =>
                      LET x == job'[d].entry
                      IN  /\ x.sets # None => scenarios'[x.scenario] = x.sets
                          /\ \A n \in Scenarios : x.sets = None \/ x.scenario # n
                               => scenarios'[n] = job'[d].before[n]
      <3>1. CASE d = c
        <4>1. Pushing(c)' => loc # "idle"
          BY <1>3 DEF Pushing
        <4> QED
          BY <1>1, <1>2, <1>3, <1>4, <1>5, <2>1, <3>1, <4>1 DEF MoveBooks, Pushes
      <3>2. CASE d # c
        BY <1>1, <1>3, <2>2, <3>2 DEF MoveBooks
      <3> QED
        BY <3>1, <3>2
    <2> QED
      BY <2>3, <2>4 DEF MoveBooks, IsDispatched
  <1> QED
    BY <1>6, <1>7

\* Steps that leave every request where it is and the map and the log alone.
LEMMA StutterMoves ==
  ASSUME MoveBooks, LogExplainsScenarios,
         UNCHANGED <<scenarios, scenarios_writer, captured, resetting, pc, job>>
  PROVE  MoveBooks' /\ LogExplainsScenarios'
  <1>1. \A d \in Clients : Pushing(d)' <=> Pushing(d)
    BY DEF Pushing
  <1>2. SettledScenarios' = SettledScenarios
    BY <1>1 DEF SettledScenarios
  <1> QED
    BY <1>1, <1>2 DEF MoveBooks, LogExplainsScenarios, IsDispatched

\* Every step keeps the log and the moves of the scenarios together.
LEMMA StepMoves ==
  ASSUME TypeOK, LockDiscipline, CapacityRespected, MoveBooks, LogExplainsScenarios,
         [Next]_vars
  PROVE  MoveBooks' /\ LogExplainsScenarios'
  <1> DEFINE Goal == MoveBooks' /\ LogExplainsScenarios'
  <1> USE DEF state_vars, log_vars, client_vars
  <1>0. pc \in [Clients -> Locations] /\ job \in [Clients -> Job] /\ None \notin Clients
    BY NoneAssumption DEF TypeOK
  <1>1. ASSUME NEW c \in Clients, NEW r \in Requests, Arrive(c, r)
        PROVE  Goal
    <2>1. scenarios_writer # c /\ "read_fixtures" \notin Pushes
      BY <1>1 DEF Arrive, LockDiscipline, Selecting, Pushes
    <2> QED
      BY <1>1, <2>1, StepOutside DEF Arrive
  <1>2. ASSUME NEW c \in Clients, NEW outcome \in Early, ArriveUnmatched(c, outcome)
        PROVE  Goal
    <2>1. scenarios_writer # c
      BY <1>2 DEF ArriveUnmatched, LockDiscipline, Selecting, Pushes
    <2>2. job'[c].entry.sets = None
      BY <1>0, <1>2 DEF ArriveUnmatched, Goto, EntryOf, NoJob
    <2> QED
      BY <1>2, <2>1, <2>2, StepOutside DEF ArriveUnmatched
  <1>3. ASSUME NEW c \in Clients, ReadLockFixtures(c)
        PROVE  Goal
    <2>1. scenarios_writer # c /\ "write_scenarios" \notin Pushes
      BY <1>3 DEF ReadLockFixtures, LockDiscipline, Selecting, Pushes
    <2> QED
      BY <1>3, <2>1, StepOutside DEF ReadLockFixtures
  <1>4. ASSUME NEW c \in Clients, WriteLockScenarios(c)
        PROVE  Goal
    <2>1. /\ scenarios_writer = None /\ scenarios_writer' = c /\ pc'[c] = "find"
          /\ \A d \in Clients : d # c => pc'[d] = pc[d] /\ job'[d] = job[d]
          /\ UNCHANGED <<scenarios, captured, resetting>>
      BY <1>0, <1>4 DEF WriteLockScenarios, Goto
    <2>2. \A d \in Clients : ~Pushing(d) /\ ~Pushing(d)'
      BY <1>0, <2>1 DEF Pushing
    <2>3. SettledScenarios = scenarios /\ SettledScenarios' = scenarios
      BY <2>1, <2>2 DEF SettledScenarios
    <2>4. \A d \in Clients : pc[d] # "set_state"
      BY <1>0, <2>1 DEF LockDiscipline, Selecting
    <2> QED
      BY <2>1, <2>2, <2>3, <2>4, LogExplains
         DEF MoveBooks, LogExplainsScenarios, Explains, MovedOnlyBefore, IsDispatched, Pushes
  <1>5. ASSUME NEW c \in Clients, FindMatch(c)
        PROVE  Goal
    <2>1. /\ scenarios_writer = c /\ pc[c] = "find" /\ pc'[c] = "set_state"
          /\ \A d \in Clients : d # c => pc'[d] = pc[d] /\ job'[d] = job[d]
          /\ UNCHANGED <<scenarios, scenarios_writer, captured, resetting>>
      BY <1>0, <1>5 DEF FindMatch, Goto, LockDiscipline, Selecting
    <2>2. job'[c].before = scenarios
      <3> HIDE DEF Choice
      <3> QED
        BY <1>0, <1>5 DEF FindMatch, Goto, Job
    <2>3. \A d \in Clients : ~Pushing(d) /\ ~Pushing(d)'
      BY <2>1 DEF Pushing
    <2>4. SettledScenarios = scenarios /\ SettledScenarios' = scenarios
      BY <2>1, <2>3 DEF SettledScenarios
    <2> QED
      BY <2>1, <2>2, <2>3, <2>4, LogExplains
         DEF MoveBooks, LogExplainsScenarios, Explains, MovedOnlyBefore, IsDispatched, Pushes
  <1>6. ASSUME NEW c \in Clients, Unlock(c)
        PROVE  Goal
    <2>1. /\ scenarios_writer = c /\ scenarios_writer' = None
          /\ pc[c] \in {"unlock", "hand_over"} /\ pc'[c] \in {"upstream", "idle"}
          /\ \A d \in Clients : d # c => pc'[d] = pc[d] /\ job'[d] = job[d]
          /\ UNCHANGED <<scenarios, captured, resetting>>
      BY <1>0, <1>6 DEF Unlock, Goto, LockDiscipline, Selecting
    <2>2. \A d \in Clients : ~Pushing(d) /\ ~Pushing(d)'
      BY <1>0, <2>1 DEF Pushing
    <2>3. SettledScenarios = scenarios /\ SettledScenarios' = scenarios
      BY <2>1, <2>2 DEF SettledScenarios
    <2> QED
      BY <2>1, <2>2, <2>3, LogExplains
         DEF MoveBooks, LogExplainsScenarios, Explains, MovedOnlyBefore, IsDispatched, Pushes
  <1>7. ASSUME NEW c \in Clients, NEW status \in UpstreamStatuses,
               UpstreamAnswers(c, status)
        PROVE  Goal
    <2>1. scenarios_writer # c
      BY <1>7 DEF UpstreamAnswers, LockDiscipline, Selecting, Pushes
    <2>2. job'[c].entry.sets = None
      BY <1>0, <1>7 DEF UpstreamAnswers, Goto, EntryOf, NoJob
    <2> QED
      BY <1>7, <2>1, <2>2, StepOutside DEF UpstreamAnswers
  <1>8. ASSUME NEW c \in Clients, ClientLeaves(c)
        PROVE  Goal
    <2>1. scenarios_writer # c /\ "idle" \notin Pushes
      BY <1>8 DEF ClientLeaves, LockDiscipline, Selecting, Pushes
    <2> QED
      BY <1>8, <2>1, StepOutside DEF ClientLeaves
  <1>9. ASSUME NEW c \in Clients, Broadcast(c)
        PROVE  Goal
    <2>1. AfterPush(c) \in {"unlock", "idle"}
      BY DEF AfterPush
    <2> QED
      BY <1>9, <2>1, StepOutside DEF Broadcast, Pushes
  <1>10. ASSUME NEW a \in Admins, ResetScenarios(a)
         PROVE  Goal
    <2>1. /\ scenarios_writer = None /\ scenarios_writer' = None
          /\ resetting' # {} /\ UNCHANGED <<pc, job>>
      BY <1>10 DEF ResetScenarios
    <2>2. \A d \in Clients : ~Pushing(d)' /\ pc[d] # "set_state"
      BY <1>0, <2>1 DEF Pushing, LockDiscipline, Selecting
    <2> QED
      BY <2>1, <2>2 DEF MoveBooks, LogExplainsScenarios, IsDispatched
  <1>11. ASSUME NEW a \in Admins, ResetCaptured(a)
         PROVE  Goal
    <2>1. captured' = <<>> /\ UNCHANGED <<scenarios, scenarios_writer, pc, job>>
      BY <1>11 DEF ResetCaptured
    <2>2. \A d \in Clients : Pushing(d)' <=> Pushing(d)
      BY <2>1 DEF Pushing
    <2> QED
      BY <2>1, <2>2 DEF MoveBooks, LogExplainsScenarios, IsDispatched
  <1>12. ASSUME NEW S \in FixtureSets, SwapFixtures(S)
         PROVE  Goal
    BY <1>12, StutterMoves DEF SwapFixtures
  <1>13. CASE UNCHANGED vars
    BY <1>13, StutterMoves DEF vars
  <1> QED
    BY <1>1, <1>2, <1>3, <1>4, <1>5, <1>6, <1>7, <1>8, <1>9, <1>10, <1>11, <1>12,
       <1>13, SetStateMoves, StoreMoves, ReserveMoves DEF Next, Serve, ArriveEarly, ArriveUtility

-----------------------------------------------------------------------------
IInv == /\ TypeOK /\ LockDiscipline
        /\ IdBooks /\ DispatchIdsOrdered /\ CapacityRespected
        /\ MoveBooks /\ LogExplainsScenarios

\* The inductive invariant of the locks, the ids, the log and the moves, always.
THEOREM SpecIInv == Spec => []IInv
  <1>1. Init => IInv
    BY InitTypes, InitLocks, InitIds, InitMoves DEF IInv
  <1>2. IInv /\ [Next]_vars => IInv'
    BY StepTypes, StepLocks, StepIds, StepMoves DEF IInv
  <1> QED
    BY <1>1, <1>2, PTL DEF Spec

\* The log never holds more than capture_capacity entries.
THEOREM CapacityIsRespected == Spec => []CapacityRespected
  BY SpecIInv, PTL DEF IInv

\* The entries of dispatched requests are in the order of their ids, in the
\* log and in the feed: the push is made under the scenarios lock.
THEOREM DispatchIdsAreOrdered == Spec => []DispatchIdsOrdered
  BY SpecIInv, PTL DEF IInv

\* Unless a reset is between its two statements, the last entry in the log
\* that moved a scenario left it in the state it is in.
THEOREM LogAgreesWithScenarios == Spec => []LogExplainsScenarios
  BY SpecIInv, PTL DEF IInv

-----------------------------------------------------------------------------
(* The feed.  Each id that was drawn is in the feed or with the one client  *)
(* that drew it, and none is in two places.                                *)

Drawn(c) == pc[c] \in {"store", "broadcast"}

FeedBooks ==
  UiEnabled =>
    /\ \A i, j \in DOMAIN ui_feed : ui_feed[i].id = ui_feed[j].id => i = j
    /\ \A c, d \in Clients :
         Drawn(c) /\ Drawn(d) /\ job[c].entry.id = job[d].entry.id => c = d
    /\ \A c \in Clients, i \in DOMAIN ui_feed :
         Drawn(c) => job[c].entry.id # ui_feed[i].id
    /\ \A n \in 0 .. capture_counter - 1 :
         \/ \E i \in DOMAIN ui_feed : ui_feed[i].id = n
         \/ \E c \in Clients : Drawn(c) /\ job[c].entry.id = n

\* Nothing is broadcast, and no id is drawn, at the start.
LEMMA InitFeed == Init => FeedBooks
  BY DEF Init, FeedBooks, Drawn

\* What the feed depends on, when no id is drawn or broadcast.
LEMMA SameFeed ==
  ASSUME FeedBooks, UNCHANGED <<ui_feed, capture_counter>>,
         \A d \in Clients :
           /\ Drawn(d)' <=> Drawn(d)
           /\ Drawn(d) => job'[d].entry.id = job[d].entry.id
  PROVE  FeedBooks'
  BY DEF FeedBooks

\* A step that takes one client from an undrawn location to another.
LEMMA UndrawnFeed ==
  ASSUME TypeOK, FeedBooks, NEW c \in Clients, NEW loc, NEW j, Goto(c, loc, j),
         UNCHANGED <<ui_feed, capture_counter>>, ~Drawn(c),
         loc \notin {"store", "broadcast"}
  PROVE  FeedBooks'
  <1>1. \A d \in Clients : /\ Drawn(d)' <=> Drawn(d)
                           /\ Drawn(d) => job'[d].entry.id = job[d].entry.id
    BY DEF Goto, TypeOK, Drawn
  <1> QED
    BY <1>1, SameFeed

\* The id that is drawn is owed to the feed.
LEMMA ReserveFeed ==
  ASSUME IInv, FeedBooks, NEW c \in Clients, ReserveId(c)
  PROVE  FeedBooks'
  <1> SUFFICES ASSUME UiEnabled PROVE FeedBooks'
    BY DEF FeedBooks
  <1>1. /\ capture_counter \in Nat /\ capture_counter' = capture_counter + 1
        /\ ui_feed' = ui_feed /\ pc[c] = "reserve"
    BY DEF ReserveId, IInv, TypeOK
  <1>2. AfterReserve(c) \in {"store", "broadcast"}
    BY DEF AfterReserve, AfterStore
  <1>3. Drawn(c)' /\ ~Drawn(c) /\ job'[c].entry.id = capture_counter
    BY <1>1, <1>2 DEF ReserveId, Goto, IInv, TypeOK, Job, Entry, Drawn
  <1>4. \A d \in Clients \ {c} : (Drawn(d)' <=> Drawn(d)) /\ job'[d] = job[d]
    BY DEF ReserveId, Goto, IInv, TypeOK, Drawn
  <1>5. /\ \A d \in Clients : Drawn(d) => job[d].entry.id < capture_counter
        /\ \A i \in DOMAIN ui_feed : ui_feed[i].id < capture_counter
    BY DEF IInv, IdBooks, Drawn
  <1>6. \A d \in Clients \ {c} : Drawn(d)' => job'[d].entry.id # capture_counter
    BY <1>1, <1>4, <1>5
  <1>7. \A d, e \in Clients :
          Drawn(d)' /\ Drawn(e)' /\ job'[d].entry.id = job'[e].entry.id => d = e
    BY <1>3, <1>4, <1>6 DEF FeedBooks
  <1>8. \A d \in Clients, i \in DOMAIN ui_feed : Drawn(d)' => job'[d].entry.id # ui_feed[i].id
    BY <1>1, <1>3, <1>4, <1>5 DEF FeedBooks
  <1>9. ASSUME NEW n \in 0 .. capture_counter
        PROVE  \/ \E i \in DOMAIN ui_feed : ui_feed[i].id = n
               \/ \E d \in Clients : Drawn(d)' /\ job'[d].entry.id = n
    <2>1. CASE n = capture_counter
      BY <1>3, <2>1
    <2>2. CASE n \in 0 .. capture_counter - 1
      BY <1>3, <1>4, <2>2 DEF FeedBooks
    <2> QED
      BY <1>1, <2>1, <2>2
  <1> QED
    BY <1>1, <1>7, <1>8, <1>9 DEF FeedBooks

\* The id that is broadcast is owed no more.
LEMMA BroadcastFeed ==
  ASSUME IInv, FeedBooks, NEW c \in Clients, Broadcast(c)
  PROVE  FeedBooks'
  <1> SUFFICES ASSUME UiEnabled PROVE FeedBooks'
    BY DEF FeedBooks
  <1> DEFINE e == job[c].entry
  <1>1. /\ ui_feed \in Seq(Entry) /\ e \in Entry /\ Drawn(c)
        /\ capture_counter' = capture_counter /\ ui_feed' = Append(ui_feed, e)
    BY DEF Broadcast, IInv, TypeOK, Job, Drawn
  <1>2. /\ Len(ui_feed) \in Nat /\ DOMAIN ui_feed = 1 .. Len(ui_feed)
        /\ DOMAIN ui_feed' = 1 .. Len(ui_feed) + 1
        /\ ui_feed'[Len(ui_feed) + 1] = e
        /\ \A i \in DOMAIN ui_feed : ui_feed'[i] = ui_feed[i]
    BY <1>1
  <1>3. ~Drawn(c)'
    BY DEF Broadcast, AfterPush, Goto, IInv, TypeOK, Drawn
  <1>4. \A d \in Clients \ {c} : (Drawn(d)' <=> Drawn(d)) /\ job'[d] = job[d]
    BY DEF Broadcast, Goto, IInv, TypeOK, Drawn
  <1> HIDE DEF e
  <1>5. \A i \in DOMAIN ui_feed : ui_feed[i].id # e.id
    BY <1>1 DEF FeedBooks, e
  <1>6. \A i, j \in DOMAIN ui_feed' : ui_feed'[i].id = ui_feed'[j].id => i = j
    <2>1. \A i \in DOMAIN ui_feed' : i \in DOMAIN ui_feed \/ i = Len(ui_feed) + 1
      BY <1>2
    <2> QED
      BY <1>2, <1>5, <2>1 DEF FeedBooks
  <1>7. \A d, f \in Clients :
          Drawn(d)' /\ Drawn(f)' /\ job'[d].entry.id = job'[f].entry.id => d = f
    BY <1>3, <1>4 DEF FeedBooks
  <1>8. \A d \in Clients, i \in DOMAIN ui_feed' :
          Drawn(d)' => job'[d].entry.id # ui_feed'[i].id
    <2>1. \A d \in Clients : Drawn(d)' => job'[d].entry.id # e.id
      BY <1>1, <1>3, <1>4 DEF FeedBooks, e
    <2>2. \A i \in DOMAIN ui_feed' : i \in DOMAIN ui_feed \/ i = Len(ui_feed) + 1
      BY <1>2
    <2> QED
      BY <1>2, <1>3, <1>4, <2>1, <2>2 DEF FeedBooks
  <1>9. ASSUME NEW n \in 0 .. capture_counter - 1
        PROVE  \/ \E i \in DOMAIN ui_feed' : ui_feed'[i].id = n
               \/ \E d \in Clients : Drawn(d)' /\ job'[d].entry.id = n
    <2>1. CASE \E i \in DOMAIN ui_feed : ui_feed[i].id = n
      <3>1. PICK i \in DOMAIN ui_feed : ui_feed[i].id = n
        BY <2>1
      <3>2. i \in DOMAIN ui_feed' /\ ui_feed'[i].id = n
        BY <1>2, <3>1
      <3> QED
        BY <3>2
    <2>2. CASE \E d \in Clients : Drawn(d) /\ job[d].entry.id = n
      <3>1. PICK d \in Clients : Drawn(d) /\ job[d].entry.id = n
        BY <2>2
      <3>2. CASE d = c
        <4>1. Len(ui_feed) + 1 \in DOMAIN ui_feed' /\ ui_feed'[Len(ui_feed) + 1].id = n
          BY <1>2, <3>1, <3>2 DEF e
        <4> QED
          BY <4>1
      <3>3. CASE d # c
        BY <1>4, <3>1, <3>3
      <3> QED
        BY <3>2, <3>3
    <2> QED
      BY <2>1, <2>2 DEF FeedBooks
  <1> QED
    BY <1>1, <1>6, <1>7, <1>8, <1>9 DEF FeedBooks

\* Storing an entry changes nothing of what is owed.
LEMMA StoreFeed ==
  ASSUME IInv, FeedBooks, NEW c \in Clients, Store(c)
  PROVE  FeedBooks'
  <1>1. CASE UiEnabled
    <2>1. AfterStore(c) = "broadcast"
      BY <1>1 DEF AfterStore
    <2>2. \A d \in Clients : /\ Drawn(d)' <=> Drawn(d)
                             /\ Drawn(d) => job'[d].entry.id = job[d].entry.id
      BY <2>1 DEF Store, Goto, IInv, TypeOK, Drawn
    <2> QED
      BY <2>2, SameFeed DEF Store
  <1>2. CASE ~UiEnabled
    BY <1>2 DEF FeedBooks
  <1> QED
    BY <1>1, <1>2

\* Every step keeps every id drawn either broadcast or owed by a client.
LEMMA StepFeed == IInv /\ FeedBooks /\ [Next]_vars => FeedBooks'
  <1> SUFFICES ASSUME IInv, FeedBooks, [Next]_vars PROVE FeedBooks'
    OBVIOUS
  <1>0. TypeOK
    BY DEF IInv
  <1>1. ASSUME NEW c \in Clients,
               \/ \E r \in Requests : Arrive(c, r)
               \/ \E outcome \in Early : ArriveUnmatched(c, outcome)
               \/ ReadLockFixtures(c) \/ WriteLockScenarios(c) \/ FindMatch(c)
               \/ \E status \in UpstreamStatuses : UpstreamAnswers(c, status)
               \/ ClientLeaves(c)
        PROVE  FeedBooks'
    <2>1. /\ ~Drawn(c) /\ UNCHANGED <<ui_feed, capture_counter>>
          /\ \E loc, j : loc \notin {"store", "broadcast"} /\ Goto(c, loc, j)
      BY <1>1 DEF Arrive, ArriveUnmatched, ReadLockFixtures, WriteLockScenarios, FindMatch,
                  UpstreamAnswers, ClientLeaves, Drawn, log_vars
    <2> QED
      BY <1>0, <2>1, UndrawnFeed
  <1>2. ASSUME NEW c \in Clients, SetState(c) \/ Unlock(c)
        PROVE  FeedBooks'
    <2>1. /\ ~Drawn(c) /\ UNCHANGED <<ui_feed, capture_counter>>
          /\ \E loc, j : loc \notin {"store", "broadcast"} /\ Goto(c, loc, j)
      BY <1>2 DEF SetState, Unlock, AfterSelect, Drawn, log_vars
    <2> QED
      BY <1>0, <2>1, UndrawnFeed
  <1>3. ASSUME UNCHANGED <<ui_feed, capture_counter, pc, job>>
        PROVE  FeedBooks'
    BY <1>3, SameFeed DEF Drawn
  <1>4. ASSUME NEW a \in Admins, ResetScenarios(a) \/ ResetCaptured(a)
        PROVE  FeedBooks'
    BY <1>3, <1>4 DEF ResetScenarios, ResetCaptured, log_vars, client_vars
  <1>5. ASSUME NEW S \in FixtureSets, SwapFixtures(S)
        PROVE  FeedBooks'
    BY <1>3, <1>5 DEF SwapFixtures, log_vars, client_vars
  <1>6. CASE UNCHANGED vars
    BY <1>3, <1>6 DEF vars, log_vars, client_vars
  <1> QED
    BY <1>1, <1>2, <1>4, <1>5, <1>6, ReserveFeed, BroadcastFeed, StoreFeed
       DEF Next, Serve, ArriveEarly, ArriveUtility

\* Every id drawn is broadcast or owed by a client, always.
THEOREM SpecFeed == Spec => []FeedBooks
  BY SpecIInv, InitFeed, StepFeed, PTL DEF Spec

\* A sequence that numbers its elements 0 .. n - 1 in some order has n of them.
LEMMA NumberedLength ==
  ASSUME NEW s \in Seq(Entry), NEW n \in Nat,
         \A i, j \in DOMAIN s : s[i].id = s[j].id => i = j,
         { s[i].id : i \in DOMAIN s } = 0 .. n - 1
  PROVE  Len(s) = n
  <1> DEFINE f == [i \in 1 .. Len(s) |-> s[i].id]
  <1>1. DOMAIN s = 1 .. Len(s) /\ Len(s) \in Nat
    OBVIOUS
  <1>2. f \in Bijection(1 .. Len(s), 0 .. n - 1)
    <2>1. f \in [1 .. Len(s) -> 0 .. n - 1]
      BY <1>1
    <2>2. \A i, j \in 1 .. Len(s) : f[i] = f[j] => i = j
      BY <1>1
    <2>3. \A m \in 0 .. n - 1 : \E i \in 1 .. Len(s) : f[i] = m
      BY <1>1
    <2> HIDE DEF f
    <2> QED
      BY <2>1, <2>2, <2>3 DEF Bijection, Injection, Surjection, IsInjective
  <1>3. /\ IsFiniteSet(1 .. Len(s)) /\ Cardinality(1 .. Len(s)) = Len(s)
        /\ IsFiniteSet(0 .. n - 1) /\ Cardinality(0 .. n - 1) = n
    <2> HIDE DEF f
    <2>1. /\ IsFiniteSet(1 .. Len(s))
          /\ Cardinality(1 .. Len(s)) = IF 1 > Len(s) THEN 0 ELSE Len(s) - 1 + 1
      BY <1>1, FS_Interval
    <2>2. /\ IsFiniteSet(0 .. n - 1)
          /\ Cardinality(0 .. n - 1) = IF 0 > n - 1 THEN 0 ELSE n - 1 - 0 + 1
      BY FS_Interval
    <2> QED
      BY <1>1, <2>1, <2>2
  <1> HIDE DEF f
  <1>4. Cardinality(1 .. Len(s)) = Cardinality(0 .. n - 1)
    BY <1>2, <1>3, FS_Bijection DEF ExistsBijection
  <1> QED
    BY <1>3, <1>4

\* When no request is under way, each id drawn was broadcast exactly once, for
\* any number of clients, whatever was reset or evicted in the meantime.
THEOREM FeedShowsEachOnce == Spec => []FeedIsComplete
  <1>1. ASSUME IInv, FeedBooks
        PROVE  FeedIsComplete
    <2> SUFFICES ASSUME UiEnabled, \A c \in Clients : pc[c] \in {"idle", "upstream"}
                 PROVE  /\ Len(ui_feed) = capture_counter
                        /\ { ui_feed[i].id : i \in DOMAIN ui_feed } = 0 .. capture_counter - 1
      BY DEF FeedIsComplete
    <2>1. ui_feed \in Seq(Entry) /\ capture_counter \in Nat
      BY <1>1 DEF IInv, TypeOK
    <2>2. \A c \in Clients : ~Drawn(c)
      BY DEF Drawn
    <2>3. \A i \in DOMAIN ui_feed : ui_feed[i].id \in 0 .. capture_counter - 1
      <3>1. \A i \in DOMAIN ui_feed : ui_feed[i] \in Entry
        BY <2>1
      <3> QED
        BY <1>1, <2>1, <3>1 DEF IInv, IdBooks, Entry
    <2>4. \A n \in 0 .. capture_counter - 1 : \E i \in DOMAIN ui_feed : ui_feed[i].id = n
      BY <1>1, <2>2 DEF FeedBooks
    <2>5. { ui_feed[i].id : i \in DOMAIN ui_feed } = 0 .. capture_counter - 1
      BY <2>3, <2>4
    <2>6. \A i, j \in DOMAIN ui_feed : ui_feed[i].id = ui_feed[j].id => i = j
      BY <1>1 DEF FeedBooks
    <2> QED
      BY <2>1, <2>5, <2>6, NumberedLength
  <1> QED
    BY <1>1, SpecIInv, SpecFeed, PTL

-----------------------------------------------------------------------------
(* Refinement.  Concurrent dispatch implements AtomicDispatch: for any     *)
(* number of clients and admins, any requests, fixture sets and capacity,  *)
(* it is as if each request were matched, moved its scenario and entered   *)
(* the log in a single step.                                               *)

-----------------------------------------------------------------------------
(* What a log shows, as a recursive function of its prefixes.              *)

\* Induction over the natural numbers, for sets.
LEMMA SetInduction ==
  ASSUME NEW S, 0 \in S, \A n \in Nat : n \in S => n + 1 \in S
  PROVE  Nat \subseteq S
  <1> SUFFICES ASSUME Nat \ S # {} PROVE FALSE
    OBVIOUS
  <1> DEFINE Less == { ss \in Nat \X Nat : ss[1] < ss[2] }
  <1>1. IsWellFoundedOn(Less, Nat)
    BY NatLessThanWellFounded DEF OpToRel
  <1>2. PICK x \in Nat \ S : \A y \in Nat \ S : ~(<<y, x>> \in Less)
    <2>1. Nat \ S \subseteq Nat
      OBVIOUS
    <2> HIDE DEF Less
    <2> QED
      BY <1>1, <2>1, WFMin
  <1>3. x # 0 /\ x - 1 \in Nat
    OBVIOUS
  <1>4. <<x - 1, x>> \in Less
    BY <1>3
  <1>5. x - 1 \in S
    BY <1>2, <1>3, <1>4
  <1> QED
    BY <1>3, <1>5

ShownEntry ==
  [ outcome : Outcomes, scenario : Scenarios \cup {None},
    sets : States \cup {None}, status : Nat ]

\* What the next entry of a log adds to what its first ones show.
Adding(shown, e) == IF IsDispatched(e) THEN Append(shown, AsShown(e)) ELSE shown

\* f maps each n up to m to what the first n entries of log show.
Shows(f, log, m) ==
  /\ f \in [0 .. m -> Seq(ShownEntry)]
  /\ f[0] = <<>>
  /\ \A n \in 1 .. m : f[n] = Adding(f[n - 1], log[n])

\* One entry more of a log as the abstract specification sees it.
LEMMA AddingIsLog ==
  ASSUME NEW shown \in Seq(ShownEntry), NEW e \in Entry
  PROVE  Adding(shown, e) \in Seq(ShownEntry)
  <1>1. AsShown(e) \in ShownEntry
    BY DEF AsShown, ShownEntry, Entry
  <1> HIDE DEF ShownEntry, Entry
  <1> QED
    BY <1>1, AppendProperties DEF Adding

\* DispatchedIn is a recursive function: there is one with its equations, ...
LEMMA ShowsExists ==
  ASSUME NEW log \in Seq(Entry)
  PROVE  \E f : Shows(f, log, Len(log))
  <1> DEFINE S == { m \in Nat : m <= Len(log) => \E f : Shows(f, log, m) }
  <1>1. 0 \in S
    <2>1. Shows([n \in 0 .. 0 |-> <<>>], log, 0)
      BY EmptySeq DEF Shows
    <2> QED
      BY <2>1
  <1>2. ASSUME NEW m \in Nat, m \in S
        PROVE  m + 1 \in S
    <2> SUFFICES ASSUME m + 1 <= Len(log)
                 PROVE  \E f : Shows(f, log, m + 1)
      OBVIOUS
    <2>1. Len(log) \in Nat
      OBVIOUS
    <2>2. PICK f : Shows(f, log, m)
      BY <1>2, <2>1
    <2> DEFINE next == Adding(f[m], log[m + 1])
               g == [n \in 0 .. m + 1 |-> IF n <= m THEN f[n] ELSE next]
    <2>3. f[m] \in Seq(ShownEntry)
      BY <2>2 DEF Shows
    <2>4. next \in Seq(ShownEntry)
      <3>1. log[m + 1] \in Entry
        BY <2>1, ElementOfSeq
      <3> QED
        BY <2>3, <3>1, AddingIsLog
    <2> HIDE DEF next
    <2>5. g \in [0 .. m + 1 -> Seq(ShownEntry)]
      BY <2>2, <2>4 DEF Shows
    <2>6. g[0] = <<>>
      BY <2>2 DEF Shows
    <2>7. ASSUME NEW n \in 1 .. m + 1
          PROVE  g[n] = Adding(g[n - 1], log[n])
      <3>1. CASE n = m + 1
        <4>1. g[n] = next /\ g[n - 1] = f[m]
          BY <3>1
        <4> QED
          BY <3>1, <4>1 DEF next
      <3>2. CASE n \in 1 .. m
        <4>1. g[n] = f[n] /\ g[n - 1] = f[n - 1]
          BY <3>2
        <4> QED
          BY <2>2, <3>2, <4>1 DEF Shows
      <3> QED
        BY <3>1, <3>2
    <2>8. Shows(g, log, m + 1)
      BY <2>5, <2>6, <2>7 DEF Shows
    <2> QED
      BY <2>8
  <1>3. Nat \subseteq S
    <2> HIDE DEF S
    <2> QED
      BY <1>1, <1>2, SetInduction
  <1> QED
    BY <1>3

\* ... and its last value is what the log shows.
LEMMA ShowsDefines ==
  ASSUME NEW log \in Seq(Entry)
  PROVE  \E f : Shows(f, log, Len(log)) /\ DispatchedIn(log) = f[Len(log)]
  <1> DEFINE body(f) == [n \in 0 .. Len(log) |->
               IF n = 0 THEN <<>>
               ELSE IF IsDispatched(log[n]) THEN Append(f[n - 1], AsShown(log[n]))
               ELSE f[n - 1]]
             shown == CHOOSE f : f = body(f)
  <1>0. Len(log) \in Nat
    OBVIOUS
  <1>1. PICK f : Shows(f, log, Len(log))
    BY ShowsExists
  <1>2. f = body(f)
    <2>1. f = [n \in 0 .. Len(log) |-> f[n]]
      BY <1>1 DEF Shows
    <2>2. \A n \in 0 .. Len(log) : f[n] =
            IF n = 0 THEN <<>>
            ELSE IF IsDispatched(log[n]) THEN Append(f[n - 1], AsShown(log[n]))
            ELSE f[n - 1]
      <3>1. /\ f[0] = <<>>
            /\ \A n \in 1 .. Len(log) : f[n] = Adding(f[n - 1], log[n])
        BY <1>1 DEF Shows
      <3>2. \A n \in 0 .. Len(log) : n = 0 \/ (n \in 1 .. Len(log) /\ n # 0)
        BY <1>0
      <3> QED
        BY <3>1, <3>2 DEF Adding
    <2> QED
      BY <2>1, <2>2
  <1>3. shown = body(shown)
    <2> HIDE DEF body
    <2> QED
      BY <1>2
  <1>4. DispatchedIn(log) = shown[Len(log)]
    BY DEF DispatchedIn
  <1> HIDE DEF shown
  <1>5. /\ DOMAIN shown = 0 .. Len(log)
        /\ shown[0] = <<>>
        /\ \A n \in 1 .. Len(log) : shown[n] = Adding(shown[n - 1], log[n])
    <2>1. DOMAIN shown = 0 .. Len(log)
      BY <1>3
    <2>2. shown[0] = <<>>
      BY <1>0, <1>3
    <2>3. ASSUME NEW n \in 1 .. Len(log)
          PROVE  shown[n] = Adding(shown[n - 1], log[n])
      <3>1. n \in 0 .. Len(log) /\ n # 0
        BY <1>0
      <3>2. shown[n] = IF n = 0 THEN <<>>
                       ELSE IF IsDispatched(log[n])
                            THEN Append(shown[n - 1], AsShown(log[n]))
                            ELSE shown[n - 1]
        BY <1>3, <3>1
      <3> QED
        BY <3>1, <3>2 DEF Adding
    <2> QED
      BY <2>1, <2>2, <2>3
  <1>6. ASSUME NEW n \in 0 .. Len(log)
        PROVE  shown[n] \in Seq(ShownEntry)
    <2> DEFINE S == { m \in Nat : m <= Len(log) => shown[m] \in Seq(ShownEntry) }
    <2>1. 0 \in S
      BY <1>5, EmptySeq
    <2>2. ASSUME NEW m \in Nat, m \in S
          PROVE  m + 1 \in S
      <3> SUFFICES ASSUME m + 1 <= Len(log)
                   PROVE  shown[m + 1] \in Seq(ShownEntry)
        OBVIOUS
      <3>1. shown[m] \in Seq(ShownEntry)
        BY <1>0, <2>2
      <3>2. log[m + 1] \in Entry
        BY <1>0, ElementOfSeq
      <3>3. shown[m + 1] = Adding(shown[m], log[m + 1])
        BY <1>0, <1>5
      <3> QED
        BY <3>1, <3>2, <3>3, AddingIsLog
    <2>3. Nat \subseteq S
      <3> HIDE DEF S
      <3> QED
        BY <2>1, <2>2, SetInduction
    <2> QED
      BY <1>0, <2>3
  <1>7. shown = [n \in 0 .. Len(log) |-> shown[n]]
    BY <1>3
  <1>8. Shows(shown, log, Len(log))
    BY <1>5, <1>6, <1>7 DEF Shows
  <1> QED
    BY <1>4, <1>8

\* What a log shows is a log of the abstract specification.
LEMMA ShownIsLog ==
  ASSUME NEW log \in Seq(Entry)
  PROVE  DispatchedIn(log) \in Seq(ShownEntry)
  BY ShowsDefines DEF Shows

\* An empty log shows nothing.
LEMMA EmptyShowsNothing == DispatchedIn(<<>>) = <<>>
  <1>1. <<>> \in Seq(Entry) /\ Len(<<>>) = 0
    BY EmptySeq
  <1> QED
    BY <1>1, ShowsDefines DEF Shows

\* Append goes through a concatenation.
LEMMA AppendAfterConcat ==
  ASSUME NEW a \in Seq(ShownEntry), NEW b \in Seq(ShownEntry), NEW x \in ShownEntry
  PROVE  Append(a \o b, x) = a \o Append(b, x)
  <1>1. a \o b \in Seq(ShownEntry)
    BY ConcatProperties
  <1>2. <<x>> \in Seq(ShownEntry)
    OBVIOUS
  <1>3. Append(a \o b, x) = (a \o b) \o <<x>> /\ Append(b, x) = b \o <<x>>
    BY <1>1, AppendIsConcat
  <1>4. (a \o b) \o <<x>> = a \o (b \o <<x>>)
    BY <1>2, ConcatAssociative
  <1> QED
    BY <1>3, <1>4, Zenon

\* A log shows what its first entries show, then what the others show.
LEMMA SuffixShows ==
  ASSUME NEW log \in Seq(Entry), NEW left \in Seq(Entry),
         NEW k \in 0 .. Len(log), IsSuffixFrom(k, left, log)
  PROVE  \E pre \in Seq(ShownEntry) :
           /\ DispatchedIn(log) = pre \o DispatchedIn(left)
           /\ k = 0 => pre = <<>>
           /\ k = 1 => Len(pre) <= 1
  <1>1. PICK f : Shows(f, log, Len(log)) /\ DispatchedIn(log) = f[Len(log)]
    BY ShowsDefines
  <1>2. PICK g : Shows(g, left, Len(left)) /\ DispatchedIn(left) = g[Len(left)]
    BY ShowsDefines
  <1>3. /\ Len(log) \in Nat /\ Len(left) \in Nat /\ k \in Nat
        /\ Len(left) + k = Len(log)
        /\ \A i \in 1 .. Len(left) : left[i] = log[i + k]
    BY DEF IsSuffixFrom
  <1>4. f[k] \in Seq(ShownEntry)
    BY <1>1 DEF Shows
  <1> DEFINE both(n) == f[k] \o g[n]
             S == { n \in Nat : n <= Len(left) => f[k + n] = both(n) }
  <1>5. 0 \in S
    <2>1. f[k] \o <<>> = f[k] /\ g[0] = <<>>
      BY <1>2, <1>4, ConcatEmptySeq DEF Shows
    <2>2. both(0) = f[k]
      BY <2>1
    <2> HIDE DEF both
    <2> QED
      BY <1>3, <2>2
  <1>6. ASSUME NEW n \in Nat, n \in S
        PROVE  n + 1 \in S
    <2> SUFFICES ASSUME n + 1 <= Len(left)
                 PROVE  f[k + (n + 1)] = both(n + 1)
      <3> HIDE DEF both
      <3> QED
        OBVIOUS
    <2>1. f[k + n] = both(n)
      <3>1. n <= Len(left)
        BY <1>3
      <3>2. n <= Len(left) => f[k + n] = both(n)
        <4> HIDE DEF both
        <4> QED
          BY <1>6
      <3> HIDE DEF both, S
      <3> QED
        BY <3>1, <3>2
    <2>2. /\ g[n] \in Seq(ShownEntry)
          /\ g[n + 1] = Adding(g[n], left[n + 1])
      <3>1. n \in 0 .. Len(left) /\ n + 1 \in 1 .. Len(left) /\ (n + 1) - 1 = n
        BY <1>3
      <3> HIDE DEF both, S
      <3> QED
        BY <1>2, <3>1 DEF Shows
    <2>3. f[k + (n + 1)] = Adding(f[k + n], log[k + (n + 1)])
      <3>1. k + (n + 1) \in 1 .. Len(log) /\ (k + (n + 1)) - 1 = k + n
        BY <1>3
      <3> QED
        BY <1>1, <3>1 DEF Shows
    <2>4. log[k + (n + 1)] = left[n + 1] /\ left[n + 1] \in Entry
      <3>1. n + 1 \in 1 .. Len(left) /\ (n + 1) + k = k + (n + 1)
        BY <1>3
      <3> QED
        BY <1>3, <3>1, ElementOfSeq
    <2>5. CASE ~IsDispatched(left[n + 1])
      <3>1. f[k + (n + 1)] = f[k + n] /\ g[n + 1] = g[n]
        BY <2>2, <2>3, <2>4, <2>5 DEF Adding
      <3> QED
        BY <2>1, <3>1, Zenon
    <2>6. CASE IsDispatched(left[n + 1])
      <3>1. PICK x \in ShownEntry : x = AsShown(left[n + 1])
        BY <2>4 DEF AsShown, ShownEntry, Entry
      <3>2. /\ g[n + 1] = Append(g[n], x)
            /\ f[k + (n + 1)] = Append(f[k + n], x)
        BY <2>2, <2>3, <2>4, <2>6, <3>1 DEF Adding
      <3>3. PICK a \in Seq(ShownEntry) : a = f[k]
        BY <1>4
      <3>4. PICK b \in Seq(ShownEntry) : b = g[n]
        BY <2>2
      <3>5. Append(a \o b, x) = a \o Append(b, x)
        BY AppendAfterConcat, Zenon
      <3> QED
        BY <2>1, <3>2, <3>3, <3>4, <3>5, Zenon
    <2> QED
      BY <2>5, <2>6
  <1>7. Nat \subseteq S
    <2> HIDE DEF S
    <2> QED
      BY <1>5, <1>6, SetInduction
  <1>8. f[Len(log)] = f[k] \o g[Len(left)]
    <2>1. Len(left) \in S
      <3> HIDE DEF S
      <3> QED
        BY <1>3, <1>7
    <2>2. k + Len(left) = Len(log) /\ Len(left) <= Len(left)
      BY <1>3
    <2>3. f[k + Len(left)] = f[k] \o g[Len(left)]
      BY <2>1, <2>2, Zenon
    <2> QED
      BY <2>2, <2>3, Zenon
  <1>9. k = 0 => f[k] = <<>>
    BY <1>1 DEF Shows
  <1>10. k = 1 => Len(f[k]) <= 1
    <2> SUFFICES ASSUME k = 1 PROVE Len(f[1]) <= 1
      OBVIOUS
    <2>1. f[0] = <<>> /\ f[1] = Adding(f[0], log[1])
      BY <1>1, <1>3 DEF Shows
    <2> QED
      BY <2>1 DEF Adding
  <1> QED
    BY <1>1, <1>2, <1>4, <1>8, <1>9, <1>10

\* An entry more in the log is shown behind the others, if it is shown.
LEMMA AppendShows ==
  ASSUME NEW log \in Seq(Entry), NEW e \in Entry
  PROVE  DispatchedIn(Append(log, e)) = Adding(DispatchedIn(log), e)
  <1>1. PICK longer : longer = Append(log, e)
    OBVIOUS
  <1>2. /\ longer \in Seq(Entry) /\ Len(longer) = Len(log) + 1
        /\ \A i \in 1 .. Len(log) : longer[i] = log[i]
        /\ longer[Len(log) + 1] = e
        /\ Len(log) \in Nat
    BY <1>1, AppendProperties
  <1>3. PICK f : Shows(f, log, Len(log)) /\ DispatchedIn(log) = f[Len(log)]
    BY ShowsDefines
  <1>4. PICK g : Shows(g, longer, Len(longer)) /\ DispatchedIn(longer) = g[Len(longer)]
    BY <1>2, ShowsDefines
  <1> DEFINE S == { n \in Nat : n <= Len(log) => f[n] = g[n] }
  <1>5. 0 \in S
    BY <1>3, <1>4 DEF Shows
  <1>6. ASSUME NEW n \in Nat, n \in S
        PROVE  n + 1 \in S
    <2> SUFFICES ASSUME n + 1 <= Len(log)
                 PROVE  f[n + 1] = g[n + 1]
      OBVIOUS
    <2>1. /\ n + 1 \in 1 .. Len(log) /\ n + 1 \in 1 .. Len(longer) /\ (n + 1) - 1 = n
          /\ f[n] = g[n]
      BY <1>2, <1>6
    <2> QED
      BY <1>2, <1>3, <1>4, <2>1 DEF Shows
  <1>7. Nat \subseteq S
    <2> HIDE DEF S
    <2> QED
      BY <1>5, <1>6, SetInduction
  <1>8. f[Len(log)] = g[Len(log)]
    BY <1>2, <1>7
  <1>9. g[Len(log) + 1] = Adding(g[Len(log)], e)
    <2>1. Len(log) + 1 \in 1 .. Len(longer) /\ (Len(log) + 1) - 1 = Len(log)
      BY <1>2
    <2> QED
      BY <1>2, <1>4, <2>1 DEF Shows
  <1> QED
    BY <1>1, <1>2, <1>3, <1>4, <1>8, <1>9

-----------------------------------------------------------------------------
(* The matching of AtomicDispatch is that of Dispatch.                     *)

\* Both specifications choose and answer with the same operators.
LEMMA SameMatching ==
  /\ \A S, r, states : Atomic!find_match(S, r, states) = find_match(S, r, states)
  /\ \A states, f : Atomic!Advance(states, f) = Advance(states, f)
  /\ \A f, r : Atomic!FixtureStatus(f, r) = FixtureStatus(f, r)
  <1>1. \A S : Atomic!Min(S) = Min(S)
    BY DEF Min, Atomic!Min
  <1>2. \A f, r, states : Atomic!fixture_matches(f, r, states) <=> fixture_matches(f, r, states)
    BY DEF fixture_matches, Atomic!fixture_matches
  <1>3. ASSUME NEW fs, NEW order, NEW r, NEW states
        PROVE  Atomic!FirstIn(fs, order, r, states) = FirstIn(fs, order, r, states)
    <2>1. { k \in DOMAIN order : Atomic!fixture_matches(fs[order[k]], r, states) }
          = { k \in DOMAIN order : fixture_matches(fs[order[k]], r, states) }
      BY <1>2
    <2> QED
      BY <1>1, <2>1 DEF FirstIn, Atomic!FirstIn
  <1>4. \A S, r, states : Atomic!find_match(S, r, states) = find_match(S, r, states)
    BY <1>3 DEF find_match, Atomic!find_match
  <1>5. \A states, f : Atomic!Advance(states, f) = Advance(states, f)
    BY DEF Advance, Atomic!Advance
  <1>6. \A f, r : Atomic!FixtureStatus(f, r) = FixtureStatus(f, r)
    BY DEF FixtureStatus, Atomic!FixtureStatus
  <1> QED
    BY <1>4, <1>5, <1>6

\* What a match or a miss pushes shows as AtomicDispatch says.
LEMMA PushShows ==
  ASSUME NEW f \in Fixture \cup {None}, NEW r
  PROVE  AsShown(MatchEntry(f, r)) = Atomic!Shown(f, r)
  <1>1. CASE f = None
    BY <1>1 DEF AsShown, MatchEntry, NoEntry, EntryOf, Atomic!Shown
  <1>2. CASE f # None
    <2>1. Atomic!FixtureStatus(f, r) = FixtureStatus(f, r)
      BY SameMatching
    <2> HIDE DEF FixtureStatus
    <2> QED
      BY <1>2, <2>1 DEF AsShown, MatchEntry, EntryOf, Atomic!Shown
  <1> QED
    BY <1>1, <1>2

-----------------------------------------------------------------------------
(* What the log loses and gains.                                           *)

\* A log within its capacity loses one entry at most to make room for one.
LEMMA TrimShows ==
  ASSUME NEW log \in Seq(Entry), Capacity # 0,
         Capacity # Unbounded => Len(log) <= Capacity
  PROVE  \E pre \in Seq(ShownEntry) :
           Len(pre) <= 1 /\ DispatchedIn(log) = pre \o DispatchedIn(Trim(log))
  <1>1. PICK k \in 0 .. Len(log) : IsSuffixFrom(k, Trim(log), log)
    BY TrimDropsPrefix
  <1>2. Trim(log) \in Seq(Entry) /\ Len(log) \in Nat
    BY TrimDropsPrefix
  <1>3. Len(Trim(log)) = Len(log) - k
    BY <1>1 DEF IsSuffixFrom
  <1>4. k \in {0, 1}
    <2>1. CASE Capacity = Unbounded \/ Len(log) < Capacity
      <3>1. Trim(log) = log
        BY <2>1 DEF Trim
      <3> QED
        BY <1>2, <1>3, <3>1
    <2>2. CASE Capacity \in Nat /\ Len(log) = Capacity
      <3>1. Trim(log) = SubSeq(log, 2, Len(log))
        <4>1. Len(log) - Capacity + 2 = 2
          BY <1>2, <2>2
        <4> QED
          BY <2>2, <4>1, UnboundedAssumption DEF Trim
      <3>2. \A i \in 2 .. Len(log) : log[i] \in Entry
        BY <1>2
      <3>3. Len(Trim(log)) = Len(log) - 1
        BY <1>2, <2>2, <3>1, <3>2, SubSeqProperties
      <3> QED
        BY <1>2, <1>3, <3>3
    <2> QED
      BY <1>2, <2>1, <2>2, CapacityAssumption, UnboundedAssumption
  <1>5. PICK pre \in Seq(ShownEntry) :
          /\ DispatchedIn(log) = pre \o DispatchedIn(Trim(log))
          /\ k = 0 => pre = <<>>
          /\ k = 1 => Len(pre) <= 1
    BY <1>1, <1>2, SuffixShows
  <1>6. Len(pre) <= 1
    BY <1>4, <1>5
  <1> QED
    BY <1>5, <1>6

\* Losing one entry at most is an eviction, or nothing.
LEMMA LosesOne ==
  ASSUME NEW pre \in Seq(ShownEntry), NEW rest \in Seq(ShownEntry), NEW shown,
         Len(pre) <= 1, shown = pre \o rest
  PROVE  \/ rest = shown
         \/ shown # <<>> /\ rest = Tail(shown)
  <1>1. Len(pre) \in Nat /\ Len(rest) \in Nat
    BY LenProperties
  <1>2. /\ shown \in Seq(ShownEntry) /\ Len(shown) = Len(pre) + Len(rest)
        /\ \A i \in 1 .. (Len(pre) + Len(rest)) :
             shown[i] = IF i <= Len(pre) THEN pre[i] ELSE rest[i - Len(pre)]
    BY ConcatProperties
  <1>3. CASE Len(pre) = 0
    <2>1. Len(shown) = Len(rest)
      BY <1>1, <1>2, <1>3
    <2>2. \A i \in 1 .. Len(shown) : shown[i] = rest[i]
      BY <1>1, <1>2, <1>3
    <2>3. shown = rest
      BY <1>2, <2>1, <2>2, SeqEqual
    <2> QED
      BY <2>3
  <1>4. CASE Len(pre) = 1
    <2>1. Len(shown) = Len(rest) + 1
      BY <1>1, <1>2, <1>4
    <2>2. shown # <<>>
      BY <1>1, <2>1, EmptySeq
    <2>3. PICK left \in Seq(ShownEntry) :
            /\ left = Tail(shown) /\ Len(left) = Len(shown) - 1
            /\ \A i \in 1 .. Len(left) : left[i] = shown[i + 1]
      <3>1. /\ Tail(shown) \in Seq(ShownEntry) /\ Len(Tail(shown)) = Len(shown) - 1
            /\ \A i \in 1 .. Len(Tail(shown)) : Tail(shown)[i] = shown[i + 1]
        BY <1>2, <2>2, HeadTailProperties
      <3> QED
        BY <3>1
    <2>4. Len(left) = Len(rest)
      BY <1>1, <2>1, <2>3
    <2>5. ASSUME NEW i \in 1 .. Len(left)
          PROVE  left[i] = rest[i]
      <3>1. /\ i \in Nat /\ i + 1 \in 1 .. (Len(pre) + Len(rest))
            /\ ~(i + 1 <= Len(pre)) /\ (i + 1) - Len(pre) = i
        BY <1>1, <1>4, <2>4
      <3>2. shown[i + 1] = rest[(i + 1) - Len(pre)]
        BY <1>2, <3>1
      <3> QED
        BY <2>3, <3>1, <3>2
    <2>6. left = rest
      BY <2>4, <2>5, SeqEqual
    <2> QED
      BY <2>2, <2>3, <2>6
  <1> QED
    BY <1>1, <1>3, <1>4

\* The end of a concatenation is a suffix of it.
LEMMA EndIsSuffix ==
  ASSUME NEW pre \in Seq(ShownEntry), NEW rest \in Seq(ShownEntry),
         rest # <<>>
  PROVE  \E k \in 1 .. Len(pre \o rest) + 1 :
           rest = SubSeq(pre \o rest, k, Len(pre \o rest))
  <1>0. PICK full : full = pre \o rest
    OBVIOUS
  <1>1. PICK a \in Nat, b \in Nat \ {0} : a = Len(pre) /\ b = Len(rest)
    BY LenProperties, EmptySeq
  <1>2. Len(full) = a + b
    BY <1>0, <1>1, ConcatProperties
  <1>3. a + 1 \in (a + 1) .. (a + b) /\ a + b \in (a + 1) .. (a + b)
    OBVIOUS
  <1>4. SubSeq(full, a + 1, a + b) = SubSeq(rest, (a + 1) - a, (a + b) - a)
    BY <1>0, <1>1, <1>3, SubSeqOfConcat2
  <1>5. (a + 1) - a = 1 /\ (a + b) - a = b
    OBVIOUS
  <1>6. SubSeq(rest, 1, b) = rest
    BY <1>1, SubSeqFull
  <1>7. SubSeq(full, a + 1, Len(full)) = rest
    BY <1>2, <1>4, <1>5, <1>6, Zenon
  <1>8. a + 1 \in 1 .. (Len(full) + 1)
    BY <1>2
  <1> QED
    BY <1>0, <1>7, <1>8, Zenon

-----------------------------------------------------------------------------
(* The selection.  From the selection to the push, the fixture chosen is   *)
(* the one AtomicDispatch would choose: nobody moves a scenario or swaps   *)
(* the fixtures in between.                                                *)

\* The entry under way and the map as the dispatch of r leaves them.
Dispatches(c, r) ==
  LET f == find_match(fixtures, r, job[c].before)
  IN  /\ AsShown(job[c].entry) = Atomic!Shown(f, r)
      /\ scenarios = Advance(job[c].before, f)

SelectBook(c) ==
  /\ pc[c] \in {"read_fixtures", "write_scenarios", "find", "set_state"} =>
       job[c].request \in Requests
  /\ pc[c] = "set_state" =>
       job[c].found = find_match(fixtures, job[c].request, job[c].before)
  /\ Pushing(c) => \E r \in Requests : Dispatches(c, r)

SelectBooks == \A c \in Clients : SelectBook(c)

\* No client has chosen a fixture at the start.
LEMMA InitSelect == Init => SelectBooks
  BY DEF Init, SelectBooks, SelectBook, Pushing

\* A step of one client that leaves the fixtures, and the map under them, to
\* those who have selected.
LEMMA OthersSelect ==
  ASSUME SelectBooks, NEW c \in Clients, fixtures' = fixtures,
         \A d \in Clients \ {c} :
           /\ pc'[d] = pc[d] /\ job'[d] = job[d]
           /\ Pushing(d)' => Pushing(d) /\ scenarios' = scenarios,
         SelectBook(c)'
  PROVE  SelectBooks'
  <1>1. ASSUME NEW d \in Clients \ {c}
        PROVE  SelectBook(d)'
    <2>1. SelectBook(d)
      BY DEF SelectBooks
    <2>2. Pushing(d)' => \E r \in Requests : Dispatches(d, r)'
      BY <2>1 DEF SelectBook, Dispatches
    <2> QED
      BY <2>1, <2>2 DEF SelectBook
  <1> QED
    BY <1>1 DEF SelectBooks

\* What a step of one client does to the others.
LEMMA GotoOthers ==
  ASSUME TypeOK, NEW c \in Clients, NEW loc, NEW j, Goto(c, loc, j)
  PROVE  /\ pc'[c] = loc /\ (loc # "idle" => job'[c] = j)
         /\ \A d \in Clients \ {c} : pc'[d] = pc[d] /\ job'[d] = job[d]
  BY DEF Goto, TypeOK

\* The scenario moves as the chosen fixture says, and the entry tells of it.
LEMMA SetStateSelects ==
  ASSUME IInv, SelectBooks, NEW c \in Clients, SetState(c)
  PROVE  SelectBooks'
  <1>0. TypeOK
    BY DEF IInv
  <1>1. PICK r \in Requests, f \in Fixture \cup {None} :
          /\ r = job[c].request /\ f = job[c].found
          /\ f = find_match(fixtures, r, job[c].before)
    BY DEF SetState, SelectBooks, SelectBook, IInv, TypeOK, Job
  <1>2. /\ pc[c] = "set_state" /\ scenarios_writer = c /\ scenarios_writer' = c
        /\ scenarios' = Advance(scenarios, f) /\ fixtures' = fixtures
        /\ job[c].before = scenarios
        /\ Goto(c, AfterSelect(c), Selected(c))
    BY <1>1 DEF SetState, IInv, LockDiscipline, Selecting, MoveBooks
  <1>3. /\ pc'[c] \in {"hand_over", "reserve"} /\ job'[c] = Selected(c)
        /\ \A d \in Clients \ {c} : pc'[d] = pc[d] /\ job'[d] = job[d]
    <2>1. AfterSelect(c) \in {"hand_over", "reserve"}
      BY DEF AfterSelect
    <2> QED
      BY <1>0, <1>2, <2>1, GotoOthers
  <1>4. job'[c].entry = MatchEntry(f, r) /\ job'[c].before = scenarios
    BY <1>1, <1>2, <1>3 DEF Selected, NoJob
  <1>5. Dispatches(c, r)'
    <2>1. AsShown(MatchEntry(f, r)) = Atomic!Shown(f, r)
      BY PushShows
    <2>2. find_match(fixtures', r, job'[c].before) = f
      BY <1>1, <1>2, <1>4
    <2> QED
      BY <1>2, <1>4, <2>1, <2>2 DEF Dispatches
  <1>6. \A d \in Clients \ {c} : ~Pushing(d)'
    BY <1>2 DEF Pushing
  <1>7. SelectBook(c)'
    BY <1>3, <1>5 DEF SelectBook
  <1> QED
    BY <1>2, <1>3, <1>6, <1>7, OthersSelect

\* Drawing an id changes nothing of the choice.
LEMMA ReserveSelects ==
  ASSUME IInv, SelectBooks, NEW c \in Clients, ReserveId(c)
  PROVE  SelectBooks'
  <1> DEFINE j == [job[c] EXCEPT !.entry.id = capture_counter]
  <1>0. TypeOK
    BY DEF IInv
  <1>1. /\ pc[c] = "reserve" /\ Goto(c, AfterReserve(c), j)
        /\ UNCHANGED <<fixtures, scenarios, scenarios_writer>>
    BY DEF ReserveId, state_vars
  <1>2. AfterReserve(c) \in {"store", "broadcast", "unlock", "idle"}
    BY DEF AfterReserve, AfterStore, AfterPush
  <1>3. j.before = job[c].before /\ AsShown(j.entry) = AsShown(job[c].entry)
    BY <1>0 DEF TypeOK, Job, Entry, AsShown
  <1> HIDE DEF j
  <1>4. /\ pc'[c] = AfterReserve(c) /\ (AfterReserve(c) # "idle" => job'[c] = j)
        /\ \A d \in Clients \ {c} : pc'[d] = pc[d] /\ job'[d] = job[d]
    BY <1>0, <1>1, GotoOthers
  <1>5. \A d \in Clients \ {c} : Pushing(d)' => Pushing(d)
    BY <1>1, <1>4 DEF Pushing
  <1>6. Pushing(c)' => \E r \in Requests : Dispatches(c, r)'
    <2>1. Pushing(c)' => Pushing(c) /\ job'[c] = j
      BY <1>1, <1>4 DEF Pushing
    <2>2. Pushing(c) => \E r \in Requests : Dispatches(c, r)
      BY DEF SelectBooks, SelectBook
    <2> QED
      BY <1>1, <1>3, <2>1, <2>2 DEF Dispatches
  <1>7. SelectBook(c)'
    BY <1>2, <1>4, <1>6 DEF SelectBook
  <1> QED
    BY <1>1, <1>4, <1>5, <1>7, OthersSelect

\* Every step keeps what is noted of the choices.
LEMMA StepSelect == IInv /\ SelectBooks /\ [Next]_vars => SelectBooks'
  <1> SUFFICES ASSUME IInv, SelectBooks, [Next]_vars PROVE SelectBooks'
    OBVIOUS
  <1> USE DEF state_vars, log_vars, client_vars
  <1>0. TypeOK /\ LockDiscipline /\ None \notin Clients
    BY NoneAssumption DEF IInv
  \* A step to a location where nothing has been selected yet, or no longer.
  <1>1. ASSUME NEW c \in Clients, NEW loc, NEW j, Goto(c, loc, j),
               fixtures' = fixtures, scenarios' = scenarios,
               \A d \in Clients \ {c} : scenarios_writer' = d => scenarios_writer = d,
               loc # "set_state",
               loc \in {"reserve", "store"} => scenarios_writer' # c,
               loc \in {"read_fixtures", "write_scenarios", "find"} => j.request \in Requests
        PROVE  SelectBooks'
    <2>1. /\ pc'[c] = loc /\ (loc # "idle" => job'[c] = j)
          /\ \A d \in Clients \ {c} : pc'[d] = pc[d] /\ job'[d] = job[d]
      BY <1>0, <1>1, GotoOthers
    <2>2. ~Pushing(c)'
      BY <1>1, <2>1 DEF Pushing
    <2>3. SelectBook(c)'
      BY <1>1, <2>1, <2>2 DEF SelectBook
    <2>4. \A d \in Clients \ {c} : Pushing(d)' => Pushing(d)
      BY <1>1, <2>1 DEF Pushing
    <2> QED
      BY <1>1, <2>1, <2>3, <2>4, OthersSelect
  <1>2. ASSUME NEW c \in Clients, NEW r \in Requests, Arrive(c, r)
        PROVE  SelectBooks'
    <2>1. [NoJob EXCEPT !.request = r].request \in Requests
      BY DEF NoJob
    <2> QED
      BY <1>1, <1>2, <2>1 DEF Arrive
  <1>3. ASSUME NEW c \in Clients, NEW outcome \in Early, ArriveUnmatched(c, outcome)
        PROVE  SelectBooks'
    <2>1. scenarios_writer # c
      BY <1>0, <1>3 DEF ArriveUnmatched, LockDiscipline, Selecting, Pushes
    <2> QED
      BY <1>1, <1>3, <2>1 DEF ArriveUnmatched
  <1>4. ASSUME NEW c \in Clients, ReadLockFixtures(c)
        PROVE  SelectBooks'
    <2>1. job[c].request \in Requests
      BY <1>4 DEF ReadLockFixtures, SelectBooks, SelectBook
    <2> QED
      BY <1>1, <1>4, <2>1 DEF ReadLockFixtures
  <1>5. ASSUME NEW c \in Clients, WriteLockScenarios(c)
        PROVE  SelectBooks'
    <2>1. job[c].request \in Requests
      BY <1>5 DEF WriteLockScenarios, SelectBooks, SelectBook
    <2> QED
      BY <1>1, <1>5, <2>1 DEF WriteLockScenarios
  <1>6. ASSUME NEW c \in Clients, FindMatch(c)
        PROVE  SelectBooks'
    <2> DEFINE j == [job[c] EXCEPT !.found = Choice(c), !.before = scenarios]
    <2>1. /\ pc'[c] = "set_state" /\ job'[c] = j
          /\ \A d \in Clients \ {c} : pc'[d] = pc[d] /\ job'[d] = job[d]
      BY <1>0, <1>6, GotoOthers DEF FindMatch
    <2>2. /\ j.request = job[c].request /\ j.before = scenarios
          /\ j.found = find_match(fixtures, job[c].request, scenarios)
      BY <1>0 DEF TypeOK, Job, Choice
    <2>3. job[c].request \in Requests
      BY <1>6 DEF FindMatch, SelectBooks, SelectBook
    <2>4. fixtures' = fixtures /\ scenarios' = scenarios /\ scenarios_writer' = scenarios_writer
      BY <1>6 DEF FindMatch
    <2> HIDE DEF j
    <2>5. SelectBook(c)'
      BY <2>1, <2>2, <2>3, <2>4 DEF SelectBook, Pushing
    <2>6. \A d \in Clients \ {c} : Pushing(d)' => Pushing(d)
      BY <2>1, <2>4 DEF Pushing
    <2> QED
      BY <2>1, <2>4, <2>5, <2>6, OthersSelect
  <1>7. ASSUME NEW c \in Clients, Unlock(c)
        PROVE  SelectBooks'
    BY <1>0, <1>1, <1>7 DEF Unlock
  <1>8. ASSUME NEW c \in Clients, NEW status \in UpstreamStatuses,
               UpstreamAnswers(c, status)
        PROVE  SelectBooks'
    <2>1. scenarios_writer # c
      BY <1>0, <1>8 DEF UpstreamAnswers, LockDiscipline, Selecting, Pushes
    <2> QED
      BY <1>1, <1>8, <2>1 DEF UpstreamAnswers
  <1>9. ASSUME NEW c \in Clients, ClientLeaves(c)
        PROVE  SelectBooks'
    BY <1>1, <1>9 DEF ClientLeaves
  <1>10. ASSUME NEW c \in Clients, Store(c)
         PROVE  SelectBooks'
    <2>1. AfterStore(c) \in {"broadcast", "unlock", "idle"}
      BY DEF AfterStore, AfterPush
    <2> QED
      BY <1>1, <1>10, <2>1 DEF Store
  <1>11. ASSUME NEW c \in Clients, Broadcast(c)
         PROVE  SelectBooks'
    <2>1. AfterPush(c) \in {"unlock", "idle"}
      BY DEF AfterPush
    <2> QED
      BY <1>1, <1>11, <2>1 DEF Broadcast
  <1>12. ASSUME NEW a \in Admins, ResetScenarios(a) \/ ResetCaptured(a)
         PROVE  SelectBooks'
    <2>1. CASE ResetScenarios(a)
      <3>1. \A d \in Clients : ~Pushing(d)'
        BY <1>0, <2>1 DEF ResetScenarios, Pushing
      <3> QED
        BY <2>1, <3>1 DEF ResetScenarios, SelectBooks, SelectBook
    <2>2. CASE ResetCaptured(a)
      <3>1. \A d \in Clients : Pushing(d)' <=> Pushing(d)
        BY <2>2 DEF ResetCaptured, Pushing
      <3> QED
        BY <2>2, <3>1 DEF ResetCaptured, SelectBooks, SelectBook, Dispatches
    <2> QED
      BY <1>12, <2>1, <2>2
  <1>13. ASSUME NEW S \in FixtureSets, SwapFixtures(S)
         PROVE  SelectBooks'
    <2>1. \A d \in Clients : ~Pushing(d)' /\ pc'[d] # "set_state"
      BY <1>0, <1>13 DEF SwapFixtures, LockDiscipline, Selecting, Pushing
    <2> QED
      BY <1>13, <2>1 DEF SwapFixtures, SelectBooks, SelectBook
  <1>14. CASE UNCHANGED vars
    <2>1. \A d \in Clients : Pushing(d)' <=> Pushing(d)
      BY <1>14 DEF vars, Pushing
    <2> QED
      BY <1>14, <2>1 DEF vars, SelectBooks, SelectBook, Dispatches
  <1> QED
    BY <1>2, <1>3, <1>4, <1>5, <1>6, <1>7, <1>8, <1>9, <1>10, <1>11, <1>12, <1>13,
       <1>14, SetStateSelects, ReserveSelects DEF Next, Serve, ArriveEarly, ArriveUtility

\* What is noted of the choices of the clients holds always.
THEOREM SpecSelect == Spec => []SelectBooks
  BY SpecIInv, InitSelect, StepSelect, PTL DEF Spec

-----------------------------------------------------------------------------
(* Every step is a step of AtomicDispatch or leaves what it shows alone.   *)

\* The initial states map to initial states.
LEMMA InitAtomic == Init => Atomic!Init
  <1> SUFFICES ASSUME Init PROVE Atomic!Init
    OBVIOUS
  <1>1. SettledScenarios = NoStates
    BY DEF Init, SettledScenarios, Pushing
  <1>2. DispatchedIn(captured) = <<>>
    BY EmptyShowsNothing DEF Init
  <1> QED
    BY <1>1, <1>2 DEF Init, Atomic!Init, NoStates

\* The map AtomicDispatch shows is the same if the same request is ahead of
\* the log, and what it has read is the same.
LEMMA SettledSame ==
  ASSUME scenarios' = scenarios,
         \A d \in Clients : Pushing(d)' <=> Pushing(d),
         \A d \in Clients :
           Pushing(d) => scenarios_writer' = d /\ job'[d].before = job[d].before
  PROVE  SettledScenarios' = SettledScenarios
  <1>1. CASE \E d \in Clients : Pushing(d)
    <2>1. PICK d \in Clients : Pushing(d)
      BY <1>1
    <2>2. /\ scenarios_writer = d /\ scenarios_writer' = d
          /\ job'[d].before = job[d].before /\ Pushing(d)'
      BY <2>1 DEF Pushing
    <2> QED
      BY <2>1, <2>2 DEF SettledScenarios
  <1>2. CASE ~\E d \in Clients : Pushing(d)
    BY <1>2 DEF SettledScenarios
  <1> QED
    BY <1>1, <1>2

\* A request outside the part of the critical section in which the map is
\* ahead of the log shows nothing by a step that leaves map and log alone.
LEMMA OutsideShowsNothing ==
  ASSUME TypeOK, NEW c \in Clients, NEW loc, NEW j, Goto(c, loc, j),
         UNCHANGED <<fixtures, scenarios, captured>>,
         ~Pushing(c), ~Pushing(c)',
         \A d \in Clients \ {c} : scenarios_writer' = d <=> scenarios_writer = d
  PROVE  UNCHANGED Atomic!vars
  <1>1. \A d \in Clients \ {c} : pc'[d] = pc[d] /\ job'[d] = job[d]
    BY GotoOthers
  <1>2. \A d \in Clients : Pushing(d)' <=> Pushing(d)
    BY <1>1 DEF Pushing
  <1>3. \A d \in Clients :
          Pushing(d) => scenarios_writer' = d /\ job'[d].before = job[d].before
    BY <1>1 DEF Pushing
  <1>4. SettledScenarios' = SettledScenarios
    BY <1>2, <1>3, SettledSame
  <1>5. DispatchedIn(captured)' = DispatchedIn(captured)
    BY DEF DispatchedIn
  <1> QED
    BY <1>4, <1>5 DEF Atomic!vars

\* Moving the scenario is a stutter: it shows with the entry that logs it.
LEMMA SetStateShowsNothing ==
  ASSUME IInv, NEW c \in Clients, SetState(c)
  PROVE  UNCHANGED Atomic!vars
  <1>0. TypeOK
    BY DEF IInv
  <1>1. /\ pc[c] = "set_state" /\ scenarios_writer = c /\ scenarios_writer' = c
        /\ scenarios' = Advance(scenarios, job[c].found)
        /\ fixtures' = fixtures /\ captured' = captured
        /\ job[c].before = scenarios
        /\ Goto(c, AfterSelect(c), Selected(c))
    BY DEF SetState, IInv, LockDiscipline, Selecting, MoveBooks, log_vars
  <1>2. AfterSelect(c) \in {"hand_over", "reserve"}
    BY DEF AfterSelect
  <1>3. pc'[c] = AfterSelect(c) /\ job'[c].before = scenarios
    <2>1. pc'[c] = AfterSelect(c) /\ job'[c] = Selected(c)
      BY <1>0, <1>1, <1>2, GotoOthers
    <2>2. Selected(c).before = job[c].before
      BY DEF Selected, NoJob
    <2> QED
      BY <1>1, <2>1, <2>2
  <1>4. \A d \in Clients : Pushing(d)' => d = c
    BY <1>1 DEF Pushing
  <1>5. SettledScenarios = scenarios
    BY <1>1, Settled DEF Pushing
  <1>6. SettledScenarios' = scenarios
    <2>1. CASE AfterSelect(c) = "reserve"
      BY <1>1, <1>3, <2>1 DEF SettledScenarios, Pushing
    <2>2. CASE AfterSelect(c) = "hand_over"
      <3>1. scenarios' = scenarios
        BY <1>1, <2>2 DEF AfterSelect, Advance
      <3>2. ~\E d \in Clients : Pushing(d)'
        BY <1>3, <1>4, <2>2 DEF Pushing
      <3> QED
        BY <3>1, <3>2 DEF SettledScenarios
    <2> QED
      BY <1>2, <2>1, <2>2
  <1>7. DispatchedIn(captured)' = DispatchedIn(captured)
    BY <1>1 DEF DispatchedIn
  <1> QED
    BY <1>1, <1>5, <1>6, <1>7 DEF Atomic!vars

\* The end of a push that was made under the scenarios lock: the request is
\* dispatched, if the log then shows the end of what it showed and the entry.
LEMMA PushDispatches ==
  ASSUME IInv, SelectBooks, NEW c \in Clients, Pushing(c), ~Pushing(c)',
         UNCHANGED <<fixtures, scenarios, scenarios_writer>>,
         \E k \in 1 .. Len(Append(DispatchedIn(captured), AsShown(job[c].entry))) + 1 :
           DispatchedIn(captured)' =
             SubSeq(Append(DispatchedIn(captured), AsShown(job[c].entry)), k,
                    Len(Append(DispatchedIn(captured), AsShown(job[c].entry))))
  PROVE  Atomic!Next
  <1>1. PICK r \in Requests : Dispatches(c, r)
    BY DEF SelectBooks, SelectBook
  <1>2. PICK f : f = find_match(fixtures, r, job[c].before)
    OBVIOUS
  <1>3. SettledScenarios = job[c].before
    BY Settled
  <1>4. SettledScenarios' = scenarios
    <2>1. ~\E d \in Clients : Pushing(d)'
      BY DEF Pushing
    <2> QED
      BY <2>1 DEF SettledScenarios
  <1>5. Atomic!find_match(fixtures, r, SettledScenarios) = f
    BY <1>2, <1>3, SameMatching
  <1>6. SettledScenarios' = Atomic!Advance(SettledScenarios, f)
    BY <1>1, <1>2, <1>3, <1>4, SameMatching DEF Dispatches
  <1>7. AsShown(job[c].entry) = Atomic!Shown(f, r)
    BY <1>1, <1>2 DEF Dispatches
  <1>8. \E k \in 1 .. Len(Append(DispatchedIn(captured), Atomic!Shown(f, r))) + 1 :
          DispatchedIn(captured)' =
            SubSeq(Append(DispatchedIn(captured), Atomic!Shown(f, r)), k,
                   Len(Append(DispatchedIn(captured), Atomic!Shown(f, r))))
    BY <1>7
  <1>9. Atomic!DispatchOne(r)
    BY <1>5, <1>6, <1>8 DEF Atomic!DispatchOne
  <1> QED
    BY <1>9 DEF Atomic!Next

\* Storing the entry is the abstract dispatch, with the move it tells of.
LEMMA StoreShows ==
  ASSUME IInv, SelectBooks, NEW c \in Clients, Store(c)
  PROVE  [Atomic!Next]_(Atomic!vars)
  <1>0. TypeOK
    BY DEF IInv
  <1>1. PICK e \in Entry, x \in ShownEntry : e = job[c].entry /\ x = AsShown(e)
    <2>1. job[c].entry \in Entry
      BY <1>0 DEF TypeOK, Job
    <2>2. AsShown(job[c].entry) \in ShownEntry
      BY <2>1 DEF AsShown, ShownEntry, Entry
    <2> QED
      BY <2>1, <2>2
  <1>2. /\ pc[c] = "store" /\ Capacity # 0
        /\ captured' = Append(Trim(captured), e) /\ captured \in Seq(Entry)
        /\ UNCHANGED <<fixtures, scenarios, scenarios_writer>>
        /\ Goto(c, AfterStore(c), job[c])
        /\ Capacity # Unbounded => Len(captured) <= Capacity
        /\ IsDispatched(e) <=> scenarios_writer = c
    BY <1>1 DEF Store, state_vars, IInv, TypeOK, LockDiscipline, CapacityRespected, Pushes
  <1>3. PICK pre \in Seq(ShownEntry) :
          Len(pre) <= 1 /\ DispatchedIn(captured) = pre \o DispatchedIn(Trim(captured))
    BY <1>2, TrimShows
  <1>4. PICK rest \in Seq(ShownEntry) : rest = DispatchedIn(Trim(captured))
    BY <1>2, TrimDropsPrefix, ShownIsLog
  <1>5. DispatchedIn(captured)' = Adding(rest, e)
    <2>1. DispatchedIn(captured)' = DispatchedIn(Append(Trim(captured), e))
      BY <1>2 DEF DispatchedIn
    <2>2. Trim(captured) \in Seq(Entry)
      BY <1>2, TrimDropsPrefix
    <2> QED
      BY <1>4, <2>1, <2>2, AppendShows
  <1>6. pc'[c] \in {"broadcast", "unlock", "idle"}
    <2>1. AfterStore(c) \in {"broadcast", "unlock", "idle"}
      BY DEF AfterStore, AfterPush
    <2> QED
      BY <1>0, <1>2, <2>1, GotoOthers
  <1>7. ~Pushing(c)'
    BY <1>6 DEF Pushing
  <1>8. CASE scenarios_writer = c
    <2>1. DispatchedIn(captured)' = Append(rest, x)
      BY <1>1, <1>2, <1>5, <1>8 DEF Adding
    <2>2. PICK more \in Seq(ShownEntry) : more = Append(rest, x) /\ more # <<>>
      BY AppendProperties
    <2>3. PICK full : full = Append(DispatchedIn(captured), x)
      OBVIOUS
    <2>4. full = pre \o more
      <3>1. Append(pre \o rest, x) = pre \o Append(rest, x)
        BY AppendAfterConcat, Zenon
      <3> QED
        BY <1>3, <1>4, <2>2, <2>3, <3>1, Zenon
    <2>5. \E k \in 1 .. Len(full) + 1 : more = SubSeq(full, k, Len(full))
      <3>1. more # <<>>
        BY <2>2
      <3>2. \E k \in 1 .. Len(pre \o more) + 1 :
              more = SubSeq(pre \o more, k, Len(pre \o more))
        BY <3>1, EndIsSuffix, Zenon
      <3> QED
        BY <2>4, <3>2, Zenon
    <2>6. \E k \in 1 .. Len(full) + 1 :
            DispatchedIn(captured)' = SubSeq(full, k, Len(full))
      BY <2>1, <2>2, <2>5, Zenon
    <2>7. Pushing(c)
      BY <1>2, <1>8 DEF Pushing
    <2>8. Atomic!Next
      BY <1>1, <1>2, <1>7, <2>3, <2>6, <2>7, PushDispatches, Zenon
    <2> QED
      BY <2>8
  <1>9. CASE scenarios_writer # c
    <2>1. DispatchedIn(captured)' = rest
      BY <1>2, <1>5, <1>9 DEF Adding
    <2>2. SettledScenarios' = SettledScenarios
      <3>1. \A d \in Clients \ {c} : pc'[d] = pc[d] /\ job'[d] = job[d]
        BY <1>0, <1>2, GotoOthers
      <3>2. \A d \in Clients : Pushing(d)' <=> Pushing(d)
        BY <1>2, <1>9, <3>1 DEF Pushing
      <3>3. \A d \in Clients :
              Pushing(d) => scenarios_writer' = d /\ job'[d].before = job[d].before
        BY <1>2, <1>9, <3>1 DEF Pushing
      <3> QED
        BY <1>2, <3>2, <3>3, SettledSame
    <2>3. \/ rest = DispatchedIn(captured)
          \/ DispatchedIn(captured) # <<>> /\ rest = Tail(DispatchedIn(captured))
      BY <1>3, <1>4, LosesOne
    <2>4. fixtures' = fixtures
      BY <1>2
    <2>5. CASE rest = DispatchedIn(captured)
      BY <2>1, <2>2, <2>4, <2>5 DEF Atomic!vars
    <2>6. CASE DispatchedIn(captured) # <<>> /\ rest = Tail(DispatchedIn(captured))
      BY <2>1, <2>2, <2>4, <2>6 DEF Atomic!Next, Atomic!Evict
    <2> QED
      BY <2>3, <2>5, <2>6
  <1> QED
    BY <1>8, <1>9

\* Drawing an id shows nothing, or the whole dispatch if no log is kept.
LEMMA ReserveShows ==
  ASSUME IInv, SelectBooks, NEW c \in Clients, ReserveId(c)
  PROVE  [Atomic!Next]_(Atomic!vars)
  <1> DEFINE j == [job[c] EXCEPT !.entry.id = capture_counter]
  <1>0. TypeOK
    BY DEF IInv
  <1>1. /\ pc[c] = "reserve" /\ Goto(c, AfterReserve(c), j)
        /\ UNCHANGED <<fixtures, scenarios, scenarios_writer, captured>>
    BY DEF ReserveId, state_vars
  <1>2. j.before = job[c].before
    BY <1>0 DEF TypeOK, Job
  <1>3. AfterReserve(c) \in {"store", "broadcast", "unlock", "idle"}
    BY DEF AfterReserve, AfterStore, AfterPush
  <1> HIDE DEF j
  <1>4. /\ pc'[c] = AfterReserve(c) /\ (AfterReserve(c) # "idle" => job'[c] = j)
        /\ \A d \in Clients \ {c} : pc'[d] = pc[d] /\ job'[d] = job[d]
    BY <1>0, <1>1, GotoOthers
  <1>5. CASE scenarios_writer # c
    <2>1. ~Pushing(c) /\ ~Pushing(c)'
      BY <1>1, <1>5 DEF Pushing
    <2> QED
      BY <1>0, <1>1, <2>1, OutsideShowsNothing
  <1>6. CASE scenarios_writer = c /\ AfterReserve(c) = "store"
    <2>1. \A d \in Clients : Pushing(d)' <=> Pushing(d)
      BY <1>1, <1>4, <1>6 DEF Pushing
    <2>2. \A d \in Clients :
            Pushing(d) => scenarios_writer' = d /\ job'[d].before = job[d].before
      BY <1>1, <1>2, <1>4, <1>6 DEF Pushing
    <2>3. SettledScenarios' = SettledScenarios
      BY <1>1, <2>1, <2>2, SettledSame
    <2>4. DispatchedIn(captured)' = DispatchedIn(captured)
      BY <1>1 DEF DispatchedIn
    <2> QED
      BY <1>1, <2>3, <2>4 DEF Atomic!vars
  <1>7. CASE scenarios_writer = c /\ AfterReserve(c) # "store"
    <2>1. Pushing(c) /\ ~Pushing(c)'
      BY <1>1, <1>3, <1>4, <1>7 DEF Pushing
    <2>2. captured = <<>>
      <3>1. Capacity = 0
        BY <1>7 DEF AfterReserve
      <3>2. captured \in Seq(Entry) /\ Len(captured) <= 0
        BY <1>0, <3>1, UnboundedAssumption DEF IInv, CapacityRespected, TypeOK
      <3>3. Len(captured) = 0
        BY <3>2, LenProperties
      <3> QED
        BY <3>2, <3>3, EmptySeq
    <2>3. DispatchedIn(captured) = <<>> /\ DispatchedIn(captured)' = <<>>
      <3>1. DispatchedIn(captured)' = DispatchedIn(captured)
        BY <1>1 DEF DispatchedIn
      <3> QED
        BY <2>2, <3>1, EmptyShowsNothing
    <2>4. PICK full : full = Append(DispatchedIn(captured), AsShown(job[c].entry))
      OBVIOUS
    <2>5. Len(full) = 1
      BY <2>3, <2>4
    <2>6. SubSeq(full, Len(full) + 1, Len(full)) = <<>>
      BY <2>5, SubSeqEmpty
    <2>7. Len(full) + 1 \in 1 .. Len(full) + 1
      BY <2>5
    <2>8. \E k \in 1 .. Len(full) + 1 :
            DispatchedIn(captured)' = SubSeq(full, k, Len(full))
      BY <2>3, <2>6, <2>7, Zenon
    <2>9. Atomic!Next
      BY <1>1, <2>1, <2>4, <2>8, PushDispatches, Zenon
    <2> QED
      BY <2>9
  <1> QED
    BY <1>5, <1>6, <1>7

\* Every step maps to a step of AtomicDispatch or to a stutter.
LEMMA StepAtomic == IInv /\ SelectBooks /\ [Next]_vars => [Atomic!Next]_(Atomic!vars)
  <1> SUFFICES ASSUME IInv, SelectBooks, [Next]_vars
               PROVE  [Atomic!Next]_(Atomic!vars)
    OBVIOUS
  <1> USE DEF state_vars, log_vars, client_vars
  <1>0. TypeOK /\ LockDiscipline /\ None \notin Clients
    BY NoneAssumption DEF IInv
  <1>1. ASSUME NEW c \in Clients,
               \/ \E r \in Requests : Arrive(c, r)
               \/ \E outcome \in Early : ArriveUnmatched(c, outcome)
               \/ ReadLockFixtures(c)
               \/ \E status \in UpstreamStatuses : UpstreamAnswers(c, status)
               \/ ClientLeaves(c)
        PROVE  UNCHANGED Atomic!vars
    <2>1. /\ pc[c] \in {"idle", "read_fixtures", "upstream"}
          /\ UNCHANGED <<fixtures, scenarios, scenarios_writer, captured>>
          /\ \E loc, j : Goto(c, loc, j)
      BY <1>1 DEF Arrive, ArriveUnmatched, ReadLockFixtures, UpstreamAnswers, ClientLeaves
    <2>2. scenarios_writer # c
      BY <1>0, <2>1 DEF LockDiscipline, Selecting, Pushes
    <2>3. ~Pushing(c) /\ ~Pushing(c)'
      BY <2>1, <2>2 DEF Pushing
    <2> QED
      BY <1>0, <2>1, <2>3, OutsideShowsNothing
  <1>2. ASSUME NEW c \in Clients, WriteLockScenarios(c) \/ FindMatch(c) \/ Unlock(c)
        PROVE  UNCHANGED Atomic!vars
    <2>1. /\ pc[c] \notin {"reserve", "store"}
          /\ UNCHANGED <<fixtures, scenarios, captured>>
          /\ \E loc, j : loc \in {"find", "set_state", "upstream", "idle"} /\ Goto(c, loc, j)
      BY <1>2 DEF WriteLockScenarios, FindMatch, Unlock
    <2>2. pc'[c] \notin {"reserve", "store"}
      BY <1>0, <2>1, GotoOthers
    <2>3. ~Pushing(c) /\ ~Pushing(c)'
      BY <2>1, <2>2 DEF Pushing
    <2>4. \A d \in Clients \ {c} : scenarios_writer' = d <=> scenarios_writer = d
      BY <1>0, <1>2 DEF WriteLockScenarios, FindMatch, Unlock, LockDiscipline, Selecting
    <2> QED
      BY <1>0, <2>1, <2>3, <2>4, OutsideShowsNothing
  <1>3. ASSUME NEW c \in Clients, Broadcast(c)
        PROVE  UNCHANGED Atomic!vars
    <2>1. /\ pc[c] = "broadcast" /\ Goto(c, AfterPush(c), job[c])
          /\ UNCHANGED <<fixtures, scenarios, scenarios_writer, captured>>
      BY <1>3 DEF Broadcast
    <2>2. AfterPush(c) \in {"unlock", "idle"}
      BY DEF AfterPush
    <2>3. pc'[c] \in {"unlock", "idle"}
      BY <1>0, <2>1, <2>2, GotoOthers
    <2>4. ~Pushing(c) /\ ~Pushing(c)'
      BY <2>1, <2>3 DEF Pushing
    <2> QED
      BY <1>0, <2>1, <2>4, OutsideShowsNothing
  <1>4. ASSUME NEW a \in Admins, ResetScenarios(a)
        PROVE  Atomic!Next
    <2>1. /\ scenarios_writer' = None /\ scenarios' = NoStates
          /\ fixtures' = fixtures /\ captured' = captured
      BY <1>4 DEF ResetScenarios
    <2>2. SettledScenarios' = NoStates
      <3>1. ~\E d \in Clients : Pushing(d)'
        BY <1>0, <2>1 DEF Pushing
      <3> QED
        BY <2>1, <3>1 DEF SettledScenarios
    <2>3. DispatchedIn(captured)' = DispatchedIn(captured)
      BY <2>1 DEF DispatchedIn
    <2> QED
      BY <2>1, <2>2, <2>3 DEF Atomic!Next, Atomic!ResetScenarios, NoStates
  <1>5. ASSUME NEW a \in Admins, ResetCaptured(a)
        PROVE  Atomic!Next
    <2>1. captured' = <<>> /\ UNCHANGED <<fixtures, scenarios, scenarios_writer, pc, job>>
      BY <1>5 DEF ResetCaptured
    <2>2. DispatchedIn(captured)' = <<>>
      <3>1. DispatchedIn(captured)' = DispatchedIn(<<>>)
        BY <2>1 DEF DispatchedIn
      <3> QED
        BY <3>1, EmptyShowsNothing
    <2>3. SettledScenarios' = SettledScenarios
      BY <2>1 DEF SettledScenarios, Pushing
    <2> QED
      BY <2>1, <2>2, <2>3 DEF Atomic!Next, Atomic!ResetLog
  <1>6. ASSUME NEW S \in FixtureSets, SwapFixtures(S)
        PROVE  Atomic!Next
    <2>1. fixtures' = S /\ UNCHANGED <<captured, scenarios, scenarios_writer, pc, job>>
      BY <1>6 DEF SwapFixtures
    <2>2. SettledScenarios' = SettledScenarios
      BY <2>1 DEF SettledScenarios, Pushing
    <2>3. DispatchedIn(captured)' = DispatchedIn(captured)
      BY <2>1 DEF DispatchedIn
    <2> QED
      BY <2>1, <2>2, <2>3 DEF Atomic!Next, Atomic!SwapFixtures
  <1>7. CASE UNCHANGED vars
    <2>1. SettledScenarios' = SettledScenarios
      BY <1>7 DEF vars, SettledScenarios, Pushing
    <2>2. DispatchedIn(captured)' = DispatchedIn(captured)
      BY <1>7 DEF vars, DispatchedIn
    <2> QED
      BY <1>7, <2>1, <2>2 DEF vars, Atomic!vars
  <1> QED
    BY <1>1, <1>2, <1>3, <1>4, <1>5, <1>6, <1>7, SetStateShowsNothing, StoreShows,
       ReserveShows DEF Next, Serve, ArriveEarly, ArriveUtility

\* Requests are dispatched one at a time, for any number of clients and any
\* capacity: under the two locks, selection, scenario move and capture are
\* one step of AtomicDispatch, and no other step shows (handle_request).
THEOREM DispatchAppearsAtomic == Spec => DispatchIsAtomic
  <1>1. Init => Atomic!Init
    BY InitAtomic
  <1>2. IInv /\ SelectBooks /\ [Next]_vars => [Atomic!Next]_(Atomic!vars)
    BY StepAtomic
  <1> QED
    BY <1>1, <1>2, SpecIInv, SpecSelect, PTL DEF Spec, DispatchIsAtomic, Atomic!Spec
=============================================================================
