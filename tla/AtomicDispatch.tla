--------------------------- MODULE AtomicDispatch ---------------------------
(***************************************************************************)
(* What concurrent dispatch promises: as if each request were matched,     *)
(* moved its scenario and entered the log in one step.  The log is what    *)
(* MockServer::matched_requests and the no-match entries show; old entries *)
(* may be evicted at any time, to make room for captures of other kinds.   *)
(***************************************************************************)
EXTENDS FixtureSet

CONSTANTS Requests, FixtureSets, InitialState

VARIABLES fixtures, scenarios, log

vars == <<fixtures, scenarios, log>>

\* What one dispatch shows in the log.
Shown(f, r) ==
  IF f = None
  THEN [outcome |-> "no_match", scenario |-> None, sets |-> None, status |-> 404]
  ELSE [outcome |-> "matched", scenario |-> f.scenario, sets |-> f.set_state,
        status |-> FixtureStatus(f, r)]

Init == /\ fixtures \in FixtureSets
        /\ scenarios = [n \in Scenarios |-> InitialState]
        /\ log = <<>>

DispatchOne(r) ==
  LET f == find_match(fixtures, r, scenarios)
      full == Append(log, Shown(f, r))
  IN  /\ scenarios' = Advance(scenarios, f)
      /\ \E k \in 1..Len(full) + 1 : log' = SubSeq(full, k, Len(full))
      /\ UNCHANGED fixtures

Evict == log # <<>> /\ log' = Tail(log) /\ UNCHANGED <<fixtures, scenarios>>

ResetScenarios == /\ scenarios' = [n \in Scenarios |-> InitialState]
                  /\ UNCHANGED <<fixtures, log>>

ResetLog == log' = <<>> /\ UNCHANGED <<fixtures, scenarios>>

SwapFixtures(S) == fixtures' = S /\ UNCHANGED <<scenarios, log>>

Next == \/ \E r \in Requests : DispatchOne(r)
        \/ Evict \/ ResetScenarios \/ ResetLog
        \/ \E S \in FixtureSets : SwapFixtures(S)

Spec == Init /\ [][Next]_vars
=============================================================================
