----------------------------- MODULE FixtureSet -----------------------------
(***************************************************************************)
(* Fixtures and the pre-sorted set the server matches requests against     *)
(* (src/src/server.rs, FixtureSet; src/src/fixture.rs, fixture_matches).   *)
(*                                                                         *)
(* A fixture is a record.  Its match rule is the set of prompts it accepts *)
(* (every string, regex, header and JSONPath test of the code is a test on *)
(* the request, so a rule is a set of requests; "prompt" stands for all    *)
(* that the tests look at).  An Option that is not set is None.            *)
(***************************************************************************)
EXTENDS Integers, Sequences, FiniteSetsExt, SequencesExt

CONSTANTS Providers, Prompts, Scenarios, States, None

Request == [provider : Providers, prompt : Prompts, stream : BOOLEAN]

\* `required_state` and `set_state` are fields of the optional `scenario`.
Fixture ==
  { f \in [ provider       : Providers \cup {None},
            prompts        : SUBSET Prompts,
            catch_all      : BOOLEAN,
            priority       : Int \cup {None},
            scenario       : Scenarios \cup {None},
            required_state : States \cup {None},
            set_state      : States \cup {None},
            error          : Nat \cup {None},
            refusal        : BOOLEAN ] :
      f.scenario = None => f.required_state = None /\ f.set_state = None }

Priority(f) == IF f.priority = None THEN 0 ELSE f.priority

-----------------------------------------------------------------------------
(* FixtureSet::new: the indices of each pass, by descending priority.  The *)
(* sort is stable, so equal priorities keep the order of the list.         *)

\* Mutant of Earlier: the sort is not stable.
EarlierUnstable(fs, i, j) ==
  \/ Priority(fs[i]) > Priority(fs[j])
  \/ Priority(fs[i]) = Priority(fs[j]) /\ i > j

\* Mutant of Earlier: Reverse is forgotten.
EarlierAscending(fs, i, j) ==
  \/ Priority(fs[i]) < Priority(fs[j])
  \/ Priority(fs[i]) = Priority(fs[j]) /\ i < j

Earlier(fs, i, j) ==
  \/ Priority(fs[i]) > Priority(fs[j])
  \/ Priority(fs[i]) = Priority(fs[j]) /\ i < j

Kind(fs, catchAll) == { i \in DOMAIN fs : fs[i].catch_all = catchAll }

\* How many of a kind come before the i-th fixture.
Before(fs, kind, i) == Cardinality({ j \in kind : Earlier(fs, j, i) })

Order(fs, catchAll) ==
  LET kind == Kind(fs, catchAll)
  IN  [k \in 1..Cardinality(kind) |-> CHOOSE i \in kind : Before(fs, kind, i) = k - 1]

new(fs) == [ fixtures        |-> fs,
             primary_order   |-> Order(fs, FALSE),
             catch_all_order |-> Order(fs, TRUE) ]

\* What the passes rely on: an order lists positions of `fixtures`.
WellFormed(S) ==
  /\ DOMAIN S = {"fixtures", "primary_order", "catch_all_order"}
  /\ S.fixtures \in Seq(Fixture)
  /\ S.primary_order \in Seq(DOMAIN S.fixtures)
  /\ S.catch_all_order \in Seq(DOMAIN S.fixtures)

-----------------------------------------------------------------------------
(* fixture_matches.  A scenario without an entry in the map reads as the   *)
(* empty string, which is a member of States like any other.               *)

fixture_matches(f, r, states) ==
  /\ f.provider \in {None, r.provider}
  /\ f.required_state # None => states[f.scenario] = f.required_state
  /\ r.prompt \in f.prompts

-----------------------------------------------------------------------------
(* FixtureSet::find_match, with the predicate handle_request gives it (the  *)
(* fixture matches r and the scenario map): two passes, each in its order.  *)

FirstIn(fs, order, r, states) ==
  LET hits == { k \in DOMAIN order : fixture_matches(fs[order[k]], r, states) }
  IN  IF hits = {} THEN None ELSE fs[order[Min(hits)]]

find_match(S, r, states) ==
  LET primary == FirstIn(S.fixtures, S.primary_order, r, states)
  IN  IF primary # None
      THEN primary
      ELSE FirstIn(S.fixtures, S.catch_all_order, r, states)

\* AppState::append_validated_fixture: the set is rebuilt with f at the end.
\* (First its mutant: the fixture is spliced in at the front.)
append_in_front(S, f) == new(<<f>> \o S.fixtures)

append_validated_fixture(S, f) == new(Append(S.fixtures, f))

-----------------------------------------------------------------------------
(* What handle_request does with the match.                                *)

\* The status it records before it builds the reply.
FixtureStatus(f, r) ==
  IF f.error # None THEN f.error
  ELSE IF f.refusal /\ r.stream THEN 400 ELSE 200

\* Mutant of Advance: a scenario that sets no state is inserted all the same.
AdvanceAlways(states, f) ==
  IF f = None \/ f.scenario = None
  THEN states
  ELSE [states EXCEPT ![f.scenario] = f.set_state]

\* The scenario map after f was chosen: HashMap::insert of its set_state.
Advance(states, f) ==
  IF f = None \/ f.set_state = None
  THEN states
  ELSE [states EXCEPT ![f.scenario] = f.set_state]
=============================================================================
