----------------------------- MODULE MCDispatch -----------------------------
(* Dispatch on one scenario of two states and two fixture sets: a turn that *)
(* opens the scenario, a turn that needs it open, and either a fixture that *)
(* moves nothing or a catch-all that closes the scenario again.             *)
EXTENDS Dispatch

CONSTANTS oai, ask, other, flow, unset, open

MCProviders == {oai}
MCPrompts == {ask, other}
MCScenarios == {flow}
MCStates == {unset, open}

MCRequests == { [provider |-> oai, prompt |-> p, stream |-> TRUE] : p \in MCPrompts }

F(ps, ca, prio, name, req, set, err, ref) ==
  [ provider |-> oai, prompts |-> ps, catch_all |-> ca, priority |-> prio,
    scenario |-> name, required_state |-> req, set_state |-> set,
    error |-> err, refusal |-> ref ]

FirstTurn  == F({ask}, FALSE, None, flow, unset, open, 429, FALSE)
SecondTurn == F({ask}, FALSE, None, flow, open, None, None, FALSE)
CloseTurn  == F(MCPrompts, TRUE, None, flow, None, unset, None, TRUE)

MCFixtureSets == { new(<<FirstTurn, SecondTurn>>), new(<<CloseTurn, FirstTurn>>) }
=============================================================================
