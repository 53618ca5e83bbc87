------------------------------ MODULE AuthGate ------------------------------
(***************************************************************************)
(* The bearer-auth middleware (src/src/auth.rs bearer_auth_check) in front *)
(* of concurrent requests, over the token store it shares with them.  The  *)
(* middleware awaits the introspection of a token the store does not know, *)
(* so other requests use and drain tokens in the meantime.  The tokens are *)
(* those the builder registered; the OAuth server is outside and may call  *)
(* any token active.                                                       *)
(***************************************************************************)
EXTENDS TokenStore

CONSTANTS Clients,
          NoToken,       \* no usable Authorization header
          OAuth,         \* an introspection endpoint is configured
          UiRequireAuth, \* AppState.ui_require_auth
          MaxRequests    \* bound: the requests of a run

ASSUME ClientsAssumption == IsFiniteSet(Clients)
ASSUME NoTokenAssumption == NoToken \notin Tokens

VARIABLES pc,       \* where each client's request is in the middleware
          request,  \* the token and the kind of route it came with
          arrived,  \* the requests that have arrived
          passed,   \* history: LLM requests handed to the next layer, by token
          rejected  \* history: LLM requests answered with 401, by token

gate_vars == <<pc, request, arrived, passed, rejected>>
all_vars == <<vars, gate_vars>>

Routes == {"llm", "ui", "other"}
NoRequest == [token |-> NoToken, route |-> "other"]

GateInit ==
  /\ tokens \in [Tokens -> Uses \cup {Absent}]
  /\ exhausted = {}
  /\ issued = tokens
  /\ granted = [t \in Tokens |-> 0]
  /\ revoked = {}
  /\ pc = [c \in Clients |-> "idle"]
  /\ request = [c \in Clients |-> NoRequest]
  /\ arrived = 0
  /\ passed = [t \in Tokens \cup {NoToken} |-> 0]
  /\ rejected = passed

Goto(c, loc) == pc' = [pc EXCEPT ![c] = loc]

Arrive(c, t, route) ==
  /\ pc[c] = "idle" /\ arrived < MaxRequests
  /\ arrived' = arrived + 1
  /\ request' = [request EXCEPT ![c] = [token |-> t, route |-> route]]
  /\ Goto(c, "check")
  /\ UNCHANGED <<vars, passed, rejected>>

\* Where an answer of the store sends the request.
AfterStatus(status) ==
  CASE status = "valid" -> "pass"
    [] status = "exhausted" -> "reject"
    [] status = "unknown" -> IF OAuth THEN "introspect" ELSE "reject"

\* A route that is not gated, or a gated one without a token.
CheckNothing(c) ==
  LET r == request[c]
      gated == r.route = "llm" \/ (r.route = "ui" /\ UiRequireAuth)
  IN  /\ pc[c] = "check"
      /\ gated => r.token = NoToken
      /\ Goto(c, IF gated THEN "reject" ELSE "pass")
      /\ UNCHANGED <<vars, request, arrived, passed, rejected>>

CheckLlm(c) ==
  LET t == request[c].token
  IN  /\ pc[c] = "check" /\ request[c].route = "llm" /\ t # NoToken
      /\ check_and_use(t)
      /\ Goto(c, AfterStatus(Status(t)))
      /\ UNCHANGED <<request, arrived, passed, rejected>>

\* Mutant of CheckUi: the page is gated like the LLM routes.
CheckUiSpending(c) ==
  LET t == request[c].token
  IN  /\ pc[c] = "check" /\ request[c].route = "ui" /\ UiRequireAuth /\ t # NoToken
      /\ check_and_use(t)
      /\ Goto(c, AfterStatus(Status(t)))
      /\ UNCHANGED <<request, arrived, passed, rejected>>

\* The debug page validates, it does not use.
CheckUi(c) ==
  LET t == request[c].token
  IN  /\ pc[c] = "check" /\ request[c].route = "ui" /\ UiRequireAuth /\ t # NoToken
      /\ Goto(c, AfterStatus(Status(t)))
      /\ UNCHANGED <<vars, request, arrived, passed, rejected>>

\* check_oauth_token: active, or else inactive, unreadable or unreachable.
Introspected(c, active) ==
  /\ pc[c] = "introspect"
  /\ Goto(c, IF active THEN "pass" ELSE "reject")
  /\ UNCHANGED <<vars, request, arrived, passed, rejected>>

\* The connection closes while the middleware awaits: its future is dropped.
ClientLeaves(c) ==
  /\ pc[c] = "introspect"
  /\ Goto(c, "idle")
  /\ request' = [request EXCEPT ![c] = NoRequest]
  /\ UNCHANGED <<vars, arrived, passed, rejected>>

Pass(c) ==
  /\ pc[c] = "pass"
  /\ passed' = IF request[c].route = "llm"
               THEN [passed EXCEPT ![request[c].token] = @ + 1] ELSE passed
  /\ Goto(c, "idle")
  /\ request' = [request EXCEPT ![c] = NoRequest]
  /\ UNCHANGED <<vars, arrived, rejected>>

\* A 401.  That of an LLM route is also captured (Dispatch.ArriveEarly).
Reject(c) ==
  /\ pc[c] = "reject"
  /\ rejected' = IF request[c].route = "llm"
                 THEN [rejected EXCEPT ![request[c].token] = @ + 1] ELSE rejected
  /\ Goto(c, "idle")
  /\ request' = [request EXCEPT ![c] = NoRequest]
  /\ UNCHANGED <<vars, arrived, passed>>

GateNext ==
  \E c \in Clients :
    \/ \E t \in Tokens \cup {NoToken}, route \in Routes : Arrive(c, t, route)
    \/ CheckNothing(c) \/ CheckLlm(c) \/ CheckUi(c)
    \/ \E active \in BOOLEAN : Introspected(c, active)
    \/ ClientLeaves(c) \/ Pass(c) \/ Reject(c)

GateSpec == GateInit /\ [][GateNext]_all_vars

-----------------------------------------------------------------------------
At(t, loc) ==
  Cardinality({ c \in Clients : /\ pc[c] = loc
                                /\ request[c] = [token |-> t, route |-> "llm"] })

\* A registered token with n uses lets exactly the first n LLM requests
\* through, however they interleave with each other, with the page's requests
\* and with introspections, and whatever the OAuth server says of it: those
\* through or on their way and the uses left add up to n.
ExactlyTheLimit ==
  \A t \in Tokens :
    issued[t] \in Nat => passed[t] + At(t, "pass") + Remaining(t) = issued[t]

\* Once the uses of a registered token are gone, every further request with it
\* is turned away without asking the OAuth server (the deny-list).
DeniedNeverIntrospected ==
  \A c \in Clients :
    pc[c] = "introspect" => issued[request[c].token] = Absent

\* An LLM request with a registered token is turned away only once its uses
\* are gone, and never if it has no limit: no race rejects a request that the
\* budget still covers.
NoEarlyRejection ==
  \A t \in Tokens :
    issued[t] # Absent /\ rejected[t] + At(t, "reject") > 0 => Remaining(t) = 0
=============================================================================
