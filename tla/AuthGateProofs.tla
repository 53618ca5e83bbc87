--------------------------- MODULE AuthGateProofs ---------------------------
(***************************************************************************)
(* The token store keeps its budgets, for any set of tokens and any limits *)
(* they are issued with; and the bearer middleware keeps the limits of the *)
(* store, for any number of concurrent clients and whatever the OAuth      *)
(* server answers.                                                         *)
(***************************************************************************)
EXTENDS AuthGate, FiniteSetTheorems, TLAPS

-----------------------------------------------------------------------------
(* The token store.                                                        *)

USE MarkersAssumption, UsesAssumption

\* What makes BudgetExact inductive: a token on the deny-list is not in the
\* map, one that is on neither was never issued, a revoked one is denied, and
\* a limit in the map is what was issued less what was granted.
Ledger ==
  \A t \in Tokens :
    /\ t \in exhausted => tokens[t] = Absent
    /\ t \notin exhausted =>
         /\ tokens[t] = Absent <=> issued[t] = Absent
         /\ tokens[t] \in Nat <=> issued[t] \in Nat
         /\ t \notin revoked

IInv == TypeOK /\ Ledger /\ BudgetExact

\* The store is empty at the start.
LEMMA InitIInv == Init => IInv
  BY DEF Init, IInv, TypeOK, Ledger, BudgetExact, Remaining, Limits

\* A token keeps its types and its place in the books when another one is
\* issued, checked or revoked: each operation touches the entries of its own.
LEMMA AddKeeps ==
  ASSUME IInv, NEW t \in Tokens, NEW uses \in Uses, add_token(t, uses)
  PROVE  IInv'
  <1>1. TypeOK'
    BY DEF IInv, TypeOK, Limits, add_token
  <1>2. Ledger'
    BY DEF IInv, TypeOK, Limits, Ledger, add_token
  <1>3. BudgetExact'
    BY DEF IInv, TypeOK, Limits, BudgetExact, Remaining, add_token
  <1> QED
    BY <1>1, <1>2, <1>3 DEF IInv

\* The three ways a check may go, as far as the books are concerned.
LEMMA CheckKeeps ==
  ASSUME IInv, NEW t \in Tokens, check_and_use(t)
  PROVE  IInv'
  <1> USE DEF IInv, TypeOK, Limits, Ledger, BudgetExact, Remaining
  <1>1. CASE t \in exhausted \/ tokens[t] \notin Nat
    <2>1. UNCHANGED store
      BY <1>1 DEF check_and_use, Decrement
    <2>2. UNCHANGED history
      BY <1>1 DEF check_and_use, Grant, Status, history
    <2> QED
      BY <2>1, <2>2 DEF store, history
  <1>2. CASE t \notin exhausted /\ tokens[t] = 0
    <2>1. UseUp(t) /\ UNCHANGED history
      BY <1>2 DEF check_and_use, Decrement, Grant, Status, history
    <2> QED
      BY <1>2, <2>1 DEF UseUp, history
  <1>3. CASE t \notin exhausted /\ tokens[t] \in Nat \ {0}
    <2>1. /\ granted' = [granted EXCEPT ![t] = @ + 1]
          /\ UNCHANGED <<issued, revoked>>
      BY <1>3 DEF check_and_use, Grant, Status
    <2>2. CASE tokens[t] = 1
      <3>1. UseUp(t)
        BY <1>3, <2>2 DEF check_and_use, Decrement
      <3> QED
        BY <1>3, <2>1, <2>2, <3>1 DEF UseUp
    <2>3. CASE tokens[t] > 1
      <3>1. tokens' = [tokens EXCEPT ![t] = @ - 1] /\ UNCHANGED exhausted
        BY <1>3, <2>3 DEF check_and_use, Decrement
      <3> QED
        BY <1>3, <2>1, <2>3, <3>1
    <2> QED
      BY <1>3, <2>2, <2>3
  <1> QED
    BY <1>1, <1>2, <1>3

\* revoke takes the uses of one token, and denies it.
LEMMA RevokeKeeps ==
  ASSUME IInv, NEW t \in Tokens, revoke(t)
  PROVE  IInv'
  BY DEF IInv, TypeOK, Limits, Ledger, BudgetExact, Remaining, revoke, UseUp

\* The invariant is inductive.
LEMMA StepIInv == IInv /\ [Next]_vars => IInv'
  <1> SUFFICES ASSUME IInv, [Next]_vars PROVE IInv'
    OBVIOUS
  <1>1. CASE UNCHANGED vars
    BY <1>1 DEF vars, store, history, IInv, TypeOK, Ledger, BudgetExact, Remaining
  <1>2. CASE Next
    BY <1>2, AddKeeps, CheckKeeps, RevokeKeeps DEF Next
  <1> QED
    BY <1>1, <1>2

\* What the map, the deny-list and the budget keep to, always.
THEOREM SpecIInv == Spec => []IInv
  BY InitIInv, StepIInv, PTL DEF Spec

\* The variables of the token store keep their types, for any tokens.
THEOREM TypeCorrect == Spec => []TypeOK
  BY SpecIInv, PTL DEF IInv

\* A token issued with n uses is accepted exactly n times until it is revoked
\* or issued again, for any n and any number of tokens.
THEOREM BudgetIsExact == Spec => []BudgetExact
  BY SpecIInv, PTL DEF IInv

-----------------------------------------------------------------------------
(* The store implements TokenBudget: a check that is granted spends a use,  *)
(* one that is refused leaves what remains as it is, also when it moves a   *)
(* token issued with no use from the map to the deny-list.                  *)

\* The initial states map to initial states.
LEMMA InitBudget == Init => Budget!Init
  BY DEF Init, Budget!Init, UsesLeft, Remaining

\* add_token gives out a budget.
LEMMA AddIssues ==
  ASSUME IInv, NEW t \in Tokens, NEW uses \in Uses, add_token(t, uses)
  PROVE  Budget!Issue(t, uses)
  BY DEF IInv, TypeOK, Limits, add_token, Budget!Issue, UsesLeft, Remaining

\* revoke takes it back.
LEMMA RevokeDenies ==
  ASSUME IInv, NEW t \in Tokens, revoke(t)
  PROVE  Budget!Deny(t)
  BY DEF IInv, TypeOK, Limits, revoke, UseUp, Budget!Deny, UsesLeft, Remaining

\* check_and_use spends one use of it, or changes nothing.
LEMMA CheckSpends ==
  ASSUME IInv, NEW t \in Tokens, check_and_use(t)
  PROVE  \/ Budget!Spend(t)
         \/ UNCHANGED UsesLeft
  <1> USE DEF IInv, TypeOK, Limits, Remaining
  <1>1. CASE t \in exhausted \/ tokens[t] \notin Nat
    BY <1>1 DEF check_and_use, Decrement, store, UsesLeft
  <1>2. CASE t \notin exhausted /\ tokens[t] = 0
    <2>1. UseUp(t)
      BY <1>2 DEF check_and_use, Decrement
    <2> QED
      BY <1>2, <2>1 DEF UseUp, UsesLeft
  <1>3. CASE t \notin exhausted /\ tokens[t] = 1
    <2>1. UseUp(t)
      BY <1>3 DEF check_and_use, Decrement
    <2>2. UsesLeft[t] = 1 /\ UsesLeft' = [UsesLeft EXCEPT ![t] = 0]
      BY <1>3, <2>1 DEF UseUp, UsesLeft
    <2> QED
      BY <2>2 DEF Budget!Spend
  <1>4. CASE t \notin exhausted /\ tokens[t] \in Nat /\ tokens[t] > 1
    <2>1. tokens' = [tokens EXCEPT ![t] = @ - 1] /\ UNCHANGED exhausted
      BY <1>4 DEF check_and_use, Decrement
    <2>2. \A u \in Tokens :
            Remaining(u)' = IF u = t THEN tokens[t] - 1 ELSE Remaining(u)
      BY <1>4, <2>1
    <2>3. UsesLeft[t] = tokens[t]
      BY <1>4 DEF UsesLeft
    <2>4. UsesLeft' = [UsesLeft EXCEPT ![t] = tokens[t] - 1]
      <3> HIDE DEF Remaining
      <3> QED
        BY <2>2 DEF UsesLeft
    <2>5. UsesLeft[t] \in Nat \ {0}
      BY <1>4, <2>3
    <2> QED
      BY <2>3, <2>4, <2>5, Zenon DEF Budget!Spend
  <1> QED
    BY <1>1, <1>2, <1>3, <1>4

\* Every step maps to a step of TokenBudget or to a stutter.
LEMMA StepBudget ==
  IInv /\ [Next]_vars => [Budget!Next]_UsesLeft
  <1> SUFFICES ASSUME IInv, [Next]_vars
               PROVE  \/ Budget!Next
                      \/ UNCHANGED UsesLeft
    OBVIOUS
  <1>1. CASE UNCHANGED vars
    BY <1>1 DEF vars, store, UsesLeft, Remaining
  <1>2. ASSUME NEW t \in Tokens, NEW uses \in Uses, add_token(t, uses)
        PROVE  Budget!Next
    BY <1>2, AddIssues DEF Budget!Next
  <1>3. ASSUME NEW t \in Tokens, check_and_use(t)
        PROVE  Budget!Next \/ UNCHANGED UsesLeft
    BY <1>3, CheckSpends DEF Budget!Next
  <1>4. ASSUME NEW t \in Tokens, revoke(t)
        PROVE  Budget!Next
    BY <1>4, RevokeDenies DEF Budget!Next
  <1> QED
    BY <1>1, <1>2, <1>3, <1>4 DEF Next

\* The token store implements TokenBudget, whatever the tokens and limits: a
\* token that was ever issued is never unknown again, and one whose uses are
\* gone stays denied until it is issued anew.
THEOREM ImplementsBudget == Spec => KeepsBudget
  BY InitBudget, StepBudget, SpecIInv, PTL DEF Spec, KeepsBudget, Budget!Spec

-----------------------------------------------------------------------------
(* The middleware.                                                         *)

Locations == {"idle", "check", "introspect", "pass", "reject"}
Keys == Tokens \cup {NoToken}

GateTypes ==
  /\ pc \in [Clients -> Locations]
  /\ request \in [Clients -> [token : Keys, route : Routes]]
  /\ passed \in [Keys -> Nat]
  /\ rejected \in [Keys -> Nat]

-----------------------------------------------------------------------------
(* The requests At counts.                                                 *)

Waiting(t, loc) ==
  { c \in Clients : pc[c] = loc /\ request[c] = [token |-> t, route |-> "llm"] }

\* At counts the clients that wait at a place with a token.
LEMMA AtCounts ==
  ASSUME NEW t, NEW loc
  PROVE  /\ IsFiniteSet(Waiting(t, loc))
         /\ At(t, loc) = Cardinality(Waiting(t, loc))
         /\ At(t, loc) \in Nat
         /\ At(t, loc) = 0 <=> Waiting(t, loc) = {}
  <1>1. Waiting(t, loc) \in SUBSET Clients
    BY DEF Waiting
  <1>2. IsFiniteSet(Waiting(t, loc))
    BY <1>1, ClientsAssumption, FS_Subset
  <1>3. At(t, loc) = Cardinality(Waiting(t, loc))
    BY DEF At, Waiting
  <1> QED
    BY <1>2, <1>3, FS_CardinalityType, FS_EmptySet

\* One client moves, the others stay where they are.
OnlyMoves(c) ==
  \A d \in Clients \ {c} : pc'[d] = pc[d] /\ request'[d] = request[d]

\* What a client's move does to the number of those that wait somewhere.
LEMMA AtMoves ==
  ASSUME NEW t, NEW loc, NEW c \in Clients, OnlyMoves(c)
  PROVE  /\ (c \in Waiting(t, loc) <=> c \in Waiting(t, loc)') => At(t, loc)' = At(t, loc)
         /\ (c \notin Waiting(t, loc) /\ c \in Waiting(t, loc)') =>
              At(t, loc)' = At(t, loc) + 1
         /\ (c \in Waiting(t, loc) /\ c \notin Waiting(t, loc)') =>
              At(t, loc)' = At(t, loc) - 1
  <1> DEFINE before == Waiting(t, loc)
             after == Waiting(t, loc)'
  <1>1. At(t, loc)' = Cardinality(after)
    BY DEF At, Waiting
  <1>2. At(t, loc) = Cardinality(before) /\ IsFiniteSet(before)
    BY AtCounts
  <1>3. \A d \in Clients \ {c} : d \in before <=> d \in after
    BY DEF OnlyMoves, Waiting
  <1>4. before \subseteq Clients /\ after \subseteq Clients
    BY DEF Waiting
  <1> HIDE DEF before, after
  <1>5. CASE c \in before <=> c \in after
    <2>1. after = before
      BY <1>3, <1>4, <1>5
    <2> QED
      BY <1>1, <1>2, <1>5, <2>1 DEF before, after
  <1>6. CASE c \notin before /\ c \in after
    <2>1. after = before \cup {c}
      BY <1>3, <1>4, <1>6
    <2>2. Cardinality(after) = Cardinality(before) + 1
      BY <1>2, <1>6, <2>1, FS_AddElement
    <2> QED
      BY <1>1, <1>2, <1>6, <2>2 DEF before, after
  <1>7. CASE c \in before /\ c \notin after
    <2>1. after = before \ {c}
      BY <1>3, <1>4, <1>7
    <2>2. Cardinality(after) = Cardinality(before) - 1
      BY <1>2, <1>7, <2>1, FS_RemoveElement
    <2> QED
      BY <1>1, <1>2, <1>7, <2>2 DEF before, after
  <1> QED
    BY <1>5, <1>6, <1>7
-----------------------------------------------------------------------------
(* The inductive invariant.  Nobody revokes here, so the books of the store *)
(* are exact for every registered token; what it has granted is through or  *)
(* on its way.  A request that is introspected came with a token that the   *)
(* store has never heard of, which stays so.                                *)

Unregistered ==
  \A c \in Clients :
    pc[c] = "introspect" =>
      request[c].token \in Tokens /\ issued[request[c].token] = Absent

PassBooks ==
  \A t \in Tokens : issued[t] \in Nat => passed[t] + At(t, "pass") = granted[t]

GateIInv ==
  /\ IInv /\ revoked = {}
  /\ GateTypes
  /\ Unregistered
  /\ PassBooks
  /\ NoEarlyRejection

\* Nobody has asked for anything: the invariant holds at the start.
LEMMA InitGate == GateInit => GateIInv
  <1> SUFFICES ASSUME GateInit PROVE GateIInv
    OBVIOUS
  <1>1. IInv /\ revoked = {}
    <2>1. /\ tokens \in [Tokens -> Uses \cup {Absent}] /\ issued = tokens
          /\ exhausted = {} /\ revoked = {} /\ granted = [t \in Tokens |-> 0]
      BY DEF GateInit
    <2>2. TypeOK
      <3>1. Uses \cup {Absent} \subseteq Limits
        BY UsesAssumption DEF Limits
      <3>2. tokens \in [Tokens -> Limits]
        BY <2>1, <3>1
      <3> QED
        BY <2>1, <3>2 DEF TypeOK
    <2>3. Ledger
      BY <2>1 DEF Ledger
    <2>4. BudgetExact
      BY <2>1, UsesAssumption, MarkersAssumption DEF BudgetExact, Remaining
    <2> QED
      BY <2>1, <2>2, <2>3, <2>4 DEF IInv
  <1>2. GateTypes
    BY DEF GateInit, GateTypes, Locations, Keys, Routes, NoRequest
  <1>3. Unregistered
    BY DEF GateInit, Unregistered
  <1>4. ASSUME NEW t, NEW loc \in {"pass", "reject"}
        PROVE  At(t, loc) = 0
    <2>1. Waiting(t, loc) = {}
      BY <1>4 DEF GateInit, Waiting
    <2> QED
      BY <2>1, AtCounts
  <1>5. PassBooks
    BY <1>4 DEF GateInit, PassBooks
  <1>6. NoEarlyRejection
    BY <1>4 DEF GateInit, NoEarlyRejection
  <1> QED
    BY <1>1, <1>2, <1>3, <1>5, <1>6 DEF GateIInv

\* A check of t: what it answers agrees with what is left, and it is charged
\* to t alone, and only if it is granted.
LEMMA CheckCharges ==
  ASSUME IInv, NEW t \in Tokens, check_and_use(t)
  PROVE  /\ issued' = issued /\ revoked' = revoked
         /\ \A u \in Tokens \ {t} :
              granted'[u] = granted[u] /\ Remaining(u)' = Remaining(u)
         /\ Status(t) = "valid" /\ issued[t] \in Nat => granted'[t] = granted[t] + 1
         /\ Status(t) # "valid" => granted' = granted
         /\ Remaining(t) = 0 => Remaining(t)' = 0
  <1> USE DEF IInv, TypeOK, Limits, Ledger, Remaining
  <1>1. /\ issued' = issued /\ revoked' = revoked
        /\ Status(t) = "valid" /\ issued[t] \in Nat => granted'[t] = granted[t] + 1
        /\ Status(t) # "valid" => granted' = granted
        /\ \A u \in Tokens \ {t} : granted'[u] = granted[u]
    BY DEF check_and_use, Grant
  <1>2. /\ \A u \in Tokens \ {t} : Remaining(u)' = Remaining(u)
        /\ Remaining(t) = 0 => Remaining(t)' = 0
    <2>1. CASE t \in exhausted \/ tokens[t] \notin Nat
      BY <2>1 DEF check_and_use, Decrement, store
    <2>2. CASE t \notin exhausted /\ tokens[t] \in Nat /\ tokens[t] <= 1
      BY <2>2 DEF check_and_use, Decrement, UseUp
    <2>3. CASE t \notin exhausted /\ tokens[t] \in Nat /\ tokens[t] > 1
      <3>1. tokens' = [tokens EXCEPT ![t] = @ - 1] /\ UNCHANGED exhausted
        BY <2>3 DEF check_and_use, Decrement
      <3> QED
        BY <2>3, <3>1
    <2> QED
      BY <2>1, <2>2, <2>3
  <1> QED
    BY <1>1, <1>2

\* The store's answer tells how many uses the token has left.
LEMMA StatusIsTrue ==
  ASSUME IInv, NEW t \in Tokens
  PROVE  /\ Status(t) \in {"valid", "exhausted", "unknown"}
         /\ Status(t) = "exhausted" <=> Remaining(t) = 0
         /\ Status(t) = "unknown" => issued[t] = Absent
         /\ Status(t) = "unknown" => Remaining(t) # 0
  BY DEF IInv, TypeOK, Limits, Ledger, Remaining, Status

-----------------------------------------------------------------------------
(* The steps.  All but the check of an LLM request leave the store alone,  *)
(* so what it promises holds on; the counts follow the one client that     *)
(* moves.                                                                  *)

\* A step that leaves the store alone keeps what is known of it.
LEMMA StoreUnmoved ==
  ASSUME IInv, revoked = {}, UNCHANGED vars
  PROVE  /\ IInv' /\ revoked' = {}
         /\ issued' = issued /\ granted' = granted
         /\ \A t \in Tokens : Remaining(t)' = Remaining(t)
  BY DEF IInv, TypeOK, Ledger, BudgetExact, Remaining, vars, store, history

\* A client that goes to a location where nothing is counted.
LEMMA MovesUncounted ==
  ASSUME GateIInv, NEW c \in Clients, OnlyMoves(c), UNCHANGED <<vars, passed, rejected>>,
         pc[c] \notin {"pass", "reject"}, pc'[c] \notin {"pass", "reject"}
  PROVE  PassBooks' /\ NoEarlyRejection'
  <1>1. /\ issued' = issued /\ granted' = granted
        /\ \A t \in Tokens : Remaining(t)' = Remaining(t)
    BY StoreUnmoved DEF GateIInv
  <1>2. ASSUME NEW t, NEW loc \in {"pass", "reject"}
        PROVE  At(t, loc)' = At(t, loc)
    <2>1. c \notin Waiting(t, loc) /\ c \notin Waiting(t, loc)'
      BY DEF Waiting
    <2> QED
      BY <2>1, AtMoves
  <1>3. PassBooks'
    BY <1>1, <1>2 DEF GateIInv, PassBooks
  <1>4. NoEarlyRejection'
    BY <1>1, <1>2 DEF GateIInv, NoEarlyRejection
  <1> QED
    BY <1>3, <1>4

\* A client that goes where a request is counted, with a token that has no
\* budget or has used it up, or on a route that is not counted.
LEMMA MovesRejected ==
  ASSUME GateIInv, NEW c \in Clients, OnlyMoves(c), UNCHANGED <<vars, passed, rejected>>,
         pc[c] \notin {"pass", "reject"}, pc'[c] \in {"pass", "reject"},
         request'[c] = request[c],
         \/ request[c].route # "llm"
         \/ request[c].token \notin Tokens
         \/ request[c].token \in Tokens /\ issued[request[c].token] = Absent
         \/ pc'[c] = "reject" /\ Remaining(request[c].token) = 0
  PROVE  PassBooks' /\ NoEarlyRejection'
  <1>1. /\ issued' = issued /\ granted' = granted
        /\ \A t \in Tokens : Remaining(t)' = Remaining(t)
    BY StoreUnmoved DEF GateIInv
  <1>2. ASSUME NEW t \in Tokens, NEW loc \in {"pass", "reject"},
               c \notin Waiting(t, loc)'
        PROVE  At(t, loc)' = At(t, loc)
    <2>1. c \notin Waiting(t, loc)
      BY DEF Waiting
    <2> QED
      BY <1>2, <2>1, AtMoves
  <1>3. ASSUME NEW t \in Tokens, issued[t] \in Nat
        PROVE  At(t, "pass")' = At(t, "pass")
    <2>1. c \notin Waiting(t, "pass")'
      BY <1>3, MarkersAssumption DEF Waiting
    <2> QED
      BY <1>2, <2>1
  <1>4. PassBooks'
    BY <1>1, <1>3 DEF GateIInv, PassBooks
  <1>5. ASSUME NEW t \in Tokens, issued[t] # Absent, Remaining(t) # 0
        PROVE  At(t, "reject")' = At(t, "reject")
    <2>1. c \notin Waiting(t, "reject")'
      BY <1>5 DEF Waiting
    <2> QED
      BY <1>2, <2>1
  <1>6. NoEarlyRejection'
    BY <1>1, <1>5 DEF GateIInv, NoEarlyRejection
  <1> QED
    BY <1>4, <1>6

\* Goto moves one client and no other.
LEMMA GotoMoves ==
  ASSUME GateTypes, NEW c \in Clients, NEW loc \in Locations, Goto(c, loc)
  PROVE  /\ pc' \in [Clients -> Locations]
         /\ pc'[c] = loc
         /\ \A d \in Clients \ {c} : pc'[d] = pc[d]
  BY DEF GateTypes, Goto

\* A request arrives: one client more waits, with nothing granted.
LEMMA ArriveGate ==
  ASSUME GateIInv, NEW c \in Clients, NEW t \in Keys, NEW route \in Routes,
         Arrive(c, t, route)
  PROVE  GateIInv'
  <1> USE DEF GateIInv
  <1>1. UNCHANGED vars /\ UNCHANGED passed /\ UNCHANGED rejected
    BY DEF Arrive
  <1>2. /\ request' = [request EXCEPT ![c] = [token |-> t, route |-> route]]
        /\ pc[c] = "idle"
    BY DEF Arrive
  <1>3. /\ pc' \in [Clients -> Locations] /\ pc'[c] = "check"
        /\ \A d \in Clients \ {c} : pc'[d] = pc[d]
    BY GotoMoves DEF Arrive, Locations
  <1>4. GateTypes'
    BY <1>1, <1>2, <1>3 DEF GateTypes
  <1>5. OnlyMoves(c)
    BY <1>2, <1>3 DEF OnlyMoves, GateTypes
  <1>6. IInv' /\ revoked' = {} /\ issued' = issued
    BY <1>1, StoreUnmoved
  <1>7. Unregistered'
    BY <1>3, <1>5, <1>6 DEF Unregistered, OnlyMoves
  <1>8. PassBooks' /\ NoEarlyRejection'
    BY <1>1, <1>2, <1>3, <1>5, MovesUncounted
  <1> QED
    BY <1>4, <1>6, <1>7, <1>8

\* A step that leaves the store alone and takes client c, with the request it
\* has, to loc.
LEMMA GotoKeeps ==
  ASSUME GateIInv, NEW c \in Clients, NEW loc \in Locations, Goto(c, loc),
         UNCHANGED <<vars, request, passed, rejected>>
  PROVE  /\ IInv' /\ revoked' = {} /\ issued' = issued
         /\ GateTypes'
         /\ OnlyMoves(c) /\ pc'[c] = loc
         /\ loc # "introspect" => Unregistered'
  <1>1. IInv' /\ revoked' = {} /\ issued' = issued
    BY StoreUnmoved DEF GateIInv
  <1>2. /\ pc' \in [Clients -> Locations] /\ pc'[c] = loc
        /\ \A d \in Clients \ {c} : pc'[d] = pc[d]
    BY GotoMoves DEF GateIInv
  <1>3. GateTypes'
    BY <1>2 DEF GateIInv, GateTypes
  <1>4. OnlyMoves(c)
    BY <1>2 DEF OnlyMoves
  <1>5. ASSUME loc # "introspect"
        PROVE  Unregistered'
    BY <1>1, <1>2, <1>5 DEF GateIInv, Unregistered
  <1> QED
    BY <1>1, <1>2, <1>3, <1>4, <1>5

\* An open route, or a gated one without a token: no store is asked.
LEMMA CheckNothingGate ==
  ASSUME GateIInv, NEW c \in Clients, CheckNothing(c)
  PROVE  GateIInv'
  <1> DEFINE gated == request[c].route = "llm" \/ (request[c].route = "ui" /\ UiRequireAuth)
             loc == IF gated THEN "reject" ELSE "pass"
  <1>1. /\ UNCHANGED <<vars, request, passed, rejected>>
        /\ pc[c] = "check" /\ Goto(c, loc)
        /\ gated => request[c].token = NoToken
    BY DEF CheckNothing
  <1>2. loc \in {"pass", "reject"} /\ loc \in Locations
    BY DEF Locations
  <1>3. request[c].route # "llm" \/ request[c].token \notin Tokens
    BY <1>1, NoTokenAssumption
  <1> HIDE DEF gated, loc
  <1>4. /\ IInv' /\ revoked' = {} /\ GateTypes' /\ Unregistered'
        /\ OnlyMoves(c) /\ pc'[c] = loc
    BY <1>1, <1>2, GotoKeeps
  <1>5. PassBooks' /\ NoEarlyRejection'
    BY <1>1, <1>2, <1>3, <1>4, MovesRejected
  <1> QED
    BY <1>4, <1>5 DEF GateIInv

\* The debug page: it validates and spends nothing.
LEMMA CheckUiGate ==
  ASSUME GateIInv, NEW c \in Clients, CheckUi(c)
  PROVE  GateIInv'
  <1> DEFINE t == request[c].token
             loc == AfterStatus(Status(t))
  <1>1. /\ UNCHANGED <<vars, request, passed, rejected>>
        /\ pc[c] = "check" /\ Goto(c, loc)
        /\ request[c].route = "ui" /\ t # NoToken
    BY DEF CheckUi
  <1>2. t \in Tokens
    BY <1>1 DEF GateIInv, GateTypes, Keys
  <1>3. /\ loc \in {"pass", "reject", "introspect"}
        /\ loc = "introspect" => Status(t) = "unknown"
    BY <1>2, StatusIsTrue DEF AfterStatus, GateIInv
  <1>4. loc = "introspect" => issued[t] = Absent
    BY <1>2, <1>3, StatusIsTrue DEF GateIInv
  <1>5. /\ IInv' /\ revoked' = {} /\ issued' = issued /\ GateTypes'
        /\ OnlyMoves(c) /\ pc'[c] = loc
    <2> HIDE DEF loc
    <2>1. loc \in Locations
      BY <1>3 DEF Locations
    <2> QED
      BY <1>1, <2>1, GotoKeeps
  <1>6. Unregistered'
    BY <1>1, <1>2, <1>4, <1>5 DEF Unregistered, OnlyMoves, GateIInv
  <1> HIDE DEF loc
  <1>7. PassBooks' /\ NoEarlyRejection'
    <2>1. CASE loc = "introspect"
      BY <1>1, <1>5, <2>1, MovesUncounted
    <2>2. CASE loc \in {"pass", "reject"}
      BY <1>1, <1>5, <2>2, MovesRejected
    <2> QED
      BY <1>3, <2>1, <2>2
  <1> QED
    BY <1>5, <1>6, <1>7 DEF GateIInv

\* The OAuth server's answer, for a token the store does not know.
LEMMA IntrospectedGate ==
  ASSUME GateIInv, NEW c \in Clients, NEW active \in BOOLEAN, Introspected(c, active)
  PROVE  GateIInv'
  <1> DEFINE loc == IF active THEN "pass" ELSE "reject"
  <1>1. /\ UNCHANGED <<vars, request, passed, rejected>>
        /\ pc[c] = "introspect" /\ Goto(c, loc)
    BY DEF Introspected
  <1>2. loc \in {"pass", "reject"} /\ loc \in Locations
    BY DEF Locations
  <1> HIDE DEF loc
  <1>3. request[c].token \in Tokens /\ issued[request[c].token] = Absent
    BY <1>1 DEF GateIInv, Unregistered
  <1>4. /\ IInv' /\ revoked' = {} /\ GateTypes' /\ Unregistered'
        /\ OnlyMoves(c) /\ pc'[c] = loc
    BY <1>1, <1>2, GotoKeeps
  <1>5. PassBooks' /\ NoEarlyRejection'
    BY <1>1, <1>2, <1>3, <1>4, MovesRejected
  <1> QED
    BY <1>4, <1>5 DEF GateIInv

\* The request is over, with what it leaves in `passed` and `rejected`.
LEMMA EndKeeps ==
  ASSUME GateIInv, NEW c \in Clients, Goto(c, "idle"), UNCHANGED vars,
         request' = [request EXCEPT ![c] = NoRequest]
  PROVE  /\ IInv' /\ revoked' = {} /\ issued' = issued /\ granted' = granted
         /\ \A t \in Tokens : Remaining(t)' = Remaining(t)
         /\ pc' \in [Clients -> Locations] /\ pc'[c] = "idle"
         /\ request' \in [Clients -> [token : Keys, route : Routes]]
         /\ OnlyMoves(c)
         /\ Unregistered'
  <1>1. /\ IInv' /\ revoked' = {} /\ issued' = issued /\ granted' = granted
        /\ \A t \in Tokens : Remaining(t)' = Remaining(t)
    BY StoreUnmoved DEF GateIInv
  <1>2. /\ pc' \in [Clients -> Locations] /\ pc'[c] = "idle"
        /\ \A d \in Clients \ {c} : pc'[d] = pc[d]
    BY GotoMoves DEF GateIInv, Locations
  <1>3. /\ request' \in [Clients -> [token : Keys, route : Routes]]
        /\ \A d \in Clients \ {c} : request'[d] = request[d]
    BY DEF GateIInv, GateTypes, NoRequest, Keys, Routes
  <1>4. OnlyMoves(c)
    BY <1>2, <1>3 DEF OnlyMoves
  <1>5. Unregistered'
    BY <1>1, <1>2, <1>3 DEF GateIInv, Unregistered
  <1> QED
    BY <1>1, <1>2, <1>3, <1>4, <1>5

\* A client that leaves at the await takes no use with it.
LEMMA LeavesGate ==
  ASSUME GateIInv, NEW c \in Clients, ClientLeaves(c)
  PROVE  GateIInv'
  <1>1. /\ UNCHANGED <<vars, passed, rejected>> /\ pc[c] = "introspect"
        /\ Goto(c, "idle") /\ request' = [request EXCEPT ![c] = NoRequest]
    BY DEF ClientLeaves
  <1>2. /\ IInv' /\ revoked' = {} /\ OnlyMoves(c) /\ pc'[c] = "idle" /\ Unregistered'
    BY <1>1, EndKeeps
  <1>3. GateTypes'
    BY <1>1, EndKeeps DEF GateIInv, GateTypes
  <1>4. PassBooks' /\ NoEarlyRejection'
    BY <1>1, <1>2, MovesUncounted
  <1> QED
    BY <1>2, <1>3, <1>4 DEF GateIInv

\* A request passes: what it was granted at the check is counted now.
LEMMA PassGate ==
  ASSUME GateIInv, NEW c \in Clients, Pass(c)
  PROVE  GateIInv'
  <1> DEFINE k == request[c].token
  <1>1. /\ UNCHANGED vars /\ UNCHANGED rejected /\ pc[c] = "pass"
        /\ Goto(c, "idle") /\ request' = [request EXCEPT ![c] = NoRequest]
        /\ passed' = IF request[c].route = "llm"
                     THEN [passed EXCEPT ![k] = @ + 1] ELSE passed
    BY DEF Pass
  <1>2. /\ IInv' /\ revoked' = {} /\ issued' = issued /\ granted' = granted
        /\ \A t \in Tokens : Remaining(t)' = Remaining(t)
        /\ OnlyMoves(c) /\ pc'[c] = "idle" /\ Unregistered'
    BY <1>1, EndKeeps
  <1>3. k \in Keys /\ request[c] = [token |-> k, route |-> request[c].route]
    BY DEF GateIInv, GateTypes
  <1>4. GateTypes'
    <2>1. passed' \in [Keys -> Nat]
      BY <1>1, <1>3 DEF GateIInv, GateTypes
    <2> QED
      BY <1>1, <2>1, EndKeeps DEF GateIInv, GateTypes
  <1>5. ASSUME NEW t \in Tokens
        PROVE  At(t, "reject")' = At(t, "reject")
    <2>1. c \notin Waiting(t, "reject") /\ c \notin Waiting(t, "reject")'
      BY <1>1, <1>2 DEF Waiting
    <2> QED
      BY <1>2, <2>1, AtMoves
  <1>6. ASSUME NEW t \in Tokens
        PROVE  passed'[t] + At(t, "pass")' = passed[t] + At(t, "pass")
    <2>1. c \notin Waiting(t, "pass")'
      BY <1>2 DEF Waiting
    <2>2. passed[t] \in Nat /\ At(t, "pass") \in Nat
      BY AtCounts DEF GateIInv, GateTypes, Keys
    <2>3. CASE request[c].route = "llm" /\ k = t
      <3>1. c \in Waiting(t, "pass")
        BY <1>1, <1>3, <2>3 DEF Waiting
      <3>2. At(t, "pass")' = At(t, "pass") - 1
        BY <1>2, <2>1, <3>1, AtMoves
      <3>3. passed'[t] = passed[t] + 1
        BY <1>1, <1>3, <2>3 DEF GateIInv, GateTypes
      <3> QED
        BY <2>2, <3>2, <3>3
    <2>4. CASE ~(request[c].route = "llm" /\ k = t)
      <3>1. c \notin Waiting(t, "pass")
        BY <2>4 DEF Waiting
      <3>2. At(t, "pass")' = At(t, "pass")
        BY <1>2, <2>1, <3>1, AtMoves
      <3>3. passed'[t] = passed[t]
        BY <1>1, <1>3, <2>4 DEF GateIInv, GateTypes, Keys
      <3> QED
        BY <3>2, <3>3
    <2> QED
      BY <2>3, <2>4
  <1>7. PassBooks'
    BY <1>2, <1>6 DEF GateIInv, PassBooks
  <1>8. NoEarlyRejection'
    BY <1>1, <1>2, <1>5 DEF GateIInv, NoEarlyRejection
  <1> QED
    BY <1>2, <1>4, <1>7, <1>8 DEF GateIInv

\* A refusal spends nothing.
LEMMA RejectGate ==
  ASSUME GateIInv, NEW c \in Clients, Reject(c)
  PROVE  GateIInv'
  <1> DEFINE k == request[c].token
  <1>1. /\ UNCHANGED vars /\ UNCHANGED passed /\ pc[c] = "reject"
        /\ Goto(c, "idle") /\ request' = [request EXCEPT ![c] = NoRequest]
        /\ rejected' = IF request[c].route = "llm"
                       THEN [rejected EXCEPT ![k] = @ + 1] ELSE rejected
    BY DEF Reject
  <1>2. /\ IInv' /\ revoked' = {} /\ issued' = issued /\ granted' = granted
        /\ \A t \in Tokens : Remaining(t)' = Remaining(t)
        /\ OnlyMoves(c) /\ pc'[c] = "idle" /\ Unregistered'
    BY <1>1, EndKeeps
  <1>3. k \in Keys /\ request[c] = [token |-> k, route |-> request[c].route]
    BY DEF GateIInv, GateTypes
  <1>4. GateTypes'
    <2>1. rejected' \in [Keys -> Nat]
      BY <1>1, <1>3 DEF GateIInv, GateTypes
    <2> QED
      BY <1>1, <2>1, EndKeeps DEF GateIInv, GateTypes
  <1>5. ASSUME NEW t \in Tokens
        PROVE  At(t, "pass")' = At(t, "pass")
    <2>1. c \notin Waiting(t, "pass") /\ c \notin Waiting(t, "pass")'
      BY <1>1, <1>2 DEF Waiting
    <2> QED
      BY <1>2, <2>1, AtMoves
  <1>6. ASSUME NEW t \in Tokens
        PROVE  rejected'[t] + At(t, "reject")' = rejected[t] + At(t, "reject")
    <2>1. c \notin Waiting(t, "reject")'
      BY <1>2 DEF Waiting
    <2>2. rejected[t] \in Nat /\ At(t, "reject") \in Nat
      BY AtCounts DEF GateIInv, GateTypes, Keys
    <2>3. CASE request[c].route = "llm" /\ k = t
      <3>1. c \in Waiting(t, "reject")
        BY <1>1, <1>3, <2>3 DEF Waiting
      <3>2. At(t, "reject")' = At(t, "reject") - 1
        BY <1>2, <2>1, <3>1, AtMoves
      <3>3. rejected'[t] = rejected[t] + 1
        BY <1>1, <1>3, <2>3 DEF GateIInv, GateTypes
      <3> QED
        BY <2>2, <3>2, <3>3
    <2>4. CASE ~(request[c].route = "llm" /\ k = t)
      <3>1. c \notin Waiting(t, "reject")
        BY <2>4 DEF Waiting
      <3>2. At(t, "reject")' = At(t, "reject")
        BY <1>2, <2>1, <3>1, AtMoves
      <3>3. rejected'[t] = rejected[t]
        BY <1>1, <1>3, <2>4 DEF GateIInv, GateTypes, Keys
      <3> QED
        BY <3>2, <3>3
    <2> QED
      BY <2>3, <2>4
  <1>7. PassBooks'
    BY <1>1, <1>2, <1>5 DEF GateIInv, PassBooks
  <1>8. NoEarlyRejection'
    BY <1>2, <1>6 DEF GateIInv, NoEarlyRejection
  <1> QED
    BY <1>2, <1>4, <1>7, <1>8 DEF GateIInv

\* The one step that uses the token: what it charges to the token is what it
\* puts on the way to the next layer, and it rejects what is used up.
LEMMA CheckLlmGate ==
  ASSUME GateIInv, NEW c \in Clients, CheckLlm(c)
  PROVE  GateIInv'
  <1>0. request[c].token \in Tokens /\ request[c].token # NoToken
    BY DEF CheckLlm, GateIInv, GateTypes, Keys
  <1> PICK t \in Tokens : t = request[c].token
    BY <1>0
  <1> PICK loc : loc = AfterStatus(Status(t))
    OBVIOUS
  <1>1. /\ UNCHANGED <<request, passed, rejected>>
        /\ pc[c] = "check" /\ Goto(c, loc)
        /\ request[c].route = "llm" /\ check_and_use(t)
    BY DEF CheckLlm
  <1>2. request[c] = [token |-> t, route |-> "llm"]
    BY <1>1 DEF GateIInv, GateTypes
  <1>3. IInv'
    BY <1>1, CheckKeeps DEF GateIInv
  <1>4. /\ issued' = issued /\ revoked' = {}
        /\ \A u \in Tokens \ {t} :
             granted'[u] = granted[u] /\ Remaining(u)' = Remaining(u)
        /\ Status(t) = "valid" /\ issued[t] \in Nat => granted'[t] = granted[t] + 1
        /\ Status(t) # "valid" => granted' = granted
        /\ Remaining(t) = 0 => Remaining(t)' = 0
    BY <1>1, CheckCharges DEF GateIInv
  <1>5. /\ Status(t) \in {"valid", "exhausted", "unknown"}
        /\ Status(t) = "exhausted" <=> Remaining(t) = 0
        /\ Status(t) = "unknown" => issued[t] = Absent
    BY StatusIsTrue DEF GateIInv
  <1>6. /\ loc \in {"pass", "reject", "introspect"}
        /\ loc = "pass" <=> Status(t) = "valid"
        /\ loc = "reject" => Status(t) = "exhausted" \/ Status(t) = "unknown"
        /\ loc = "introspect" => Status(t) = "unknown"
    BY <1>5 DEF AfterStatus
  <1>7. /\ pc' \in [Clients -> Locations] /\ pc'[c] = loc
        /\ \A d \in Clients \ {c} : pc'[d] = pc[d]
    <2>1. loc \in Locations
      BY <1>6 DEF Locations
    <2> QED
      BY <1>1, <2>1, GotoMoves DEF GateIInv
  <1>8. OnlyMoves(c)
    BY <1>1, <1>7 DEF OnlyMoves
  <1>9. GateTypes'
    BY <1>1, <1>7 DEF GateIInv, GateTypes
  <1>10. Unregistered'
    BY <1>1, <1>2, <1>4, <1>5, <1>6, <1>7 DEF GateIInv, Unregistered
  <1>11. ASSUME NEW u \in Tokens, NEW l \in {"pass", "reject"}
         PROVE  /\ (u # t \/ l # loc) => At(u, l)' = At(u, l)
                /\ (u = t /\ l = loc) => At(u, l)' = At(u, l) + 1
    <2>1. c \notin Waiting(u, l)
      BY <1>1 DEF Waiting
    <2>2. c \in Waiting(u, l)' <=> (u = t /\ l = loc)
      <3>1. request'[c] = [token |-> t, route |-> "llm"] /\ pc'[c] = loc
        BY <1>1, <1>2, <1>7
      <3>2. [token |-> t, route |-> "llm"] = [token |-> u, route |-> "llm"] <=> u = t
        <4>1. [token |-> t, route |-> "llm"].token = t /\ [token |-> u, route |-> "llm"].token = u
          OBVIOUS
        <4> QED
          BY <4>1
      <3> QED
        BY <3>1, <3>2 DEF Waiting
    <2> QED
      BY <1>8, <2>1, <2>2, AtMoves
  <1>12. PassBooks'
    <2> SUFFICES ASSUME NEW u \in Tokens, issued[u] \in Nat
                 PROVE  passed[u] + At(u, "pass")' = granted'[u]
      BY <1>1, <1>4 DEF PassBooks
    <2>1. /\ passed[u] + At(u, "pass") = granted[u]
          /\ passed[u] \in Nat /\ At(u, "pass") \in Nat
      BY AtCounts DEF GateIInv, PassBooks, GateTypes, Keys
    <2>2. CASE u = t /\ loc = "pass"
      <3>1. granted'[u] = granted[u] + 1
        BY <1>4, <1>6, <2>2
      <3>2. At(u, "pass")' = At(u, "pass") + 1
        BY <1>11, <2>2
      <3> QED
        BY <2>1, <3>1, <3>2
    <2>3. CASE u # t \/ loc # "pass"
      <3>1. granted'[u] = granted[u]
        BY <1>4, <1>6, <2>3
      <3>2. At(u, "pass")' = At(u, "pass")
        BY <1>11, <2>3
      <3> QED
        BY <2>1, <3>1, <3>2
    <2> QED
      BY <2>2, <2>3
  <1>13. NoEarlyRejection'
    <2> SUFFICES ASSUME NEW u \in Tokens, issued[u] # Absent,
                        rejected[u] + At(u, "reject")' > 0
                 PROVE  Remaining(u)' = 0
      BY <1>1, <1>4 DEF NoEarlyRejection
    <2>1. CASE u = t /\ loc = "reject"
      BY <1>4, <1>5, <1>6, <2>1
    <2>2. CASE u # t \/ loc # "reject"
      <3>1. At(u, "reject")' = At(u, "reject")
        BY <1>11, <2>2
      <3>2. Remaining(u) = 0
        BY <3>1 DEF GateIInv, NoEarlyRejection
      <3> QED
        BY <1>4, <3>2
    <2> QED
      BY <2>1, <2>2
  <1> QED
    BY <1>3, <1>4, <1>9, <1>10, <1>12, <1>13 DEF GateIInv

\* Nothing happens.
LEMMA StutterGate ==
  ASSUME GateIInv, UNCHANGED all_vars
  PROVE  GateIInv'
  <1>1. /\ UNCHANGED vars /\ pc' = pc /\ request' = request
        /\ passed' = passed /\ rejected' = rejected
    BY DEF all_vars, gate_vars
  <1>2. /\ IInv' /\ revoked' = {} /\ issued' = issued /\ granted' = granted
        /\ \A t \in Tokens : Remaining(t)' = Remaining(t)
    BY <1>1, StoreUnmoved DEF GateIInv
  <1>3. \A t, loc : At(t, loc)' = At(t, loc)
    BY <1>1 DEF At
  <1>4. GateTypes' /\ Unregistered'
    BY <1>1, <1>2 DEF GateIInv, GateTypes, Unregistered
  <1>5. PassBooks' /\ NoEarlyRejection'
    BY <1>1, <1>2, <1>3 DEF GateIInv, PassBooks, NoEarlyRejection
  <1> QED
    BY <1>2, <1>4, <1>5 DEF GateIInv

\* The invariant is inductive: one lemma for each action.
LEMMA StepGate == GateIInv /\ [GateNext]_all_vars => GateIInv'
  <1> SUFFICES ASSUME GateIInv, [GateNext]_all_vars PROVE GateIInv'
    OBVIOUS
  <1>1. CASE UNCHANGED all_vars
    BY <1>1, StutterGate
  <1>2. CASE GateNext
    <2> PICK c \in Clients :
          \/ \E t \in Tokens \cup {NoToken}, route \in Routes : Arrive(c, t, route)
          \/ CheckNothing(c) \/ CheckLlm(c) \/ CheckUi(c)
          \/ \E active \in BOOLEAN : Introspected(c, active)
          \/ ClientLeaves(c) \/ Pass(c) \/ Reject(c)
      BY <1>2 DEF GateNext
    <2>1. CASE \E t \in Tokens \cup {NoToken}, route \in Routes : Arrive(c, t, route)
      BY <2>1, ArriveGate DEF Keys
    <2>2. CASE CheckNothing(c) \/ CheckLlm(c) \/ CheckUi(c)
      BY <2>2, CheckNothingGate, CheckLlmGate, CheckUiGate
    <2>3. CASE \E active \in BOOLEAN : Introspected(c, active)
      BY <2>3, IntrospectedGate
    <2>4. CASE ClientLeaves(c) \/ Pass(c) \/ Reject(c)
      BY <2>4, LeavesGate, PassGate, RejectGate
    <2> QED
      BY <2>1, <2>2, <2>3, <2>4
  <1> QED
    BY <1>1, <1>2

\* What the counters, the store and the places of the clients keep to, always.
THEOREM SpecGateIInv == GateSpec => []GateIInv
  BY InitGate, StepGate, PTL DEF GateSpec

\* A registered token with n uses lets exactly the first n LLM requests
\* through the middleware, for any n, any tokens and any finite number of
\* clients, however the requests interleave and whatever the OAuth server says.
THEOREM LimitIsExact == GateSpec => []ExactlyTheLimit
  <1>1. GateIInv => ExactlyTheLimit
    <2> SUFFICES ASSUME GateIInv, NEW t \in Tokens, issued[t] \in Nat
                 PROVE  passed[t] + At(t, "pass") + Remaining(t) = issued[t]
      BY DEF ExactlyTheLimit
    <2>1. passed[t] + At(t, "pass") = granted[t]
      BY DEF GateIInv, PassBooks
    <2>2. granted[t] + Remaining(t) = issued[t]
      BY DEF GateIInv, IInv, BudgetExact
    <2> QED
      BY <2>1, <2>2
  <1> QED
    BY <1>1, SpecGateIInv, PTL

\* A token that was registered is never sent to the OAuth server, also once
\* its uses are gone: only tokens the builder never registered are.
THEOREM RegisteredNeverIntrospected == GateSpec => []DeniedNeverIntrospected
  <1>1. GateIInv => DeniedNeverIntrospected
    BY DEF GateIInv, Unregistered, DeniedNeverIntrospected
  <1> QED
    BY <1>1, SpecGateIInv, PTL

\* No interleaving of checks makes the middleware turn a registered token away
\* while it has uses left.
THEOREM RejectsOnlyUsedUp == GateSpec => []NoEarlyRejection
  <1>1. GateIInv => NoEarlyRejection
    BY DEF GateIInv
  <1> QED
    BY <1>1, SpecGateIInv, PTL
=============================================================================
