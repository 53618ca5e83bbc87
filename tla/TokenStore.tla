----------------------------- MODULE TokenStore -----------------------------
(***************************************************************************)
(* AuthState (src/src/auth.rs): the bearer tokens with their remaining     *)
(* uses and the deny-list.  One Mutex guards both, so each operation of    *)
(* the public API is one step, called by any thread in any order.          *)
(***************************************************************************)
EXTENDS Integers, FiniteSets

CONSTANTS Tokens,
          Unlimited, \* Option<u64>::None, a token with no limit
          Absent,    \* no entry in the map
          Uses       \* the max_uses tokens are issued with

ASSUME MarkersAssumption ==
  Unlimited \notin Nat /\ Absent \notin Nat /\ Unlimited # Absent
ASSUME UsesAssumption == Uses \subseteq Nat \cup {Unlimited}

VARIABLES tokens,    \* TokenStore.tokens
          exhausted, \* TokenStore.exhausted
          issued,    \* history: the max_uses of the latest add_token, or Absent
          granted,   \* history: Valid answers since then, for a token with a limit
          revoked    \* history: tokens revoked since their latest add_token

store == <<tokens, exhausted>>
history == <<issued, granted, revoked>>

vars == <<store, history>>

Limits == Nat \cup {Unlimited, Absent}

Init ==
  /\ tokens = [t \in Tokens |-> Absent]
  /\ exhausted = {}
  /\ issued = [t \in Tokens |-> Absent]
  /\ granted = [t \in Tokens |-> 0]
  /\ revoked = {}

\* The answer check_and_use gives, and validate too (TokenStatus).
Status(t) ==
  IF t \in exhausted \/ tokens[t] = 0 THEN "exhausted"
  ELSE IF tokens[t] = Absent THEN "unknown" ELSE "valid"

\* Mutant of add_token: a re-issued token stays on the deny-list.
AddStillDenied(t, uses) ==
  /\ tokens' = [tokens EXCEPT ![t] = uses]
  /\ UNCHANGED exhausted
  /\ issued' = [issued EXCEPT ![t] = uses]
  /\ granted' = [granted EXCEPT ![t] = 0]
  /\ revoked' = revoked \ {t}

add_token(t, uses) ==
  /\ tokens' = [tokens EXCEPT ![t] = uses]
  /\ exhausted' = exhausted \ {t}
  /\ issued' = [issued EXCEPT ![t] = uses]
  /\ granted' = [granted EXCEPT ![t] = 0]
  /\ revoked' = revoked \ {t}

\* Mutant of UseUp: the token is dropped but not denied.
DropOnly(t) ==
  /\ tokens' = [tokens EXCEPT ![t] = Absent]
  /\ UNCHANGED exhausted

\* The last use, or a token issued with none: from the map to the deny-list.
UseUp(t) ==
  /\ tokens' = [tokens EXCEPT ![t] = Absent]
  /\ exhausted' = exhausted \cup {t}

\* Counts the answer status for t, if its uses are limited.
Grant(t, status) ==
  /\ granted' = IF status = "valid" /\ issued[t] \in Nat
                THEN [granted EXCEPT ![t] = @ + 1] ELSE granted
  /\ UNCHANGED <<issued, revoked>>

\* Mutant of Decrement: a token issued with no use is decremented too.
DecrementPastZero(t) ==
  IF t \in exhausted \/ tokens[t] \notin Int THEN UNCHANGED store
  ELSE IF tokens[t] = 1 THEN UseUp(t)
  ELSE tokens' = [tokens EXCEPT ![t] = @ - 1] /\ UNCHANGED exhausted

\* What a check does to the map and the deny-list.
Decrement(t) ==
  IF t \in exhausted \/ tokens[t] \notin Nat THEN UNCHANGED store
  ELSE IF tokens[t] <= 1 THEN UseUp(t)
  ELSE tokens' = [tokens EXCEPT ![t] = @ - 1] /\ UNCHANGED exhausted

check_and_use(t) == Decrement(t) /\ Grant(t, Status(t))

revoke(t) ==
  /\ UseUp(t)
  /\ revoked' = revoked \cup {t}
  /\ UNCHANGED <<issued, granted>>

Next == \E t \in Tokens :
          \/ \E uses \in Uses : add_token(t, uses)
          \/ check_and_use(t)
          \/ revoke(t)

Spec == Init /\ [][Next]_vars

-----------------------------------------------------------------------------
TypeOK ==
  /\ tokens \in [Tokens -> Limits]
  /\ exhausted \subseteq Tokens
  /\ issued \in [Tokens -> Limits]
  /\ granted \in [Tokens -> Nat]
  /\ revoked \subseteq Tokens

Remaining(t) == IF t \in exhausted THEN 0 ELSE tokens[t]

\* A token issued with n uses is accepted exactly n times, whatever threads
\* check it: the uses granted and those remaining add up to n until it is
\* revoked or issued again (add_token, check_and_use).
BudgetExact ==
  \A t \in Tokens :
    issued[t] \in Nat /\ t \notin revoked => granted[t] + Remaining(t) = issued[t]

\* The store keeps the promise of TokenBudget: in particular a used-up or
\* revoked token is denied, never unknown, until it is issued again, so that
\* it cannot fall through to the OAuth server (check_and_use, revoke).
UsesLeft == [t \in Tokens |-> Remaining(t)]

Budget == INSTANCE TokenBudget WITH Unheard <- Absent, left <- UsesLeft

KeepsBudget == Budget!Spec
=============================================================================
