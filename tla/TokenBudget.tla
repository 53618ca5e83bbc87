---------------------------- MODULE TokenBudget ----------------------------
(***************************************************************************)
(* What the token store promises: a token is unheard of, or it may be used *)
(* a number of times (for ever, if unlimited), or it is denied.  A token   *)
(* that was ever issued is never unheard of again.                         *)
(***************************************************************************)
EXTENDS Naturals

CONSTANTS Tokens,
          Uses,     \* what a token may be issued with: numbers, Unlimited
          Unheard

VARIABLE left \* [Tokens -> Uses \cup {Unheard}] and the smaller numbers; 0 is denied

Issue(t, uses) == left' = [left EXCEPT ![t] = uses]
Deny(t) == left' = [left EXCEPT ![t] = 0]
Spend(t) == left[t] \in Nat \ {0} /\ left' = [left EXCEPT ![t] = left[t] - 1]

Init == left = [t \in Tokens |-> Unheard]
Next == \E t \in Tokens :
          \/ \E uses \in Uses : Issue(t, uses)
          \/ Deny(t)
          \/ Spend(t)
Spec == Init /\ [][Next]_left
=============================================================================
