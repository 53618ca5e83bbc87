----------------------------- MODULE MCAuthGate -----------------------------
(* AuthGate on two tokens registered with no use, one, two, no limit or not *)
(* at all, and three clients that send four requests between them.          *)
EXTENDS AuthGate, TLC
MCUses == 0..2 \cup {Unlimited}
Symmetry == Permutations(Clients) \cup Permutations(Tokens)
=============================================================================
