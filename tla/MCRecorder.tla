----------------------------- MODULE MCRecorder -----------------------------
(* Recorder on two keys: two clients can miss on one, or record both.       *)
EXTENDS Recorder, TLC

Symmetry == Permutations(Clients)
=============================================================================
