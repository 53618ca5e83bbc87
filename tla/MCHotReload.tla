---------------------------- MODULE MCHotReload ----------------------------
(* HotReload on two files of two contents each.                             *)
EXTENDS HotReload

CONSTANTS f1, f2

MCSources == <<f1, f2>>

\* The contents of a file are interchangeable, so it may begin with any of them.
AnyVersion == CHOOSE v \in Versions : TRUE
MCInit == Init /\ disk = [f \in Files |-> AnyVersion]
MCFairSpec == MCInit /\ [][Next]_vars /\ Fairness
=============================================================================
