----------------------------- MODULE MCToolTurn ------------------------------
(* ToolTurn for TLC: turns, sessions and request ids are interchangeable.   *)
EXTENDS ToolTurn, TLC

Symmetry == Permutations(Turns) \cup Permutations(Sessions) \cup Permutations(Requests)
=============================================================================
