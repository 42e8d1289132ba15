--------------------------- MODULE MCRuntimeService ---------------------------
(***************************************************************************)
(* A draft, which prompts before it is dispatched, and a gate that ends    *)
(* the run or sends it back to the draft.                                  *)
(***************************************************************************)
EXTENDS RuntimeService

CONSTANTS draft, gate

SmallRoutes == [n \in Nodes |-> IF n = gate THEN {draft, END} ELSE {gate}]
=============================================================================
