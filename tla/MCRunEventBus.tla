---------------------------- MODULE MCRunEventBus ---------------------------
(***************************************************************************)
(* Frame sets for the small instances of RunEventBus.                      *)
(***************************************************************************)
EXTENDS RunEventBus

ViewSymmetry == Permutations(Views)

(* A text frame and a status line: what eviction tells apart. *)
PlainFrames == {[ev |-> "text"], [ev |-> "status_line"]}

(* The life of a process card, a plan and the patches of its rows. *)
CardFrames ==
    [ev : {"open", "start", "final"}, card : Cards]
      \cup {[ev |-> "plan", running |-> Rows]}
      \cup [ev : {"row"}, row : Rows, to : {"running", "done"}]
=============================================================================
