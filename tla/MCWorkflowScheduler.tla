------------------------- MODULE MCWorkflowScheduler ------------------------
(***************************************************************************)
(* Small workflows for WorkflowScheduler.                                  *)
(***************************************************************************)
EXTENDS WorkflowScheduler

CONSTANTS a, b, c, d

Then(x, y) == [from |-> x, to |-> y, conditional |-> FALSE]
When(x, y) == [from |-> x, to |-> y, conditional |-> TRUE]

\* Two branches, one of them conditional, that meet again.
Diamond == {Then(a, b), When(a, c), Then(b, d), Then(c, d)}

\* A conditional edge behind a node that may be skipped, and a long way round.
Chain == {Then(a, b), When(b, c), Then(c, d), Then(a, d)}

\* The return edge of a reviewer, which the loader allows.
Return == {Then(a, b), When(b, a), Then(c, d)}

\* A condition on a node that runs beside its target's other upstream.
Gate == {When(a, c), Then(b, c), When(a, d), When(b, d)}

SmallWorkflows == {Diamond, Chain, Return, Gate}
=============================================================================
