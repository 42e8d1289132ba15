----------------------------- MODULE MCTeamDag -----------------------------
(***************************************************************************)
(* Small teams for TeamDag.                                                *)
(***************************************************************************)
EXTENDS TeamDag

CONSTANTS dev, qa, sec, ops

FourMembers == <<dev, qa, sec, ops>>

To(a, b) == [from |-> a, to |-> b, denied |-> FALSE]
Denied(a, b) == [from |-> a, to |-> b, denied |-> TRUE]
Checks(a, b, n) == [from |-> a, to |-> b, budget |-> n]

Once(S) == [n \in Agents |-> IF n \in S THEN 1 ELSE 0]

\* A line with an approval and a reviewer whose verdict goes two layers back.
Line == [forward |-> <<To(dev, qa), To(qa, ops), Denied(dev, ops)>>,
         review |-> <<Checks(qa, dev, 2)>>, asked |-> {qa}, retries |-> Once({})]

\* Two reviewers of one member, side by side.
Pair == [forward |-> <<To(dev, qa), To(dev, sec), To(qa, ops)>>,
         review |-> <<Checks(qa, dev, 1), Checks(sec, dev, 1)>>, asked |-> {}, retries |-> Once({dev})]

\* A reviewer of two members, and a cycle nobody broke.
Knot == [forward |-> <<To(dev, qa), To(sec, ops), To(ops, sec)>>,
         review |-> <<Checks(qa, dev, 1), Checks(ops, qa, 1)>>, asked |-> {}, retries |-> Once({dev})]

\* A reviewer of a member that comes after it.
Early == [forward |-> <<To(dev, qa), To(qa, sec)>>,
          review |-> <<Checks(dev, sec, 1)>>, asked |-> {}, retries |-> Once({dev})]

SmallTeams == {Early, Line, Pair, Knot}
=============================================================================
