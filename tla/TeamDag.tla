------------------------------- MODULE TeamDag -------------------------------
(***************************************************************************)
(* One run of a group chat's team (lib/chat-dag/run-team-dag.ts with its   *)
(* helpers dag-layers, map-limit, policy-gate, node-policy and             *)
(* rework-detect, and the hop rows of storage/agent-hops.ts).              *)
(*                                                                         *)
(* The members run layer by layer; in a layer at most Limit of them at a   *)
(* time, each in a JOB.  A job runs its own member (runNodeOnce: read the  *)
(* upstreams, look the agent up, ask a human, call the model with retries) *)
(* and, when that member is a reviewer whose answer is a rejection, sends  *)
(* the reviewed member back to work and reviews again, within a budget.    *)
(* Jobs share outputs, outcomes, budgets and hops, and interleave at every *)
(* await.  The round may be cancelled at any moment.                       *)
(***************************************************************************)
EXTENDS Naturals, Sequences, FiniteSets

CONSTANTS
    Members,    \* the team's members, a sequence without repetition
    Teams,      \* the teams to run: edges, approvals and retry budgets
    Limit,      \* maxConcurrency
    MaxFaults,  \* bound: agents not found, attempts without text, failed inserts
    None

Agents == {Members[i] : i \in DOMAIN Members}
Outcomes == {"ok", "error", "empty", "timeout", "aborted", "blocked"}
Settled == {"done", "failed", "timeout", "empty", "denied", "aborted"}

Edge == [from : Agents, to : Agents, denied : BOOLEAN]
Review == [from : Agents, to : Agents, budget : Nat]

ASSUME TeamAssumption ==
    /\ Members \in Seq(Agents)
    /\ Limit \in Nat \ {0} /\ MaxFaults \in Nat
    /\ None \notin Outcomes \cup {"pass", "reject"}
    /\ \A t \in Teams : /\ t.forward \in Seq(Edge)
                        /\ t.review \in Seq(Review)
                        /\ t.asked \subseteq Agents
                        /\ t.retries \in [Agents -> Nat]

VARIABLES
    team,       \* forward and conditional edges, who needs approval, retry budgets
    layers,     \* computeDagLayers
    layer,      \* the layer that runs; 0 before the first
    taken,      \* members of it that a worker has taken
    job,        \* the job of each member
    outputs,    \* the text each member last produced: a verdict or None
    outcome,    \* nodeOutcome
    perAgent,   \* what the result will say of each member
    used,       \* reworkUsed
    hop,        \* the row of each forward edge
    backHop,    \* the row of the rework a job has sent out
    cancelled,  \* signal.aborted
    aborted,    \* the flag of the same name
    phase,      \* "running", "returned" or "threw"
    faults,     \* faults so far
    rerun,      \* history: members that were run again
    reworks     \* history: how often each member was sent back

vars == <<team, layers, layer, taken, job, outputs, outcome, perAgent, used, hop,
          backHop, cancelled, aborted, phase, faults, rerun, reworks>>
setup == <<team, layers>>
history == <<rerun, reworks>>

----------------------------------------------------------------------------

Edges == DOMAIN team.forward
Into(n) == {e \in Edges : team.forward[e].to = n}
OutOf(n) == {e \in Edges : team.forward[e].from = n}
Reviews(n) == {r \in DOMAIN team.review : team.review[r].from = n}
First(S) == CHOOSE x \in S : \A y \in S : x <= y

(***************************************************************************)
(* computeDagLayers: Kahn's rounds over the forward edges; what a cycle    *)
(* keeps from being placed becomes the last layer.                         *)
(***************************************************************************)
Upstreams(forward, n) ==
    {forward[e].from : e \in {d \in DOMAIN forward : forward[d].to = n}}

Placed(forward) ==
    LET placed[k \in Nat] ==
          IF k = 0 THEN {}
          ELSE LET before == placed[k - 1]
               IN  {n \in Agents : Upstreams(forward, n) \subseteq before}
    IN  placed

\* Members without an upstream that is not placed, round by round.
LayersOf(forward) ==
    LET N == Len(Members)
        placed == Placed(forward)
        Round(k) == {n \in Agents : n \in placed[k] /\ \A j \in 0..(k - 1) : n \notin placed[j]}
        rest == {n \in Agents : \A j \in 0..N : n \notin placed[j]}
        depth == Cardinality({k \in 1..N : Round(k) # {}})
    IN  [k \in 1..(depth + (IF rest = {} THEN 0 ELSE 1)) |->
            IF k <= depth THEN Round(k) ELSE rest]

Idle == [pc |-> "waiting", node |-> None, phase |-> "own", todo |-> {},
         left |-> {}, tries |-> 0, seen |-> 0, res |-> None]

Init ==
    /\ team \in Teams
    /\ layers = LayersOf(team.forward)
    /\ layer = 0 /\ taken = {}
    /\ job = [n \in Agents |-> Idle]
    /\ outputs = [n \in Agents |-> None]
    /\ outcome = [n \in Agents |-> None]
    /\ perAgent = [n \in Agents |-> None]
    /\ used = [n \in Agents |-> 0]
    /\ hop = [e \in Edges |-> "none"]
    /\ backHop = [n \in Agents |-> "none"]
    /\ cancelled = FALSE /\ aborted = FALSE
    /\ phase = "running"
    /\ faults = 0
    /\ rerun = {}
    /\ reworks = [n \in Agents |-> 0]

----------------------------------------------------------------------------
(* Layers and workers.                                                     *)

Layer == layers[layer]
Stopped == cancelled \/ aborted
Active(m) == job[m].pc \notin {"waiting", "done"}
Threw(m) == job[m].res = "threw"
Fault == faults < MaxFaults /\ faults' = faults + 1
MoveTo(m, pc) == job' = [job EXCEPT ![m].pc = pc]

\* The job enters runNodeOnce.
Run(m, n, why) ==
    /\ job' = [job EXCEPT ![m] = [@ EXCEPT !.pc = "collect", !.node = n,
                                           !.phase = why, !.todo = Into(n)]]
    /\ rerun' = IF why = "own" THEN rerun ELSE rerun \cup {n}

\* The next of the layer, whose members keep their order in the team.
IsNext(m) ==
    /\ m \in Layer \ taken
    /\ \E i \in DOMAIN Members :
          Members[i] = m /\ \A j \in 1..(i - 1) : Members[j] \notin Layer \ taken

(***************************************************************************)
(* A worker of mapLimit takes the next member of the layer, and skips it   *)
(* when the round is over.                                                 *)
(***************************************************************************)
Take(m) ==
    /\ phase = "running" /\ layer > 0 /\ IsNext(m)
    /\ \A w \in Agents : ~Threw(w)
    /\ Cardinality({w \in Agents : Active(w)}) < Limit
    /\ taken' = taken \cup {m}
    /\ \/ /\ Stopped
          /\ perAgent' = [perAgent EXCEPT ![m] = "aborted"]
          /\ MoveTo(m, "done")
          /\ UNCHANGED rerun
       \/ /\ ~Stopped
          /\ Run(m, m, "own")
          /\ UNCHANGED perAgent
    /\ UNCHANGED <<setup, layer, outputs, outcome, used, hop, backHop,
                   cancelled, aborted, phase, faults, reworks>>

\* How the closing sweep settles a hop whose receiver did not succeed.
SweepStatus(e) ==
    LET from == outcome[team.forward[e].from]
    IN  CASE from = "blocked" -> "denied"
          [] from = "ok" -> "aborted"
          [] from \in {"timeout", "empty"} -> from
          [] OTHER -> "failed"

\* settleHop: a row that is settled is not settled again.
Settle(h, status) == IF h \in Settled THEN h ELSE status
Open(h) == IF h = "none" THEN "pending" ELSE h
Start(h) == IF Open(h) = "pending" THEN "running" ELSE h

\* Mutant: the sweep settles only the hops somebody opened.
CloseOpened(stopped) ==
    /\ phase' = "returned"
    /\ aborted' = stopped
    /\ perAgent' = [n \in Agents |-> IF stopped /\ perAgent[n] = None
                                     THEN "aborted" ELSE perAgent[n]]
    /\ hop' = [e \in Edges |-> IF outcome[team.forward[e].to] = "ok" \/ hop[e] = "none"
                               THEN hop[e] ELSE Settle(hop[e], SweepStatus(e))]
    /\ UNCHANGED faults

\* What the closing sweep makes of a planned hand-over.
Sweep(e) == IF outcome[team.forward[e].to] = "ok"
            THEN Open(hop[e]) ELSE Settle(hop[e], SweepStatus(e))

(***************************************************************************)
(* The end of the run: members never reached, then every planned hand-over *)
(* in the order of the edges.  An open that throws in the sweep ends the   *)
(* run by exception; the hand-overs from that one on stay as they were.    *)
(***************************************************************************)
Close(stopped) ==
    /\ aborted' = stopped
    /\ perAgent' = [n \in Agents |-> IF stopped /\ perAgent[n] = None
                                     THEN "aborted" ELSE perAgent[n]]
    /\ \/ /\ phase' = "returned"
          /\ hop' = [e \in Edges |-> Sweep(e)]
          /\ UNCHANGED faults
       \/ /\ Fault
          /\ phase' = "threw"
          /\ \E e \in Edges :
                /\ hop[e] = "none"
                /\ hop' = [d \in Edges |-> IF d < e THEN Sweep(d) ELSE hop[d]]

\* mapLimit has returned: the next layer, or the end.
LayerEnds ==
    /\ phase = "running"
    /\ layer > 0 => taken = Layer
    /\ \A m \in Agents : ~Active(m) /\ ~Threw(m)
    /\ \/ /\ layer = Len(layers)
          /\ Close(aborted)
          /\ UNCHANGED <<layer, taken>>
       \/ /\ layer < Len(layers) /\ Stopped
          /\ Close(TRUE)
          /\ UNCHANGED <<layer, taken>>
       \/ /\ layer < Len(layers) /\ ~Stopped
          /\ layer' = layer + 1 /\ taken' = {}
          /\ UNCHANGED <<aborted, perAgent, phase, hop, faults>>
    /\ UNCHANGED <<setup, job, outputs, outcome, used, backHop, cancelled, history>>

\* A stop or a newer message aborts the controller of the round.
Cancel ==
    /\ phase = "running" /\ ~cancelled
    /\ cancelled' = TRUE
    /\ UNCHANGED <<setup, layer, taken, job, outputs, outcome, perAgent, used, hop,
                   backHop, aborted, phase, faults, history>>

----------------------------------------------------------------------------
(* runNodeOnce, in the job of member m.                                    *)

\* What a hand-over from a member without text is settled with.
FailStatus(o) ==
    CASE o = "blocked" -> "denied"
      [] o \in {"aborted", "timeout", "empty"} -> o
      [] OTHER -> "failed"

\* Mutant: an upstream that has ended counts as one that has handed over.
CollectEnded(m) ==
    LET e == First(job[m].todo)
    IN  /\ job[m].pc = "collect" /\ job[m].todo # {}
        /\ hop' = [hop EXCEPT ![e] =
              IF team.forward[e].denied THEN Settle(Open(@), "denied")
              ELSE IF outcome[team.forward[e].from] # None THEN Settle(Open(@), "done")
              ELSE Open(@)]
        /\ job' = [job EXCEPT ![m].todo = @ \ {e}]
        /\ UNCHANGED <<setup, layer, taken, outputs, outcome, perAgent, used, backHop,
                       cancelled, aborted, phase, faults, history>>

(***************************************************************************)
(* One upstream is read: denied by the policy, its text handed over, or    *)
(* its failure reported.  An upstream with neither leaves the hop open.    *)
(***************************************************************************)
Collect(m) ==
    LET e == First(job[m].todo)
        from == team.forward[e].from
        opened == Open(hop[e])
    IN  /\ job[m].pc = "collect" /\ job[m].todo # {}
        /\ hop' = [hop EXCEPT ![e] =
              IF team.forward[e].denied THEN Settle(opened, "denied")
              ELSE IF outputs[from] # None THEN Settle(opened, "done")
              ELSE IF outcome[from] \notin {None, "ok"}
                   THEN Settle(opened, FailStatus(outcome[from]))
              ELSE opened]
        /\ job' = [job EXCEPT ![m].todo = @ \ {e}]
        /\ UNCHANGED <<setup, layer, taken, outputs, outcome, perAgent, used, backHop,
                       cancelled, aborted, phase, faults, history>>

\* The record of how the run of job m's node went; runNodeOnce returns.
Ends(m, o) ==
    /\ perAgent' = [perAgent EXCEPT ![job[m].node] = o]
    /\ outcome' = [outcome EXCEPT ![job[m].node] = o]
    /\ job' = [job EXCEPT ![m] = [@ EXCEPT !.pc = "returned", !.res = o]]

\* runNodeWithPolicy starts its first attempt.
Call(m) ==
    job' = [job EXCEPT ![m] = [@ EXCEPT !.pc = "calling",
                                        !.tries = team.retries[job[m].node]]]

\* Mutant: the policy does not look at the signal before it calls.
BeginRegardless(m) ==
    /\ hop' = [e \in Edges |-> IF e \in OutOf(job[m].node) THEN Start(hop[e]) ELSE hop[e]]
    /\ Call(m)
    /\ UNCHANGED <<perAgent, outcome, aborted>>

(***************************************************************************)
(* The node's outgoing hops are opened and started, and the policy calls   *)
(* the agent unless the round is cancelled by then.                        *)
(***************************************************************************)
Begin(m) ==
    /\ hop' = [e \in Edges |-> IF e \in OutOf(job[m].node) THEN Start(hop[e]) ELSE hop[e]]
    /\ \/ /\ cancelled
          /\ Ends(m, "aborted")
          /\ aborted' = TRUE
       \/ /\ ~cancelled
          /\ Call(m)
          /\ UNCHANGED <<perAgent, outcome, aborted>>

\* getAgent returns; a node with an approve edge asks before it runs.
Lookup(m) ==
    /\ job[m].pc = "collect" /\ job[m].todo = {}
    /\ \/ /\ Fault
          /\ Ends(m, "error")
          /\ UNCHANGED <<hop, aborted>>
       \/ /\ job[m].node \in team.asked
          /\ MoveTo(m, "asking")
          /\ UNCHANGED <<perAgent, outcome, hop, aborted, faults>>
       \/ /\ job[m].node \notin team.asked
          /\ Begin(m)
          /\ UNCHANGED faults
    /\ UNCHANGED <<setup, layer, taken, outputs, used, backHop, cancelled, phase, history>>

\* The human, the timer or the registry settles the request.
Decided(m) ==
    /\ job[m].pc = "asking"
    /\ \/ Begin(m)
       \/ /\ Ends(m, "blocked")
          /\ UNCHANGED <<hop, aborted>>
    /\ UNCHANGED <<setup, layer, taken, outputs, used, backHop, cancelled, phase, faults,
                   history>>

(***************************************************************************)
(* An attempt of runNodeWithPolicy ends.  A cancelled round wins over what *)
(* the attempt brought; an error or a timeout is tried again.              *)
(***************************************************************************)
AttemptEnds(m) ==
    /\ job[m].pc = "calling"
    /\ \/ /\ cancelled
          /\ Ends(m, "aborted")
          /\ aborted' = TRUE
          /\ UNCHANGED <<outputs, faults>>
       \/ /\ ~cancelled
          /\ \E verdict \in {"pass", "reject"} :
                outputs' = [outputs EXCEPT ![job[m].node] = verdict]
          /\ Ends(m, "ok")
          /\ UNCHANGED <<aborted, faults>>
       \/ /\ ~cancelled /\ Fault
          /\ Ends(m, "empty")
          /\ UNCHANGED <<outputs, aborted>>
       \/ /\ ~cancelled /\ Fault
          /\ IF job[m].tries > 0
             THEN /\ job' = [job EXCEPT ![m].tries = @ - 1]
                  /\ UNCHANGED <<perAgent, outcome>>
             ELSE \E o \in {"error", "timeout"} : Ends(m, o)
          /\ UNCHANGED <<outputs, aborted>>
    /\ UNCHANGED <<setup, layer, taken, used, hop, backHop, cancelled, phase, history>>

----------------------------------------------------------------------------
(* The rework loop of a reviewer's job.                                    *)

Target(m) == team.review[First(job[m].left)]

\* What the verdict of the target's rework settles its hop with.
BackStatus(o) ==
    IF o = "ok" THEN "done" ELSE IF o \in {"timeout", "aborted", "empty"} THEN o
    ELSE "failed"

\* Own run over: a reviewer that succeeded looks at those it reviews.
OwnReturned(m) ==
    /\ job[m].pc = "returned" /\ job[m].phase = "own"
    /\ IF job[m].res = "ok" /\ ~Stopped
       THEN job' = [job EXCEPT ![m] = [@ EXCEPT !.pc = "deciding", !.left = Reviews(m)]]
       ELSE MoveTo(m, "done")
    /\ UNCHANGED <<setup, layer, taken, outputs, outcome, perAgent, used, hop, backHop,
                   cancelled, aborted, phase, faults, history>>

\* Mutant: the loop turns once more than the budget says.
DecideLate(m) ==
    LET again == used[Target(m).to] <= Target(m).budget /\ outputs[m] = "reject"
    IN  /\ job[m].pc = "deciding"
        /\ job' = [job EXCEPT ![m] =
              IF Stopped \/ @.left = {} THEN [@ EXCEPT !.pc = "done"]
              ELSE IF again THEN [@ EXCEPT !.pc = "target", !.seen = used[Target(m).to]]
              ELSE [@ EXCEPT !.left = @ \ {First(@)}]]
        /\ UNCHANGED <<setup, layer, taken, outputs, outcome, perAgent, used, hop,
                       backHop, cancelled, aborted, phase, faults, history>>

\* The head of the while loop: send back once more, or go to the next target.
Decide(m) ==
    /\ job[m].pc = "deciding"
    /\ \/ /\ Stopped \/ job[m].left = {}
          /\ MoveTo(m, "done")
       \/ /\ ~Stopped /\ job[m].left # {}
          /\ used[Target(m).to] < Target(m).budget /\ outputs[m] = "reject"
          /\ job' = [job EXCEPT ![m] = [@ EXCEPT !.pc = "target",
                                                 !.seen = used[Target(m).to]]]
       \/ /\ ~Stopped /\ job[m].left # {}
          /\ ~(used[Target(m).to] < Target(m).budget /\ outputs[m] = "reject")
          /\ job' = [job EXCEPT ![m].left = @ \ {First(@)}]
    /\ UNCHANGED <<setup, layer, taken, outputs, outcome, perAgent, used, hop, backHop,
                   cancelled, aborted, phase, faults, history>>

\* Mutant: the round of rework is not counted.
SendBackFree(m) ==
    /\ job[m].pc = "target"
    /\ backHop' = [backHop EXCEPT ![m] = "running"]
    /\ job' = [job EXCEPT ![m] = [@ EXCEPT !.pc = "collect", !.node = Target(m).to,
                                           !.phase = "rework",
                                           !.todo = Into(Target(m).to)]]
    /\ UNCHANGED <<setup, layer, taken, outputs, outcome, perAgent, used, hop, cancelled,
                   aborted, phase, faults, history>>

\* getAgent of the target is back: the budget is written from what was read
\* before it, and the target runs with the review.
SendBack(m) ==
    LET n == Target(m).to
    IN  /\ job[m].pc = "target"
        /\ backHop' = [backHop EXCEPT ![m] = "running"]
        /\ used' = [used EXCEPT ![n] = job[m].seen + 1]
        /\ reworks' = [reworks EXCEPT ![n] = @ + 1]
        /\ Run(m, n, "rework")
        /\ UNCHANGED <<setup, layer, taken, outputs, outcome, perAgent, hop, cancelled,
                       aborted, phase, faults>>

\* The target is back: review again unless it failed or the round is over.
ReworkReturned(m) ==
    /\ job[m].pc = "returned" /\ job[m].phase = "rework"
    /\ backHop' = [backHop EXCEPT ![m] = BackStatus(job[m].res)]
    /\ IF job[m].res = "ok" /\ ~Stopped
       THEN Run(m, m, "review")
       ELSE /\ job' = [job EXCEPT ![m] =
                          [@ EXCEPT !.pc = "deciding",
                                    !.left = job[m].left \ {First(job[m].left)}]]
            /\ UNCHANGED rerun
    /\ UNCHANGED <<setup, layer, taken, outputs, outcome, perAgent, used, hop,
                   cancelled, aborted, phase, faults, reworks>>

\* The second review is in: the loop turns, unless the review itself failed.
ReviewReturned(m) ==
    /\ job[m].pc = "returned" /\ job[m].phase = "review"
    /\ job' = [job EXCEPT ![m] =
                  [@ EXCEPT !.pc = "deciding",
                            !.left = IF job[m].res = "ok" THEN job[m].left
                                     ELSE job[m].left \ {First(job[m].left)}]]
    /\ UNCHANGED <<setup, layer, taken, outputs, outcome, perAgent, used, hop, backHop,
                   cancelled, aborted, phase, faults, history>>

(***************************************************************************)
(* openHop throws: the job rejects, mapLimit with it, and the run returns  *)
(* by exception, without the closing sweep.  The other jobs go on.         *)
(***************************************************************************)
OpenThrows(m) ==
    /\ Fault
    /\ \/ /\ job[m].pc = "collect" /\ job[m].todo # {}
          /\ hop[First(job[m].todo)] = "none"
          /\ UNCHANGED hop
       \/ /\ \/ job[m].pc = "collect" /\ job[m].todo = {} /\ job[m].node \notin team.asked
             \/ job[m].pc = "asking"
          /\ \E e \in OutOf(job[m].node) :
                /\ hop[e] = "none"
                /\ hop' = [d \in Edges |-> IF d \in OutOf(job[m].node) /\ d < e
                              THEN Start(hop[d]) ELSE hop[d]]
       \/ /\ job[m].pc = "target"
          /\ UNCHANGED hop
    /\ job' = [job EXCEPT ![m] = [@ EXCEPT !.pc = "done", !.res = "threw"]]
    /\ phase' = "threw"
    /\ UNCHANGED <<setup, layer, taken, outputs, outcome, perAgent, used, backHop,
                   cancelled, aborted, history>>

\* What a job does without an answer from outside, and all it does.
Proceeds(m) ==
    \/ Take(m) \/ Collect(m) \/ Lookup(m) \/ OwnReturned(m) \/ Decide(m) \/ SendBack(m)
    \/ ReworkReturned(m) \/ ReviewReturned(m)

Step(m) == Proceeds(m) \/ Decided(m) \/ AttemptEnds(m)

Next ==
    \/ \E m \in Agents : Step(m)
    \/ \E m \in Agents : OpenThrows(m)
    \/ LayerEnds
    \/ Cancel

(***************************************************************************)
(* The event loop runs what is due.  Nothing is assumed of the two answers *)
(* a job waits for: a request loses its resolver, or its entry to the      *)
(* timer of another, when its node is asked again (groups-chat.ts:286-288),*)
(* and a call that does not honour its signal never returns, as the policy *)
(* awaits it without racing it with its timer (node-policy.ts:54-57).      *)
(***************************************************************************)
Fairness == WF_vars(LayerEnds) /\ \A m \in Agents : WF_vars(Proceeds(m))

Spec == Init /\ [][Next]_vars /\ Fairness

----------------------------------------------------------------------------
(* Properties.                                                             *)

JobType ==
    [pc : {"waiting", "collect", "asking", "calling", "returned", "deciding", "target",
           "done"},
     node : Agents \cup {None}, phase : {"own", "rework", "review"},
     todo : SUBSET Edges, left : SUBSET (DOMAIN team.review),
     tries : Nat, seen : Nat, res : Outcomes \cup {None, "threw"}]

\* Where everything lives (the locals of runTeamDagFanout).
TypeOK ==
    /\ team \in Teams /\ layers = LayersOf(team.forward)
    /\ layer \in 0..Len(layers) /\ taken \subseteq Agents
    /\ job \in [Agents -> JobType]
    /\ outputs \in [Agents -> {None, "pass", "reject"}]
    /\ outcome \in [Agents -> Outcomes \cup {None}]
    /\ perAgent \in [Agents -> Outcomes \cup {None}]
    /\ used \in [Agents -> Nat]
    /\ hop \in [Edges -> {"none", "pending", "running"} \cup Settled]
    /\ backHop \in [Agents -> {"none", "running"} \cup Settled]
    /\ cancelled \in BOOLEAN /\ aborted \in BOOLEAN
    /\ phase \in {"running", "returned", "threw"}
    /\ faults \in 0..MaxFaults
    /\ rerun \subseteq Agents /\ reworks \in [Agents -> Nat]

ReviewersOf(n) == {team.review[r].from : r \in {q \in DOMAIN team.review : team.review[q].to = n}}

\* Two jobs of one layer may both want to run n.
Contended(n) ==
    \E k \in DOMAIN layers : \E a, b \in layers[k] \cap ({n} \cup ReviewersOf(n)) : a # b

\* a is in an earlier layer than b.
Earlier(a, b) ==
    \E j \in DOMAIN layers : a \in layers[j] /\ \A k \in DOMAIN layers : b \in layers[k] => j < k

BudgetOf(n) == {team.review[r].budget : r \in {q \in DOMAIN team.review : team.review[q].to = n}}

(***************************************************************************)
(* A member is sent back at most as often as the largest of its reviewers' *)
(* budgets allows, and is not run by two jobs at a time, unless two of the *)
(* jobs that may run it share a layer: the budget is read before an await  *)
(* and written after it (run-team-dag.ts:352-361).                         *)
(***************************************************************************)
ReworkBounded ==
    \A n \in Agents : ~Contended(n) =>
        /\ reworks[n] = 0 \/ \E b \in BudgetOf(n) : reworks[n] <= b
        /\ \A v, w \in Agents :
              /\ v # w /\ job[v].node = n /\ job[w].node = n
              /\ job[v].pc \in {"collect", "asking", "calling"}
              => job[w].pc \notin {"collect", "asking", "calling"}

(***************************************************************************)
(* When the run returns, every planned hand-over has a final state (the    *)
(* comment at run-team-dag.ts:403): every forward edge whose sender is in  *)
(* an earlier layer than its receiver and than the receiver's reviewers,     *)
(* one of which might else have it run, and succeed, before the sender.    *)
(***************************************************************************)
HandoversSettled ==
    phase = "returned" =>
        \A e \in Edges :
            LET from == team.forward[e].from
                to == team.forward[e].to
            IN  /\ Earlier(from, to)
                /\ \A n \in ReviewersOf(to) : Earlier(from, n)
                => hop[e] \in Settled

(***************************************************************************)
(* A hand-over is recorded as done only if the sender's last run succeeded *)
(* or the sender was run again: a rework that fails leaves the text it was *)
(* to replace, and later layers are given it (run-team-dag.ts:191-203).    *)
(***************************************************************************)
DoneMeansOk ==
    [][\A e \in Edges :
          LET from == team.forward[e].from
          IN  hop'[e] = "done" /\ hop[e] # "done"
              => outcome[from] = "ok" \/ from \in rerun]_vars

\* Once the round is cancelled no agent is called any more, neither for a new
\* node nor for another attempt (run-team-dag.ts:333, node-policy.ts:33-43).
NoCallAfterCancel ==
    [][cancelled => \A m \in Agents :
          job'[m].pc = "calling" => job'[m] = job[m]]_vars

\* The job waits for a decision or for an agent's answer.
Waits(m) == job[m].pc \in {"asking", "calling"}

(***************************************************************************)
(* Every run ends, and with it, or soon after it threw, all of its jobs,   *)
(* unless an answer never comes: then nothing is left but the jobs that    *)
(* wait for theirs.                                                        *)
(***************************************************************************)
RunEnds == <>[](/\ \A m \in Agents : Active(m) => Waits(m)
                /\ phase # "running" \/ \E m \in Agents : Active(m))
=============================================================================
