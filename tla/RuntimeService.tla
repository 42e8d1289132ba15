---------------------------- MODULE RuntimeService ----------------------------
(***************************************************************************)
(* Runs of the Python runtime (runtime/service.py): the walk through a     *)
(* workflow, a checkpoint after every step, approval gates, resumption     *)
(* from a checkpoint under the lock of the run that is resumed, rejection  *)
(* with a retarget checkpoint, and a restart of the process.               *)
(*                                                                         *)
(* A run walks one node at a time.  At an approval gate it waits for an    *)
(* answer or a timer; a timeout saves a checkpoint at the gate and leaves  *)
(* the run paused.  A node whose policy prompts waits likewise before it   *)
(* is dispatched (permissions.py), but only an approval lets it run, and   *)
(* anything else fails the run.  A gate waits under the id of its run; a   *)
(* prompt under the id in the shared state, which a resumed run inherits:  *)
(* the prompts of one node in runs resumed from one another share their    *)
(* event and their decision.                                               *)
(*                                                                         *)
(* A request to resume or reject queues for the lock of its run; resume    *)
(* holds it until the new run it starts has ended.  Only when a run has    *)
(* ended is its request registered: until then reject and resume do not    *)
(* know it.                                                                *)
(*                                                                         *)
(* Conditions on edges, whether a node is activated, what a step computes  *)
(* and whether it raises are choices.  Parallel blocks, loops, gaps and    *)
(* the policy matrix's contents are left out, and so is the skipping of    *)
(* cached nodes, which needs invalidated_nodes in the shared state: a      *)
(* retarget writes it beside it.                                           *)
(***************************************************************************)
EXTENDS Naturals, Sequences, FiniteSets

CONSTANTS
    Nodes,         \* nodes of the workflow
    Entry,         \* its entrypoint
    Gates,         \* nodes of type approval_gate
    Prompts,       \* nodes whose dispatch needs a permission that prompts
    Routes,        \* node -> where its edges may lead, END for nowhere
    END,
    StepsPerNode,  \* max_steps per node: 3 in the code
    MaxFresh,      \* bound: runs started anew
    MaxRuns,       \* bound: runs, with those that resumptions start
    MaxPosts,      \* bound: requests to resume or reject
    MaxCrashes     \* bound: restarts of the process

ASSUME RuntimeAssumption ==
    /\ IsFiniteSet(Nodes) /\ Entry \in Nodes /\ Gates \subseteq Nodes /\ END \notin Nodes
    /\ Prompts \subseteq Nodes \ Gates
    /\ Routes \in [Nodes -> SUBSET (Nodes \cup {END}) \ {{}}]
    /\ {StepsPerNode, MaxFresh, MaxRuns, MaxPosts, MaxCrashes} \subseteq Nat

VARIABLES
    runs,     \* the runs in the order they started, with their checkpoints
    known,    \* _requests_by_run_id: runs registered in memory
    stored,   \* _request_context_store: runs registered on disk
    posts,    \* requests to resume or reject, in the order they came
    crashes

vars == <<runs, known, stored, posts, crashes>>

Runs == DOMAIN runs
Posts == DOMAIN posts
MaxSteps == StepsPerNode * Cardinality(Nodes)

\* Resumptions still to be served, each of which may start a run.
Due == Cardinality({q \in Posts : posts[q].op = "resume" /\ posts[q].phase = "waiting"})

Init ==
    /\ runs = <<>>
    /\ known = {} /\ stored = {}
    /\ posts = <<>>
    /\ crashes = 0

----------------------------------------------------------------------------
(* The walk.                                                               *)

(***************************************************************************)
(* What _execute starts with.  A resumed run takes over what its           *)
(* checkpoint's shared state holds: the visited nodes, the paused flag     *)
(* that a timeout left there, and the run_id of the first of its line.     *)
(***************************************************************************)
Begun(node, visited, paused, parent, owner) ==
    [phase |-> "walking", at |-> node, steps |-> 0, visited |-> visited,
     paused |-> paused, parent |-> parent, owner |-> owner, heard |-> FALSE,
     answer |-> "none", fired |-> FALSE, outcome |-> "none", acked |-> "none",
     passed |-> {}, checkpoints |-> <<>>, result |-> "none"]

\* run: a new run at the workflow's entrypoint.
Start ==
    /\ Cardinality({r \in Runs : runs[r].parent = 0}) < MaxFresh
    /\ Len(runs) + Due < MaxRuns
    /\ runs' = Append(runs, Begun(Entry, <<>>, FALSE, 0, Len(runs) + 1))
    /\ UNCHANGED <<known, stored, posts, crashes>>

Checkpoint(visited, next, paused) ==
    [visited |-> visited, next |-> next, paused |-> paused]

\* The step at the current node has succeeded: a checkpoint that says where
\* the run goes next, and the run goes there.
Advanced(r, next) ==
    LET walked == Append(runs[r].visited, runs[r].at)
    IN  [runs[r] EXCEPT
            !.phase = "walking", !.at = next, !.steps = @ + 1, !.visited = walked,
            !.answer = "none",
            !.checkpoints = Append(@, Checkpoint(walked, next, runs[r].paused))]

\* The executor of a node that is no gate is called: at once, or once a prompt
\* has been approved.
Dispatched(r) ==
    \/ runs[r].phase = "allowed"
    \/ /\ runs[r].phase = "walking" /\ runs[r].at \in Nodes \ (Gates \cup Prompts)
       /\ runs[r].steps < MaxSteps

\* A node is executed, or its executor raises.
Step(r) ==
    /\ Dispatched(r)
    /\ \E next \in Routes[runs[r].at] : runs' = [runs EXCEPT ![r] = Advanced(r, next)]
    /\ UNCHANGED <<known, stored, posts, crashes>>

(***************************************************************************)
(* A node whose activation is suppressed is not executed, a gate or a      *)
(* prompt not opened: the run goes on as if its step had succeeded.        *)
(***************************************************************************)
Skip(r) ==
    /\ runs[r].phase = "walking" /\ runs[r].at \in Nodes /\ runs[r].steps < MaxSteps
    /\ \E next \in Routes[runs[r].at] :
          runs' = [runs EXCEPT ![r] = [Advanced(r, next) EXCEPT !.passed = @ \cup {runs[r].at}]]
    /\ UNCHANGED <<known, stored, posts, crashes>>

\* The next post that queues for a run's lock, or holds it.
Queued(r) == {q \in Posts : posts[q].run = r /\ posts[q].phase \in {"waiting", "holding"}}
First(q) == \A p \in Queued(posts[q].run) : q <= p

Answered(q, answer) ==
    [posts EXCEPT ![q].phase = "answered", ![q].answer = answer]

\* Mutant: an exception keeps the lock.
ReportedDone(r, answer) ==
    [q \in Posts |-> IF posts[q].phase = "holding" /\ posts[q].child = r /\ answer = "done"
                     THEN [posts[q] EXCEPT !.phase = "answered", !.answer = answer]
                     ELSE posts[q]]

\* The post whose resumption the run is, if any, is answered with its run.
Reported(r, answer) ==
    [q \in Posts |-> IF posts[q].phase = "holding" /\ posts[q].child = r
                     THEN [posts[q] EXCEPT !.phase = "answered", !.answer = answer]
                     ELSE posts[q]]

\* The exception leaves the run unregistered, and frees the parent's lock.
Failed(r, outcome) ==
    [runs[r] EXCEPT !.phase = "ended", !.result = "raised", !.outcome = outcome]

Raise(r) ==
    /\ Dispatched(r)
    /\ runs' = [runs EXCEPT ![r] = Failed(r, runs[r].outcome)]
    /\ posts' = Reported(r, "error")
    /\ UNCHANGED <<known, stored, crashes>>

\* Mutant: the request is registered in memory only.
RegisterUnkept(r) ==
    /\ known' = known \cup {r}
    /\ posts' = Reported(r, "done")
    /\ UNCHANGED <<stored, crashes>>

\* The ended run's request is registered, in memory and on disk, and whoever
\* resumed it gets the result.
Register(r) ==
    /\ known' = known \cup {r}
    /\ stored' = stored \cup {r}
    /\ posts' = Reported(r, "done")
    /\ UNCHANGED crashes

(***************************************************************************)
(* The loop ends at the end of the workflow or out of steps: a run whose   *)
(* last step was the last it was allowed has exceeded the guard, wherever  *)
(* it led.                                                                 *)
(***************************************************************************)
End(r) ==
    /\ runs[r].phase = "walking"
    /\ runs[r].at = END \/ runs[r].steps = MaxSteps
    /\ runs' = [runs EXCEPT
          ![r].phase = "ended",
          ![r].result = IF runs[r].paused THEN "paused"
                        ELSE IF runs[r].steps = MaxSteps THEN "failed" ELSE "succeeded"]
    /\ Register(r)

----------------------------------------------------------------------------
(* Approval gates and permission prompts.                                  *)

Asks(r) == runs[r].phase \in {"asking", "prompting"}

(***************************************************************************)
(* What a run waits for is registered under a key: its own id for a gate,  *)
(* that of its shared state for a prompt.  A run is heard if the event it  *)
(* waits on is the registered one, and has the answer it would read, woken *)
(* now: none before its event is set, "unset" once somebody else took it.  *)
(***************************************************************************)
Key(r) == <<IF runs[r].at \in Prompts THEN runs[r].owner ELSE r, runs[r].at>>
At(key) == {r \in Runs : Asks(r) /\ Key(r) = key}
Heard(key) == \E r \in At(key) : runs[r].heard

\* The run waits, the timer running.
Opened(r, phase) ==
    [runs[r] EXCEPT !.phase = phase, !.heard = TRUE, !.answer = "none", !.fired = FALSE,
                    !.outcome = "none", !.acked = "none"]

\* A gate always registers a fresh event.
OpenGate(r) ==
    /\ runs[r].phase = "walking" /\ runs[r].steps < MaxSteps /\ runs[r].at \in Gates
    /\ runs' = [runs EXCEPT ![r] = Opened(r, "asking")]
    /\ UNCHANGED <<known, stored, posts, crashes>>

\* A prompt joins those who wait on the registered event, or replaces it when
\* it is set already, if they have not seen it yet.
OpenPrompt(r) ==
    /\ runs[r].phase = "walking" /\ runs[r].steps < MaxSteps /\ runs[r].at \in Prompts
    /\ runs' = [p \in Runs |->
          IF p = r THEN Opened(r, "prompting")
          ELSE IF p \in At(Key(r)) /\ runs[p].answer # "none"
               THEN [runs[p] EXCEPT !.heard = FALSE] ELSE runs[p]]
    /\ UNCHANGED <<known, stored, posts, crashes>>

\* History: nodes that somebody's decision lets the run pass, a gate whatever
\* the decision, a prompt if it is an approval, and nodes that it skipped.
Passed(run, answer) ==
    IF run.at \in Gates \/ answer = "approve" THEN run.passed \cup {run.at}
                                            ELSE run.passed

\* A decision is recorded and acknowledged; a later one replaces it.
Given(run, answer) ==
    [run EXCEPT !.answer = answer, !.acked = answer, !.passed = Passed(run, answer)]

(***************************************************************************)
(* submit_approval sets the registered event.  Whoever else was woken but  *)
(* has not read the decision yet will read this one.                       *)
(***************************************************************************)
Told(key, answer) ==
    [r \in Runs |-> IF r \in At(key) /\ (runs[r].heard \/ runs[r].answer # "none")
                    THEN Given(runs[r], answer) ELSE runs[r]]

\* It answers a question whether or not it was answered.
Submit(r, answer) ==
    /\ Asks(r) /\ Heard(Key(r))
    /\ runs' = Told(Key(r), answer)
    /\ UNCHANGED <<known, stored, posts, crashes>>

Request(op, r, checkpoint, node, target) ==
    [op |-> op, run |-> r, checkpoint |-> checkpoint, node |-> node, target |-> target,
     phase |-> "waiting", child |-> 0, answer |-> "none"]

(***************************************************************************)
(* The inbox, which answers a question once.  Its rejection also asks to   *)
(* reject the run of the key: one that waits itself is not known, and that *)
(* error is logged, but one that was resumed is.                           *)
(***************************************************************************)
Decide(r, answer) ==
    LET owner == Key(r)[1]
    IN  /\ Asks(r) /\ runs[r].heard /\ runs[r].answer = "none"
        /\ runs' = Told(Key(r), answer)
        /\ \/ /\ answer = "approve" \/ owner = r
              /\ UNCHANGED posts
           \/ /\ answer = "reject" /\ owner # r
              /\ Len(posts) < MaxPosts
              /\ posts' = Append(posts, Request("reject", owner, Checkpoint(<<>>, END, FALSE),
                                               runs[r].at, END))
        /\ UNCHANGED <<known, stored, crashes>>

\* The timer fires: at the latest when the run goes on, it has timed out.
Fire(r) ==
    /\ Asks(r) /\ ~runs[r].fired
    /\ runs' = [runs EXCEPT ![r].fired = TRUE]
    /\ UNCHANGED <<known, stored, posts, crashes>>

\* The gate's step is cancelled, a checkpoint leads back to the gate, and the
\* run ends, paused.
Paused(r) ==
    LET walked == Append(runs[r].visited, runs[r].at)
    IN  [runs[r] EXCEPT
            !.phase = "ended", !.steps = @ + 1, !.visited = walked, !.paused = TRUE,
            !.answer = "none",
            !.checkpoints = Append(@, Checkpoint(walked, runs[r].at, TRUE)),
            !.result = "paused"]

(***************************************************************************)
(* An answered gate lets the run go on with the outcome in its step output *)
(* (a rejection is one like any other: nothing reads on_reject), unless    *)
(* the paused flag was inherited: then the step is treated as timed out.   *)
(***************************************************************************)
GateAnswered(r) ==
    /\ runs[r].phase = "asking" /\ runs[r].answer # "none"
    /\ LET outcome == runs[r].answer IN
       \/ /\ ~runs[r].paused
          /\ \E next \in Routes[runs[r].at] :
                runs' = [runs EXCEPT ![r] = [Advanced(r, next) EXCEPT !.outcome = outcome]]
          /\ UNCHANGED <<known, stored, posts, crashes>>
       \/ /\ runs[r].paused
          /\ runs' = [runs EXCEPT ![r] = [Paused(r) EXCEPT !.outcome = outcome]]
          /\ Register(r)

\* A timeout drops whatever answer came between the timer and the run.
GateTimedOut(r) ==
    /\ runs[r].phase = "asking" /\ runs[r].fired
    /\ runs' = [runs EXCEPT ![r] = [Paused(r) EXCEPT !.outcome = "timeout"]]
    /\ Register(r)

(***************************************************************************)
(* A prompt ends: whatever event is registered under its key goes, and if  *)
(* the run was woken the decision too.                                     *)
(***************************************************************************)
Leaves(r, left, woken) ==
    runs' = [p \in Runs |->
        IF p = r THEN left
        ELSE IF p \in At(Key(r))
             THEN [runs[p] EXCEPT !.heard = FALSE,
                                  !.answer = IF woken /\ @ # "none" THEN "unset" ELSE @]
             ELSE runs[p]]

\* Mutant: whoever answers lets the node run.
PromptAnsweredAny(r) ==
    /\ runs[r].phase = "prompting" /\ runs[r].answer # "none"
    /\ Leaves(r, [runs[r] EXCEPT !.phase = "allowed", !.outcome = runs[r].answer], TRUE)
    /\ UNCHANGED <<known, stored, posts, crashes>>

\* An approved node is dispatched; a rejection, and the want of a decision
\* when another run has taken it, are raised as PermissionBlocked.
PromptAnswered(r) ==
    /\ runs[r].phase = "prompting"
    /\ \/ /\ runs[r].answer = "approve"
          /\ Leaves(r, [runs[r] EXCEPT !.phase = "allowed", !.outcome = "approve"], TRUE)
          /\ UNCHANGED posts
       \/ /\ runs[r].answer \in {"reject", "unset"}
          /\ Leaves(r, Failed(r, runs[r].answer), TRUE)
          /\ posts' = Reported(r, "error")
    /\ UNCHANGED <<known, stored, crashes>>

\* So is a timeout, whatever was answered since.
PromptTimedOut(r) ==
    /\ runs[r].phase = "prompting" /\ runs[r].fired
    /\ Leaves(r, Failed(r, "timeout"), FALSE)
    /\ posts' = Reported(r, "error")
    /\ UNCHANGED <<known, stored, crashes>>

----------------------------------------------------------------------------
(* Resume and reject.                                                      *)

Posted(op, r, checkpoint, node, target) ==
    /\ Len(posts) < MaxPosts
    /\ posts' = Append(posts, Request(op, r, checkpoint, node, target))
    /\ UNCHANGED <<runs, known, stored, crashes>>

(***************************************************************************)
(* A client asks to resume a run: from its latest checkpoint, which is     *)
(* looked up before the lock is asked for, or from one it names.           *)
(***************************************************************************)
PostResume(r) ==
    /\ Len(runs) + Due < MaxRuns
    /\ \E i \in DOMAIN runs[r].checkpoints :
          Posted("resume", r, runs[r].checkpoints[i], END, END)

\* A reviewer rejects a node of a run, and may send it back to an earlier one.
PostReject(r) ==
    \E node \in Nodes, target \in Nodes \cup {END} :
        Posted("reject", r, Checkpoint(<<>>, END, FALSE), node, target)

Waits(q, op) == posts[q].op = op /\ posts[q].phase = "waiting" /\ First(q)

\* resume, under the lock: a new run walks on from the checkpoint.
Resume(q) ==
    LET r == posts[q].run
        c == posts[q].checkpoint
    IN  /\ Waits(q, "resume") /\ r \in known \cup stored /\ c.next # END
        /\ known' = known \cup {r}
        /\ runs' = Append(runs, Begun(c.next, c.visited, c.paused, r, runs[r].owner))
        /\ posts' = [posts EXCEPT ![q].phase = "holding", ![q].child = Len(runs) + 1]
        /\ UNCHANGED <<stored, crashes>>

\* The run is not known, or its checkpoint leads nowhere.
ResumeRefused(q) ==
    LET r == posts[q].run
    IN  /\ Waits(q, "resume")
        /\ r \notin known \cup stored \/ posts[q].checkpoint.next = END
        /\ known' = known \cup (stored \cap {r})
        /\ posts' = Answered(q, "refused")
        /\ UNCHANGED <<runs, stored, crashes>>

\* reject ends with submit_approval for the node it names: a run it knows has
\* ended, but one resumed from it may prompt under its id.
Rejected(q) ==
    LET key == <<posts[q].run, posts[q].node>>
    IN  IF Heard(key) THEN Told(key, "reject") ELSE runs

Reject(q) ==
    /\ Waits(q, "reject") /\ posts[q].target = END /\ posts[q].run \in known
    /\ runs' = Rejected(q)
    /\ posts' = Answered(q, "done")
    /\ UNCHANGED <<known, stored, crashes>>

\* The run is unknown, the policy matrix forbids it, or the node to go back
\* to was not visited.
RejectRefused(q) ==
    LET r == posts[q].run
        target == posts[q].target
        latest == runs[r].checkpoints[Len(runs[r].checkpoints)]
        \* _get_latest_checkpoint finds none, or one without the target
        unvisited == \/ runs[r].checkpoints = <<>>
                     \/ \A i \in DOMAIN latest.visited : latest.visited[i] # target
    IN  /\ Waits(q, "reject")
        /\ posts' = [posts EXCEPT
              ![q].phase = "answered",
              ![q].answer = IF r \notin known THEN "unknown"
                            ELSE IF target # END /\ unvisited THEN "invalid"
                            ELSE "forbidden"]
        /\ UNCHANGED <<runs, known, stored, crashes>>

\* Mutant: the node to go back to stays among the visited ones.
BeforeOrAt(walk, node) ==
    SubSeq(walk, 1, CHOOSE i \in DOMAIN walk :
                        walk[i] = node /\ \A j \in 1..(i - 1) : walk[j] # node)

\* The nodes visited before the first visit of a node.
Before(walk, node) ==
    LET first == CHOOSE i \in DOMAIN walk :
                     walk[i] = node /\ \A j \in 1..(i - 1) : walk[j] # node
    IN  SubSeq(walk, 1, first - 1)

(***************************************************************************)
(* A snapshot of the latest checkpoint that leads back to the node, in     *)
(* memory; the lock is held while another thread stores it.                *)
(***************************************************************************)
Retarget(q) ==
    LET r == posts[q].run
        target == posts[q].target
        latest == runs[r].checkpoints[Len(runs[r].checkpoints)]
    IN  /\ Waits(q, "reject") /\ target # END /\ r \in known
        /\ runs[r].checkpoints # <<>>
        /\ \E i \in DOMAIN latest.visited : latest.visited[i] = target
        /\ runs' = [runs EXCEPT ![r].checkpoints =
              Append(@, Checkpoint(Before(latest.visited, target), target, latest.paused))]
        /\ posts' = [posts EXCEPT ![q].phase = "holding"]
        /\ UNCHANGED <<known, stored, crashes>>

Retargeted(q) ==
    /\ posts[q].op = "reject" /\ posts[q].phase = "holding"
    /\ runs' = Rejected(q)
    /\ posts' = Answered(q, "done")
    /\ UNCHANGED <<known, stored, crashes>>

(***************************************************************************)
(* The process stops and starts again: what was under way is lost, and     *)
(* memory holds neither requests nor a checkpoint that was being stored,   *)
(* the latest of its run.                                                  *)
(***************************************************************************)
Stores(q, r) == posts[q].run = r /\ posts[q].op = "reject" /\ posts[q].phase = "holding"

Crash ==
    /\ crashes < MaxCrashes
    /\ crashes' = crashes + 1
    /\ runs' = [r \in Runs |->
          LET left == [runs[r] EXCEPT !.checkpoints =
                           IF \E q \in Posts : Stores(q, r) THEN SubSeq(@, 1, Len(@) - 1) ELSE @]
          IN  IF runs[r].phase = "ended" THEN left
              ELSE [left EXCEPT !.phase = "ended", !.result = "lost"]]
    /\ posts' = [q \in Posts |->
          IF posts[q].phase = "answered" THEN posts[q]
          ELSE [posts[q] EXCEPT !.phase = "answered", !.answer = "lost"]]
    /\ known' = {}
    /\ UNCHANGED stored

Next ==
    \/ Start \/ Crash
    \/ \E r \in Runs :
          \/ Step(r) \/ Skip(r) \/ Raise(r) \/ End(r)
          \/ OpenGate(r) \/ Fire(r) \/ GateAnswered(r) \/ GateTimedOut(r)
          \/ OpenPrompt(r) \/ PromptAnswered(r) \/ PromptTimedOut(r)
          \/ \E answer \in {"approve", "reject"} : Submit(r, answer) \/ Decide(r, answer)
          \/ PostResume(r) \/ PostReject(r)
    \/ \E q \in Posts :
          \/ Resume(q) \/ ResumeRefused(q)
          \/ Reject(q) \/ RejectRefused(q) \/ Retarget(q) \/ Retargeted(q)

\* A run's task goes on, its timer fires, and who is next for a lock gets it.
\* Nobody has to answer a question.
WalkOn(r) == r \in Runs /\ (Step(r) \/ Skip(r) \/ Raise(r) \/ End(r) \/ Fire(r)
                            \/ OpenGate(r) \/ GateAnswered(r) \/ GateTimedOut(r)
                            \/ OpenPrompt(r) \/ PromptAnswered(r) \/ PromptTimedOut(r))
Serve(q) == q \in Posts /\ (Resume(q) \/ ResumeRefused(q) \/ Reject(q)
                            \/ RejectRefused(q) \/ Retarget(q) \/ Retargeted(q))

Fairness ==
    /\ \A r \in 1..MaxRuns : WF_vars(WalkOn(r))
    /\ \A q \in 1..MaxPosts : WF_vars(Serve(q))

Spec == Init /\ [][Next]_vars /\ Fairness

----------------------------------------------------------------------------
(* Properties.                                                             *)

\* A walk through the workflow: it starts at the entry and follows its edges,
\* a gate that timed out being walked through again.
IsWalk(walk) ==
    /\ walk # <<>> => walk[1] = Entry
    /\ \A i \in 1..(Len(walk) - 1) :
          \/ walk[i + 1] \in Routes[walk[i]]
          \/ walk[i + 1] = walk[i] /\ walk[i] \in Gates

(***************************************************************************)
(* What a run says it visited is a walk through the workflow, and so is    *)
(* what a checkpoint says with the node it leads to, however often runs    *)
(* were paused, rejected, sent back and resumed (service.py:1095, 1166,    *)
(* 573-593).                                                               *)
(***************************************************************************)
ResumesOnPath ==
    \A r \in Runs :
        /\ IsWalk(runs[r].visited)
        /\ \A i \in DOMAIN runs[r].checkpoints :
              LET c == runs[r].checkpoints[i]
              IN  IsWalk(IF c.next = END THEN c.visited ELSE Append(c.visited, c.next))

\* r and the runs it goes back to: the least set with r and all their parents.
Lineage(r) ==
    {p \in Runs : \A S \in SUBSET Runs :
        r \in S /\ (\A s \in S : runs[s].parent \in Runs => runs[s].parent \in S)
        => p \in S}

(***************************************************************************)
(* A gate or a prompt ends with the last decision that was acknowledged to *)
(* somebody under its key, with a timeout if its timer fired, or, in a run *)
(* that was resumed, without the decision another run of its line took.    *)
(* Nothing behind a gate runs unless somebody decided it, and no node that *)
(* prompts unless somebody approved it, in this run or one it goes back    *)
(* to, or its activation was suppressed there (service.py:659-668,         *)
(* 1277-1286, 3018-3045; permissions.py:128-146).                          *)
(***************************************************************************)
AckedDecisionCounts ==
    \A r \in Runs :
        /\ ~Asks(r) =>
              /\ runs[r].outcome \in {"approve", "reject"} => runs[r].outcome = runs[r].acked
              /\ runs[r].outcome = "timeout" => runs[r].fired
              /\ runs[r].outcome = "unset" => runs[r].parent # 0
        /\ LET passed == UNION {runs[p].passed : p \in Lineage(r)}
               walk == runs[r].visited
           IN  \A i \in DOMAIN walk :
                  \/ walk[i] \in Prompts
                  \/ walk[i] \in Gates /\ i < Len(walk) /\ walk[i + 1] # walk[i]
                  => walk[i] \in passed

(***************************************************************************)
(* A run that is shown as paused can be resumed at a gate: it or one it    *)
(* was resumed from has such a checkpoint and is still known to the        *)
(* stores, a restart later too (service.py:1298-1355, 1680).               *)
(***************************************************************************)
PausedResumable ==
    \A r \in Runs : runs[r].result = "paused" =>
        \E p \in Lineage(r) :
            /\ p \in known \cup stored
            /\ \E i \in DOMAIN runs[p].checkpoints : runs[p].checkpoints[i].next \in Gates

\* Every request to resume or reject is answered, or lost with the process
\* (service.py:375, 823: the lock is released on every path).
PostsAnswered ==
    \A q \in 1..MaxPosts : q \in Posts ~> q \in Posts /\ posts[q].phase = "answered"
=============================================================================
