----------------------------- MODULE ApprovalGate -----------------------------
(***************************************************************************)
(* The rounds of a group chat and the human approval gate of its team runs *)
(* (routes/groups/groups-chat.ts, lib/chat-dag/run-team-dag.ts), for one   *)
(* group.  Every user message starts a ROUND: a fire-and-forget fan-out.   *)
(* Some awaits later it turns out to be a TEAM round, which registers one  *)
(* controller (swapDagRun) for its whole run, or a SERIAL round -- small   *)
(* talk, or no readable team -- which registers a new one for each agent   *)
(* it calls.  Registering aborts the controller that was there before.     *)
(*                                                                         *)
(* A node with an approve edge asks before it runs: it puts a promise into *)
(* pendingApprovals under the key "<group>:<node>" and arms a timer of     *)
(* thirty minutes.  The endpoint, a short chat message, the timer or the   *)
(* next registration settles the promise.  The key carries neither the     *)
(* round nor the question, the timer is never cleared, and the request     *)
(* ignores the round's signal; so asks of the same node, of one round      *)
(* (rework) or of two, meet under one key.                                 *)
(***************************************************************************)
EXTENDS Naturals

CONSTANTS
    Nodes,      \* the nodes of the team that have an approve in-edge
    MaxRounds,  \* bound: user messages, each of which starts a round
    MaxAsks,    \* bound: asks per node, over all rounds
    None        \* no promise registered

ASSUME GateAssumption ==
    /\ MaxRounds \in Nat
    /\ MaxAsks \in Nat \ {0}
    /\ None \notin Nodes \X (1..MaxAsks)

Rounds == 1..MaxRounds
Asks == Nodes \X (1..MaxAsks)

AskStates == {"unused", "reached", "open", "approved", "rejected",
              "running", "ran", "aborted"}
\* A node is inside runNodeOnce.
Busy == {"reached", "open", "approved", "running"}

\* A team round is running; a serial one calls an agent or is between two.
RoundStates == {"none", "queued", "running", "calling", "between", "ended"}

VARIABLES
    round,    \* the fan-out of each message
    aborted,  \* rounds whose latest controller has been aborted
    live,     \* activeDagRuns: whose latest controller is registered, 0 none
    adrift,   \* history: rounds a serial round's end took out of the registry
    asks,     \* each ask: the round that makes it and its state
    pending,  \* pendingApprovals: per node, the ask whose resolver is registered
    armed     \* asks whose half-hour timer has not fired yet

vars == <<round, aborted, live, adrift, asks, pending, armed>>
registry == <<aborted, live, adrift>>

Init ==
    /\ round = [r \in Rounds |-> "none"]
    /\ aborted = {} /\ live = 0 /\ adrift = {}
    /\ asks = [a \in Asks |-> [round |-> 0, state |-> "unused"]]
    /\ pending = [n \in Nodes |-> None]
    /\ armed = {}

----------------------------------------------------------------------------

\* The asks a verdict for all of the group's registered entries settles.
Registered == {a \in Asks : pending[a[1]] = a}

\* Resolving a promise twice has no effect.
Resolve(A, verdict) ==
    [a \in Asks |-> IF a \in A /\ asks[a].state = "open"
                    THEN [asks[a] EXCEPT !.state = verdict] ELSE asks[a]]

Goes(r, to) == round' = [round EXCEPT ![r] = to]

(***************************************************************************)
(* A user message: its text may decide every ask registered at that        *)
(* moment, and in any case it starts a fan-out that is not awaited.        *)
(***************************************************************************)
Message(r, verdict) ==
    /\ round[r] = "none"
    /\ \A s \in Rounds : s < r => round[s] # "none"
    /\ Goes(r, "queued")
    /\ \/ /\ verdict = "chat"
          /\ UNCHANGED <<asks, pending>>
       \/ /\ verdict \in {"approved", "rejected"}
          /\ asks' = Resolve(Registered, verdict)
          /\ pending' = [n \in Nodes |-> None]
    /\ UNCHANGED <<registry, armed>>

\* Mutant: the entries are cleared and their promises forgotten.
SwapForgets(r) ==
    /\ aborted' = (aborted \cup ({live} \ {0})) \ {r}
    /\ live' = r
    /\ adrift' = adrift \ {r}
    /\ pending' = [n \in Nodes |-> None]
    /\ UNCHANGED <<asks, armed>>

\* swapDagRun: a new controller of r in the place of the registered one.
Swap(r) ==
    /\ aborted' = (aborted \cup ({live} \ {0})) \ {r}
    /\ live' = r
    /\ adrift' = adrift \ {r}
    /\ asks' = Resolve(Registered, "rejected")
    /\ pending' = [n \in Nodes |-> None]
    /\ UNCHANGED armed

\* The fan-out gets to its team run.
TeamStarts(r) ==
    /\ round[r] = "queued"
    /\ Goes(r, "running")
    /\ Swap(r)

\* Mutant: the finally block removes whatever controller is registered.
TeamEndsForAll(r) ==
    /\ round[r] = "running"
    /\ \A a \in Asks : asks[a].round = r => asks[a].state \notin Busy
    /\ Goes(r, "ended")
    /\ live' = 0
    /\ UNCHANGED <<aborted, adrift, asks, pending, armed>>

\* runTeamDagFanout returns and its finally block runs.
TeamEnds(r) ==
    /\ round[r] = "running"
    /\ \A a \in Asks : asks[a].round = r => asks[a].state \notin Busy
    /\ Goes(r, "ended")
    /\ live' = IF live = r THEN 0 ELSE live
    /\ UNCHANGED <<aborted, adrift, asks, pending, armed>>

\* The serial loop gets to an agent and streams its answer.
Call(r) ==
    /\ round[r] \in {"queued", "between"}
    /\ Goes(r, "calling")
    /\ Swap(r)

\* After the serial loop: whatever is registered and not aborted is removed.
SerialLeaves(r) ==
    /\ Goes(r, "ended")
    /\ IF live # 0 /\ live \notin aborted
       THEN live' = 0 /\ adrift' = adrift \cup ({live} \ {r})
       ELSE UNCHANGED <<live, adrift>>
    /\ UNCHANGED <<aborted, asks, pending, armed>>

\* The stream ends: the loop is left if its signal fired, else it goes on,
\* by way of the awaits that post the reply.
CallReturns(r) ==
    /\ round[r] = "calling"
    /\ IF r \in aborted
       THEN SerialLeaves(r)
       ELSE Goes(r, "between") /\ UNCHANGED <<registry, asks, pending, armed>>

\* No agent is left, or none that exists.
SerialEnds(r) ==
    /\ round[r] \in {"queued", "between"}
    /\ SerialLeaves(r)

\* An exception before a call or between two leaves the registry alone.
Fails(r) ==
    /\ round[r] \in {"queued", "between"}
    /\ Goes(r, "ended")
    /\ UNCHANGED <<registry, asks, pending, armed>>

\* stopGroupFanout: the stop button; the registered asks are left alone.
Stop ==
    /\ live # 0
    /\ aborted' = aborted \cup {live}
    /\ UNCHANGED <<round, live, adrift, asks, pending, armed>>

----------------------------------------------------------------------------

(***************************************************************************)
(* The round gets to a gated node: the layer loop, or a reviewer that      *)
(* sends its work back, checks the signal here and awaits the agent and a  *)
(* chat post before it asks.  Two reviewers of one layer may both do so.   *)
(***************************************************************************)
Reach(r, a) ==
    /\ round[r] = "running"
    /\ r \notin aborted
    /\ asks[a].state = "unused"
    /\ \A k \in 1..(a[2] - 1) : asks[<<a[1], k>>].state # "unused"
    /\ asks' = [asks EXCEPT ![a] = [round |-> r, state |-> "reached"]]
    /\ UNCHANGED <<round, registry, pending, armed>>

\* registerPendingApproval: the entry a key already had is overwritten.
Ask(a) ==
    /\ asks[a].state = "reached"
    /\ asks' = [asks EXCEPT ![a].state = "open"]
    /\ pending' = [pending EXCEPT ![a[1]] = a]
    /\ armed' = armed \cup {a}
    /\ UNCHANGED <<round, registry>>

\* Mutant: the entry stays registered.
DecideKeeps(n, verdict) ==
    /\ pending[n] # None
    /\ asks' = Resolve({pending[n]}, verdict)
    /\ UNCHANGED <<round, registry, pending, armed>>

\* approvalDecisionHandler: no entry under the key is a 409.
Decide(n, verdict) ==
    /\ pending[n] # None
    /\ asks' = Resolve({pending[n]}, verdict)
    /\ pending' = [pending EXCEPT ![n] = None]
    /\ UNCHANGED <<round, registry, armed>>

\* Mutant: the timer deletes the entry and does not resolve.
TimedOutMute(a) ==
    /\ a \in armed
    /\ armed' = armed \ {a}
    /\ pending' = [pending EXCEPT ![a[1]] = None]
    /\ UNCHANGED <<round, registry, asks>>

\* The timer deletes whatever is under its key, then resolves its own promise.
TimedOut(a) ==
    /\ a \in armed
    /\ armed' = armed \ {a}
    /\ asks' = IF pending[a[1]] # None THEN Resolve({a}, "rejected") ELSE asks
    /\ pending' = [pending EXCEPT ![a[1]] = None]
    /\ UNCHANGED <<round, registry>>

\* The approved node posts its notice and enters runNodeWithPolicy.
Woken(a) ==
    /\ asks[a].state = "approved"
    /\ asks' = [asks EXCEPT ![a].state =
                    IF asks[a].round \in aborted THEN "aborted" ELSE "running"]
    /\ UNCHANGED <<round, registry, pending, armed>>

\* The call returns; an abort meanwhile outranks its result.
Returned(a) ==
    /\ asks[a].state = "running"
    /\ asks' = [asks EXCEPT ![a].state =
                    IF asks[a].round \in aborted THEN "aborted" ELSE "ran"]
    /\ UNCHANGED <<round, registry, pending, armed>>

Next ==
    \/ \E r \in Rounds, v \in {"approved", "rejected", "chat"} : Message(r, v)
    \/ \E r \in Rounds :
          \/ TeamStarts(r) \/ TeamEnds(r)
          \/ Call(r) \/ CallReturns(r) \/ SerialEnds(r) \/ Fails(r)
    \/ \E r \in Rounds, a \in Asks : Reach(r, a)
    \/ Stop
    \/ \E n \in Nodes, v \in {"approved", "rejected"} : Decide(n, v)
    \/ \E a \in Asks : Ask(a) \/ TimedOut(a) \/ Woken(a) \/ Returned(a)

Spec == Init /\ [][Next]_vars

\* Timers fire.  Nobody and nothing else need ever act.
FairSpec == Spec /\ \A a \in Asks : WF_vars(TimedOut(a))

----------------------------------------------------------------------------

\* The variables have their types.
TypeOK ==
    /\ round \in [Rounds -> RoundStates]
    /\ aborted \subseteq Rounds
    /\ live \in 0..MaxRounds
    /\ adrift \subseteq Rounds
    /\ asks \in [Asks -> [round : 0..MaxRounds, state : AskStates]]
    /\ pending \in [Nodes -> Asks \cup {None}]
    /\ armed \subseteq Asks

\* A run or a call is under way and has not been told to stop.
Spending(r) == round[r] \in {"running", "calling"} /\ r \notin aborted

(***************************************************************************)
(* However rounds overlap, only the end of a serial round takes a spending *)
(* round out of the registry: replacing a controller aborts it, a team     *)
(* round removes none that came after its own, and two rounds spend at     *)
(* once only if one of them was taken out in that way.                     *)
(***************************************************************************)
OneLiveRound == \A r \in Rounds : Spending(r) /\ r \notin adrift => live = r

(***************************************************************************)
(* An entry of pendingApprovals is the promise of a node that still waits, *)
(* under its own key: a decision the endpoint accepts is never spent on a  *)
(* promise that is already settled.                                        *)
(***************************************************************************)
RegisteredOpen ==
    \A n \in Nodes : pending[n] # None =>
        pending[n][1] = n /\ asks[pending[n]].state = "open"

\* The asks of the same node that have been made, too.
Rivals(a) == {b \in Asks \ {a} : b[1] = a[1] /\ asks[b].state \notin {"unused", "reached"}}

(***************************************************************************)
(* A node that waits can be decided, unless another ask of the same node   *)
(* has been made: no order of messages, rounds, decisions and timers loses *)
(* the resolver of a node that was asked about once.                       *)
(***************************************************************************)
LoneAskKept ==
    \A a \in Asks : asks[a].state = "open" /\ Rivals(a) = {} => pending[a[1]] = a

(***************************************************************************)
(* "the approval promise never hangs" (groups-chat.ts:281), if its node is *)
(* asked about once: it is answered in the end, by the timer if by nothing *)
(* else, even when its round was stopped or aborted and nobody looks.      *)
(***************************************************************************)
LoneAskAnswered ==
    \A a \in Asks : asks[a].state = "open" ~> asks[a].state # "open" \/ Rivals(a) # {}
============================================================================
