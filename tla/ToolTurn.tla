------------------------------- MODULE ToolTurn ------------------------------
(***************************************************************************)
(* The tool loop of a model turn and the approval of its tools:            *)
(* ConversationRuntime.runTurn (lib/conversation-runtime-impl.ts),         *)
(* ToolRunner.dispatch (lib/tool-runner.ts) and the shared registry of     *)
(* lib/tool-approval.ts.                                                   *)
(*                                                                         *)
(* Several turns run at once: the nodes of a workflow share the session    *)
(* and the abort signal of its run, and different sessions share the       *)
(* registry.  A turn is parked on one request at most; an answer comes     *)
(* from a client, the timer of the request or the signal of the session.   *)
(* A session that is run again gets a new signal; it counts as another     *)
(* member of Sessions, since no request of the earlier run is then open.   *)
(***************************************************************************)
EXTENDS Naturals, Sequences, FiniteSets

CONSTANTS
    Turns,         \* runTurn() generators
    Sessions,      \* session ids
    Requests,      \* request ids, randomUUID() in the code; bounds the requests
    MaxRounds,     \* maxIterations of the runtime
    MaxCalls       \* bound: tool calls in one answer of the model

CONSTANT None      \* no request, no turn

ASSUME TurnAssumption ==
    /\ MaxRounds \in Nat \ {0}
    /\ MaxCalls \in Nat
    /\ None \notin Requests \cup Turns

VARIABLES
    home,          \* the session each turn works for
    aborted,       \* sessions whose signal has fired
    pc,            \* where each turn is
    round,         \* iterations of the loop of runTurn
    calls,         \* pendingTools: what is left to dispatch
    owed,          \* tool_use blocks of the history without a tool_result
    parked,        \* the request a turn awaits
    owner,         \* the turn that made each request
    log            \* frames of each request, in the order they were emitted

vars == <<home, aborted, pc, round, calls, owed, parked, owner, log>>
loopVars == <<round, calls, owed>>
registry == <<owner, log>>

(* What policy and tool registry say of a call: refused without a question, *)
(* allowed, or left to the user.                                            *)
Kinds == {"refused", "allow", "prompt"}

Asked == [decision |-> "pending", by |-> "nobody"]
Frames == [decision : {"approve", "deny"}, by : {"user", "timeout", "abort"}] \cup {Asked}

(* The variables have their types. *)
TypeOK ==
    /\ home \in [Turns -> Sessions]
    /\ aborted \subseteq Sessions
    /\ pc \in [Turns -> {"next", "stream", "ask", "run", "over"}]
    /\ round \in [Turns -> 0..MaxRounds]
    /\ calls \in [Turns -> Seq(Kinds)]
    /\ owed \in [Turns -> Nat]
    /\ parked \in [Turns -> Requests \cup {None}]
    /\ owner \in [Requests -> Turns \cup {None}]
    /\ log \in [Requests -> Seq(Frames)]

Init ==
    /\ home \in [Turns -> Sessions]
    /\ aborted = {}
    /\ pc = [t \in Turns |-> "next"]
    /\ round = [t \in Turns |-> 0]
    /\ calls = [t \in Turns |-> <<>>]
    /\ owed = [t \in Turns |-> 0]
    /\ parked = [t \in Turns |-> None]
    /\ owner = [r \in Requests |-> None]
    /\ log = [r \in Requests |-> <<>>]

-----------------------------------------------------------------------------
(* The registry. *)

Unused(r) == log[r] = <<>>
Settled(r) == Len(log[r]) > 1
Pending(r) == ~Unused(r) /\ ~Settled(r)

(* Mutant: an entry can be settled again. *)
AnswerAgain(r, decision, by) == Append(log[r], [decision |-> decision, by |-> by])

(* settleEntry(): the first answer counts, the others change nothing. *)
Answer(r, decision, by) ==
    IF Settled(r) THEN log[r] ELSE Append(log[r], [decision |-> decision, by |-> by])

(* request(): the entry and its pending frame, and the answer at once when  *)
(* the signal has fired already, which no caller of today lets happen.      *)
Opened(t) ==
    IF home[t] \in aborted
    THEN <<Asked, [decision |-> "deny", by |-> "abort"]>>
    ELSE <<Asked>>

(* decide(), as POST /:id/permissions/:requestId calls it for session s. *)
Decide(r, decision, s) ==
    /\ Pending(r)
    /\ home[owner[r]] = s
    /\ log' = [log EXCEPT ![r] = Answer(r, decision, "user")]
    /\ UNCHANGED <<home, aborted, pc, loopVars, parked, owner>>

(* The timer of a request; settling an entry clears it. *)
TimedOut(r) ==
    /\ Pending(r)
    /\ log' = [log EXCEPT ![r] = Answer(r, "deny", "timeout")]
    /\ UNCHANGED <<home, aborted, pc, loopVars, parked, owner>>

(* Mutant: request() registers no listener. *)
AbortUnheard(s) ==
    /\ s \notin aborted
    /\ aborted' = aborted \cup {s}
    /\ UNCHANGED <<home, pc, loopVars, parked, registry>>

(* The run of s is cancelled: its signal fires, and with it the listeners   *)
(* of all requests that were made under it.                                 *)
Abort(s) ==
    /\ s \notin aborted
    /\ aborted' = aborted \cup {s}
    /\ log' = [r \in Requests |->
                  IF ~Unused(r) /\ home[owner[r]] = s
                  THEN Answer(r, "deny", "abort") ELSE log[r]]
    /\ UNCHANGED <<home, pc, loopVars, parked, owner>>

-----------------------------------------------------------------------------
(* A turn. *)

Goes(t, place) == pc' = [pc EXCEPT ![t] = place]

(* Mutant: the result of a call is not added to the history. *)
ResultUnrecorded(t) ==
    /\ calls' = [calls EXCEPT ![t] = Tail(@)]
    /\ UNCHANGED <<round, owed>>

(* A tool_result block, in the order of the calls. *)
Result(t) ==
    /\ calls' = [calls EXCEPT ![t] = Tail(@)]
    /\ owed' = [owed EXCEPT ![t] = @ - 1]
    /\ UNCHANGED round

(* The head of the loop: with results for all calls, the model is asked     *)
(* again, unless the signal fired or the iterations are used up.            *)
Iterate(t) ==
    /\ pc[t] = "next" /\ calls[t] = <<>>
    /\ \/ /\ round[t] < MaxRounds /\ home[t] \notin aborted
          /\ Goes(t, "stream")
          /\ round' = [round EXCEPT ![t] = @ + 1]
       \/ /\ round[t] = MaxRounds \/ home[t] \in aborted
          /\ Goes(t, "over")
          /\ UNCHANGED round
    /\ UNCHANGED <<home, aborted, calls, owed, parked, registry>>

(* The stream of the model ends with these tool calls; none ends the turn. *)
Streamed(t, cs) ==
    /\ pc[t] = "stream"
    /\ Goes(t, IF cs = <<>> THEN "over" ELSE "next")
    /\ calls' = [calls EXCEPT ![t] = cs]
    /\ owed' = [owed EXCEPT ![t] = @ + Len(cs)]
    /\ UNCHANGED <<home, aborted, round, parked, registry>>

(* ... or it throws: an error chunk, and the turn is over. *)
StreamThrew(t) ==
    /\ pc[t] = "stream"
    /\ Goes(t, "over")
    /\ UNCHANGED <<home, aborted, loopVars, parked, registry>>

(* Between two calls: the signal has fired, or the consumer of the          *)
(* generator has seen that it did and reads no further.                     *)
Stopped(t) ==
    /\ pc[t] = "next" /\ calls[t] # <<>>
    /\ home[t] \in aborted
    /\ Goes(t, "over")
    /\ UNCHANGED <<home, aborted, loopVars, parked, registry>>

Dispatching(t, kind) ==
    /\ pc[t] = "next" /\ calls[t] # <<>>
    /\ home[t] \notin aborted
    /\ Head(calls[t]) = kind

(* dispatch() of an unknown tool, of one the policy denies, or of one that  *)
(* needs a user when no prompter is wired: an error result.                 *)
Refuse(t) ==
    /\ Dispatching(t, "refused")
    /\ Result(t)
    /\ UNCHANGED <<home, aborted, pc, parked, registry>>

(* Mutant: the signal is not looked at again before the call. *)
ProceedDeaf(t, executor) ==
    IF executor
    THEN Goes(t, "run") /\ UNCHANGED loopVars
    ELSE Goes(t, "next") /\ Result(t)

(* The rest of dispatch() once the call is allowed: no executor, or a       *)
(* signal that fired meanwhile, make an error result; else it executes.     *)
Proceed(t, executor) ==
    IF executor /\ home[t] \notin aborted
    THEN Goes(t, "run") /\ UNCHANGED loopVars
    ELSE Goes(t, "next") /\ Result(t)

Allow(t, executor) ==
    /\ Dispatching(t, "allow")
    /\ Proceed(t, executor)
    /\ UNCHANGED <<home, aborted, parked, registry>>

Ask(t) ==
    /\ Dispatching(t, "prompt")
    /\ \E r \in Requests :
          /\ Unused(r)
          /\ owner' = [owner EXCEPT ![r] = t]
          /\ log' = [log EXCEPT ![r] = Opened(t)]
          /\ parked' = [parked EXCEPT ![t] = r]
    /\ Goes(t, "ask")
    /\ UNCHANGED <<home, aborted, loopVars>>

(* The promise of the request has resolved. *)
Resume(t, executor) ==
    /\ pc[t] = "ask"
    /\ Settled(parked[t])
    /\ IF log[parked[t]][2].decision = "approve"
       THEN Proceed(t, executor)
       ELSE Goes(t, "next") /\ Result(t)
    /\ parked' = [parked EXCEPT ![t] = None]
    /\ UNCHANGED <<home, aborted, registry>>

(* The executor returns or throws; it may not have heeded the signal. *)
Returned(t) ==
    /\ pc[t] = "run"
    /\ Goes(t, "next")
    /\ Result(t)
    /\ UNCHANGED <<home, aborted, parked, registry>>

CallLists == UNION {[1..n -> Kinds] : n \in 0..MaxCalls}

Next ==
    \/ \E r \in Requests : TimedOut(r)
    \/ \E r \in Requests, s \in Sessions : \E d \in {"approve", "deny"} : Decide(r, d, s)
    \/ \E s \in Sessions : Abort(s)
    \/ \E t \in Turns :
          \/ Iterate(t) \/ StreamThrew(t) \/ Stopped(t) \/ Refuse(t) \/ Ask(t) \/ Returned(t)
          \/ \E cs \in CallLists : Streamed(t, cs)
          \/ \E executor \in BOOLEAN : Allow(t, executor) \/ Resume(t, executor)

Spec == Init /\ [][Next]_vars

-----------------------------------------------------------------------------
(* Each request shows its prompt first and then one decision, whoever comes *)
(* second: "settleEntry" is idempotent, and a turn waits for exactly the    *)
(* requests that are open, each for its own.                                *)
SettledOnce ==
    /\ \A r \in Requests : Len(log[r]) <= 2 /\ (~Unused(r) => log[r][1] = Asked)
    /\ \A r \in Requests : Pending(r) => parked[owner[r]] = r
    /\ \A t \in Turns : pc[t] = "ask" <=> parked[t] # None
    /\ \A t \in Turns : parked[t] # None => owner[parked[t]] = t /\ ~Unused(parked[t])

(* No question stays open to the user of a run that was cancelled, however  *)
(* the question and the signal raced.                                       *)
AbortAnswers == \A r \in Requests : Pending(r) => home[owner[r]] \notin aborted

(* Fail closed: a tool that needs approval starts only once a user of its   *)
(* own session approved this very call, before the timer and before the     *)
(* signal; and no tool starts in a run that was cancelled.                  *)
OnlyApproved ==
    [][\A t \in Turns : pc[t] # "run" /\ pc'[t] = "run" =>
          /\ home[t] \notin aborted
          /\ Head(calls[t]) = "prompt" =>
                /\ parked[t] # None
                /\ owner[parked[t]] = t
                /\ log[parked[t]] = <<Asked, [decision |-> "approve", by |-> "user"]>>]_vars

(* Whatever becomes of its calls -- refused, denied, timed out, executed -- *)
(* the model is asked again only when each tool_use has its tool_result.    *)
HistoryPaired == \A t \in Turns :
    /\ pc[t] = "stream" => owed[t] = 0
    /\ pc[t] # "over" => owed[t] = Len(calls[t])
=============================================================================
