--------------------------- MODULE GroupChatProofs ---------------------------
(***************************************************************************)
(* Safety of a group chat's rounds.                                        *)
(*                                                                         *)
(* First the approval gate, for any team, any number of messages and any   *)
(* number of asks per node.  Then the cards of a round's handovers, for    *)
(* any hops, outcomes and number of calls: what is in the log, in a queue  *)
(* or on the disk agrees with the rows while the round goes on, and once   *)
(* it has ended the sweep has closed what nothing settled.                 *)
(*                                                                         *)
(* The two share nothing: ApprovalGate and HopBroadcast meet only in       *)
(* TeamDag, which runs inside the one and calls the other.                 *)
(***************************************************************************)
EXTENDS ApprovalGate, HopBroadcast, FiniteSetTheorems, TLAPS

AskType == [round : 0..MaxRounds, state : AskStates]

\* A timer is armed by asking: whoever has one has been registered.
ArmedAsked == \A a \in armed : asks[a].state \notin {"unused", "reached"}

IInv == TypeOK /\ OneLiveRound /\ RegisteredOpen /\ LoneAskKept /\ ArmedAsked

\* Resolving asks keeps their type and touches only the open ones among them.
LEMMA ResolveType ==
    ASSUME TypeOK, NEW A, NEW v \in {"approved", "rejected"}
    PROVE  /\ Resolve(A, v) \in [Asks -> AskType]
           /\ \A a \in Asks :
                 Resolve(A, v)[a].state =
                     IF a \in A /\ asks[a].state = "open" THEN v ELSE asks[a].state
  BY DEF TypeOK, Resolve, AskStates, AskType

LEMMA InitIInv == Init => IInv
  <1> SUFFICES ASSUME Init PROVE IInv
    OBVIOUS
  <1>1. TypeOK
    BY GateAssumption DEF Init, TypeOK, AskStates, RoundStates
  <1>2. \A a \in Asks : asks[a].state = "unused"
    BY DEF Init
  <1> QED
    BY <1>1, <1>2 DEF IInv, Init, OneLiveRound, Spending, RegisteredOpen, LoneAskKept, Rivals, ArmedAsked

\* The part of the invariant that is about rounds and their controllers.
RoundsOK ==
    /\ OneLiveRound
    /\ round \in [Rounds -> RoundStates]
    /\ aborted \subseteq Rounds
    /\ live \in 0..MaxRounds
    /\ adrift \subseteq Rounds

\* swapDagRun aborts what it replaces, so the new round spends alone.
LEMMA SwapRounds ==
    ASSUME TypeOK, OneLiveRound, NEW r \in Rounds, Swap(r),
           NEW to \in RoundStates, Goes(r, to)
    PROVE  RoundsOK'
  <1> USE GateAssumption DEF TypeOK, Rounds, Swap, Goes
  <1>1. ASSUME NEW s \in Rounds, s # r, Spending(s)', s \notin adrift' PROVE FALSE
    <2>1. Spending(s) /\ s \notin adrift /\ s # live
      BY <1>1 DEF Spending
    <2> QED
      BY <2>1 DEF OneLiveRound
  <1>2. OneLiveRound'
    BY <1>1 DEF OneLiveRound
  <1> QED
    BY <1>2 DEF RoundsOK

\* The end of a serial loop sets adrift what it takes out of the registry.
LEMMA SerialRounds ==
    ASSUME TypeOK, OneLiveRound, NEW r \in Rounds, SerialLeaves(r)
    PROVE  RoundsOK'
  <1> USE GateAssumption DEF TypeOK, Rounds, SerialLeaves, Goes
  <1>1. ASSUME NEW s \in Rounds, Spending(s)', s \notin adrift' PROVE live' = s
    <2>1. s # r
      BY <1>1 DEF Spending
    <2>2. Spending(s) /\ s \notin adrift
      BY <1>1, <2>1 DEF Spending
    <2> QED
      BY <1>1, <2>1, <2>2 DEF OneLiveRound
  <1>2. OneLiveRound'
    BY <1>1 DEF OneLiveRound
  <1>3. live' \in 0..MaxRounds /\ adrift' \subseteq Rounds
    <2>1. CASE live # 0 /\ live \notin aborted
      <3>1. live' = 0 /\ adrift' = adrift \cup ({live} \ {r})
        BY <2>1
      <3>2. live \in Rounds
        BY <2>1
      <3>3. adrift' \subseteq Rounds
        BY <3>1, <3>2
      <3> QED
        BY <3>1, <3>3
    <2>2. CASE ~(live # 0 /\ live \notin aborted)
      <3>1. UNCHANGED <<live, adrift>>
        BY <2>2
      <3> QED
        BY <3>1
    <2> QED
      BY <2>1, <2>2
  <1>4. "ended" \in RoundStates
    BY DEF RoundStates
  <1>5. round' \in [Rounds -> RoundStates]
    BY <1>4
  <1> QED
    BY <1>2, <1>3, <1>5 DEF RoundsOK

(***************************************************************************)
(* The rounds and their controllers, step by step.                         *)
(***************************************************************************)
LEMMA RoundsStep ==
    ASSUME TypeOK, OneLiveRound, Next
    PROVE  RoundsOK'
  <1>1. ASSUME NEW r \in Rounds, TeamStarts(r) \/ Call(r) PROVE RoundsOK'
    BY <1>1, SwapRounds DEF TeamStarts, Call, RoundStates
  <1>2. ASSUME NEW r \in Rounds, SerialLeaves(r) PROVE RoundsOK'
    BY <1>2, SerialRounds
  <1>3. ASSUME NEW r \in Rounds, NEW to \in {"queued", "between", "ended"},
               Goes(r, to), UNCHANGED registry
        PROVE  RoundsOK'
    BY <1>3 DEF TypeOK, OneLiveRound, Spending, RoundsOK, Goes, registry, RoundStates
  <1>4. ASSUME NEW r \in Rounds, TeamEnds(r) PROVE RoundsOK'
    BY <1>4, GateAssumption
    DEF TypeOK, OneLiveRound, Spending, RoundsOK, TeamEnds, Goes, RoundStates, Rounds
  <1>5. CASE Stop
    BY <1>5, GateAssumption DEF TypeOK, OneLiveRound, Spending, RoundsOK, Stop, Rounds
  <1>6. ASSUME UNCHANGED <<round, registry>> PROVE RoundsOK'
    BY <1>6 DEF TypeOK, OneLiveRound, Spending, RoundsOK, registry
  <1>7. ASSUME NEW r \in Rounds, NEW v, Message(r, v) PROVE RoundsOK'
    BY <1>3, <1>7 DEF Message
  <1>8. ASSUME NEW r \in Rounds, CallReturns(r) PROVE RoundsOK'
    BY <1>2, <1>3, <1>8 DEF CallReturns
  <1>9. ASSUME NEW r \in Rounds, Fails(r) PROVE RoundsOK'
    BY <1>3, <1>9 DEF Fails
  <1> QED
    BY <1>1, <1>2, <1>4, <1>5, <1>6, <1>7, <1>8, <1>9
    DEF Next, SerialEnds, Reach, Decide, Ask, TimedOut, Woken, Returned

\* The asks, the entries of pendingApprovals and the timers.
AsksOK ==
    /\ asks \in [Asks -> AskType]
    /\ pending \in [Nodes -> Asks \cup {None}]
    /\ armed \subseteq Asks
    /\ RegisteredOpen
    /\ LoneAskKept
    /\ ArmedAsked

(***************************************************************************)
(* Everything registered is settled and the group's entries are dropped:   *)
(* what a deciding message and swapDagRun have in common.                  *)
(***************************************************************************)
LEMMA ResolveAll ==
    ASSUME AsksOK, TypeOK, NEW v \in {"approved", "rejected"},
           asks' = Resolve(Registered, v),
           pending' = [n \in Nodes |-> None],
           armed' = armed
    PROVE  AsksOK'
  <1> USE DEF AsksOK
  <1>1. /\ asks' \in [Asks -> AskType]
        /\ \A a \in Asks : asks'[a].state =
              IF a \in Registered /\ asks[a].state = "open" THEN v ELSE asks[a].state
    BY ResolveType
  <1>2. RegisteredOpen'
    BY DEF RegisteredOpen
  <1>3. LoneAskKept'
    <2> SUFFICES ASSUME NEW a \in Asks, asks'[a].state = "open",
                        \A b \in Asks \ {a} : b[1] = a[1] =>
                            asks'[b].state \in {"unused", "reached"}
                 PROVE  FALSE
      BY DEF LoneAskKept, Rivals
    <2>1. a \notin Registered /\ asks[a].state = "open"
      BY <1>1
    <2>2. \A b \in Asks \ {a} : b[1] = a[1] => asks[b].state \in {"unused", "reached"}
      BY <1>1
    <2> QED
      BY <2>1, <2>2 DEF LoneAskKept, Rivals, Registered
  <1>4. ArmedAsked'
    BY <1>1 DEF ArmedAsked
  <1> QED
    BY <1>1, <1>2, <1>3, <1>4

\* One entry leaves pendingApprovals, and at most its own ask is settled.
LEMMA DropEntry ==
    ASSUME AsksOK, TypeOK, NEW n \in Nodes, NEW d \in Asks, NEW v \in {"approved", "rejected"},
           d[1] = n,
           pending[n] = d \/ asks[d].state \notin {"unused", "reached"},
           asks' = Resolve({d}, v),
           pending' = [pending EXCEPT ![n] = None],
           armed' \subseteq armed
    PROVE  AsksOK'
  <1> USE DEF AsksOK
  <1>1. /\ asks' \in [Asks -> AskType]
        /\ \A a \in Asks : asks'[a].state =
              IF a = d /\ asks[a].state = "open" THEN v ELSE asks[a].state
    <2>1. /\ Resolve({d}, v) \in [Asks -> AskType]
          /\ \A a \in Asks : Resolve({d}, v)[a].state =
                IF a \in {d} /\ asks[a].state = "open" THEN v ELSE asks[a].state
      BY DEF TypeOK, Resolve, AskStates, AskType
    <2> QED
      BY <2>1
  <1>2. RegisteredOpen'
    <2> SUFFICES ASSUME NEW m \in Nodes, pending'[m] # None
                 PROVE  pending'[m][1] = m /\ asks'[pending'[m]].state = "open"
      BY DEF RegisteredOpen
    <2>1. m # n /\ pending'[m] = pending[m] /\ pending[m] \in Asks
      OBVIOUS
    <2>2. pending[m][1] = m /\ asks[pending[m]].state = "open"
      BY <2>1 DEF RegisteredOpen
    <2> QED
      BY <1>1, <2>1, <2>2
  <1>3. LoneAskKept'
    <2> SUFFICES ASSUME NEW a \in Asks, asks'[a].state = "open",
                        \A b \in Asks \ {a} : b[1] = a[1] =>
                            asks'[b].state \in {"unused", "reached"}
                 PROVE  pending'[a[1]] = a
      BY DEF LoneAskKept, Rivals
    <2>1. a # d /\ asks[a].state = "open"
      BY <1>1
    <2>2. \A b \in Asks \ {a} : b[1] = a[1] => asks[b].state \in {"unused", "reached"}
      BY <1>1
    <2>3. pending[a[1]] = a
      BY <2>1, <2>2 DEF LoneAskKept, Rivals
    <2>4. a[1] # n
      BY <2>1, <2>2, <2>3
    <2>5. a[1] \in Nodes
      BY DEF Asks
    <2> QED
      BY <2>3, <2>4, <2>5
  <1>4. ArmedAsked'
    BY <1>1 DEF ArmedAsked
  <1> QED
    BY <1>1, <1>2, <1>3, <1>4

\* An ask that is not open moves between states that are not open either.
LEMMA OtherMove ==
    ASSUME AsksOK, NEW a \in Asks, NEW w \in AskType,
           asks[a].state # "open", w.state \notin {"open", "unused"},
           w.state = "reached" => asks[a].state = "unused",
           asks' = [asks EXCEPT ![a] = w],
           UNCHANGED <<pending, armed>>
    PROVE  AsksOK'
  <1> USE DEF AsksOK
  <1>1. \A b \in Asks : b # a => asks'[b] = asks[b]
    OBVIOUS
  <1>2. asks'[a] = w /\ asks' \in [Asks -> AskType]
    OBVIOUS
  <1>3. RegisteredOpen'
    BY <1>1 DEF RegisteredOpen
  <1>4. LoneAskKept'
    <2> SUFFICES ASSUME NEW b \in Asks, asks'[b].state = "open",
                        \A c \in Asks \ {b} : c[1] = b[1] =>
                            asks'[c].state \in {"unused", "reached"}
                 PROVE  pending[b[1]] = b
      BY DEF LoneAskKept, Rivals
    <2>1. b # a /\ asks[b].state = "open"
      BY <1>1, <1>2
    <2>2. \A c \in Asks \ {b} : c[1] = b[1] => asks[c].state \in {"unused", "reached"}
      BY <1>1, <1>2, <2>1
    <2> QED
      BY <2>1, <2>2 DEF LoneAskKept, Rivals
  <1>5. ArmedAsked'
    BY <1>1, <1>2 DEF ArmedAsked
  <1> QED
    BY <1>2, <1>3, <1>4, <1>5

LEMMA AsksStep ==
    ASSUME IInv, Next
    PROVE  AsksOK'
  <1>0. AsksOK /\ TypeOK
    BY DEF IInv, AsksOK, TypeOK, AskType
  <1>z. 0 \in 0..MaxRounds /\ \A r \in Rounds : r \in 0..MaxRounds
    BY GateAssumption DEF Rounds
  <1>1. ASSUME NEW r \in Rounds, NEW v \in {"approved", "rejected", "chat"}, Message(r, v)
        PROVE  AsksOK'
    <2>1. CASE UNCHANGED <<asks, pending>>
      BY <1>0, <1>1, <2>1 DEF Message, AsksOK, RegisteredOpen, LoneAskKept, Rivals, ArmedAsked
    <2>2. CASE v \in {"approved", "rejected"} /\ asks' = Resolve(Registered, v)
               /\ pending' = [n \in Nodes |-> None]
      BY <1>0, <1>z, <1>1, <2>2, ResolveAll DEF Message
    <2> QED
      BY <1>1, <2>1, <2>2 DEF Message
  <1>2. ASSUME NEW r \in Rounds, TeamStarts(r) \/ Call(r) PROVE AsksOK'
    BY <1>0, <1>2, ResolveAll DEF TeamStarts, Call, Swap
  <1>3. ASSUME NEW r \in Rounds, NEW a \in Asks, Reach(r, a) PROVE AsksOK'
    <2>1. [round |-> r, state |-> "reached"] \in AskType
      BY <1>z DEF AskType, AskStates
    <2> QED
      BY <1>0, <1>3, <2>1, OtherMove DEF Reach
  <1>4. ASSUME NEW n \in Nodes, NEW v \in {"approved", "rejected"}, Decide(n, v)
        PROVE  AsksOK'
    <2>1. PICK d \in Asks : pending[n] = d /\ d[1] = n
      BY <1>0, <1>4 DEF Decide, AsksOK, RegisteredOpen
    <2>2. asks' = Resolve({d}, v) /\ pending' = [pending EXCEPT ![n] = None]
          /\ armed' \subseteq armed
      BY <1>4, <2>1 DEF Decide
    <2> QED
      BY <1>0, <2>1, <2>2, DropEntry
  <1>5. ASSUME NEW a \in Asks, Ask(a) PROVE AsksOK'
    <2>0. a[1] \in Nodes /\ asks[a] \in AskType /\ a # None
      BY <1>0, GateAssumption DEF Asks, AsksOK
    <2>1. /\ asks' = [asks EXCEPT ![a].state = "open"] /\ asks[a].state = "reached"
          /\ pending' = [pending EXCEPT ![a[1]] = a] /\ armed' = armed \cup {a}
      BY <1>5 DEF Ask
    <2>2. asks' \in [Asks -> AskType] /\ asks'[a].state = "open"
      BY <1>0, <2>0, <2>1 DEF AsksOK, AskType, AskStates
    <2>3. \A b \in Asks \ {a} : asks'[b] = asks[b]
      BY <1>0, <2>1 DEF AsksOK
    <2>4. pending' \in [Nodes -> Asks \cup {None}] /\ armed' \subseteq Asks
      BY <1>0, <2>0, <2>1 DEF AsksOK
    <2>5. RegisteredOpen'
      <3> SUFFICES ASSUME NEW m \in Nodes, pending'[m] # None
                   PROVE  pending'[m][1] = m /\ asks'[pending'[m]].state = "open"
        BY DEF RegisteredOpen
      <3>1. CASE m = a[1]
        BY <1>0, <2>0, <2>1, <2>2, <3>1 DEF AsksOK
      <3>2. CASE m # a[1]
        <4>1. pending'[m] = pending[m] /\ pending[m] \in Asks
          BY <1>0, <2>1, <3>2 DEF AsksOK
        <4>2. pending[m][1] = m /\ asks[pending[m]].state = "open"
          BY <1>0, <4>1 DEF AsksOK, RegisteredOpen
        <4> QED
          BY <2>3, <3>2, <4>1, <4>2
      <3> QED
        BY <3>1, <3>2
    <2>6. LoneAskKept'
      <3> SUFFICES ASSUME NEW b \in Asks, asks'[b].state = "open",
                          \A c \in Asks \ {b} : c[1] = b[1] =>
                              asks'[c].state \in {"unused", "reached"}
                   PROVE  pending'[b[1]] = b
        BY DEF LoneAskKept, Rivals
      <3>1. CASE b = a
        BY <1>0, <2>0, <2>1, <3>1 DEF AsksOK
      <3>2. CASE b # a
        <4>1. a[1] # b[1]
          BY <2>2, <3>2
        <4>2. \A c \in Asks \ {b} : c[1] = b[1] => asks[c].state \in {"unused", "reached"}
          BY <2>3, <4>1
        <4>3. pending[b[1]] = b
          BY <1>0, <2>3, <3>2, <4>2 DEF AsksOK, LoneAskKept, Rivals
        <4>4. b[1] \in Nodes
          BY DEF Asks
        <4> QED
          BY <1>0, <2>1, <4>1, <4>3, <4>4 DEF AsksOK
      <3> QED
        BY <3>1, <3>2
    <2>7. ArmedAsked'
      BY <1>0, <2>1, <2>2, <2>3 DEF AsksOK, ArmedAsked
    <2> QED
      BY <2>2, <2>4, <2>5, <2>6, <2>7 DEF AsksOK
  <1>6. ASSUME NEW a \in Asks, TimedOut(a) PROVE AsksOK'
    <2>0. a[1] \in Nodes /\ armed' \subseteq armed
      BY <1>6 DEF Asks, TimedOut
    <2>1. asks[a].state \notin {"unused", "reached"}
      BY <1>0, <1>6 DEF TimedOut, AsksOK, ArmedAsked
    <2>2. CASE pending[a[1]] # None
      <3>1. asks' = Resolve({a}, "rejected")
            /\ pending' = [pending EXCEPT ![a[1]] = None]
        BY <1>6, <2>2 DEF TimedOut
      <3> QED
        BY <1>0, <2>0, <2>1, <3>1, DropEntry
    <2>3. CASE pending[a[1]] = None
      <3>1. pending' = pending /\ asks' = asks
        BY <1>0, <1>6, <2>3 DEF TimedOut, AsksOK
      <3> QED
        BY <1>0, <2>0, <3>1 DEF AsksOK, RegisteredOpen, LoneAskKept, Rivals, ArmedAsked
    <2> QED
      BY <2>2, <2>3
  <1>7. ASSUME NEW a \in Asks, Woken(a) \/ Returned(a) PROVE AsksOK'
    <2> DEFINE w == [asks[a] EXCEPT !.state =
                         IF asks[a].round \in aborted THEN "aborted"
                         ELSE IF asks[a].state = "approved" THEN "running" ELSE "ran"]
    <2>1. asks[a] \in AskType
      BY <1>0 DEF AsksOK
    <2>2. w \in AskType /\ w.state \notin {"open", "unused", "reached"}
      BY <2>1 DEF AskType, AskStates
    <2>3. asks' = [asks EXCEPT ![a] = w] /\ asks[a].state # "open"
      BY <1>0, <1>7, <2>1 DEF Woken, Returned, AsksOK, AskType
    <2>4. UNCHANGED <<pending, armed>>
      BY <1>7 DEF Woken, Returned
    <2> HIDE DEF w
    <2> QED
      BY <1>0, <2>2, <2>3, <2>4, OtherMove
  <1>8. ASSUME UNCHANGED <<asks, pending, armed>> PROVE AsksOK'
    BY <1>0, <1>8 DEF AsksOK, RegisteredOpen, LoneAskKept, Rivals, ArmedAsked
  <1> QED
    BY <1>1, <1>2, <1>3, <1>4, <1>5, <1>6, <1>7, <1>8 DEF Next, TeamEnds, CallReturns, SerialEnds, SerialLeaves, Fails, Stop

\* The gate's invariant, for every team and any number of rounds and asks.
THEOREM Invariance == Spec => []IInv
  <1>1. IInv /\ [Next]_vars => IInv'
    <2> SUFFICES ASSUME IInv, [Next]_vars PROVE IInv'
      OBVIOUS
    <2>1. CASE Next
      <3>1. RoundsOK' /\ AsksOK'
        BY <2>1, RoundsStep, AsksStep DEF IInv
      <3> QED
        BY <3>1 DEF RoundsOK, AsksOK, IInv, TypeOK, AskType
    <2>2. CASE UNCHANGED vars
      BY <2>2 DEF vars, IInv, TypeOK, OneLiveRound, Spending, RegisteredOpen, LoneAskKept,
         Rivals, ArmedAsked
    <2> QED
      BY <2>1, <2>2
  <1> QED
    BY InitIInv, <1>1, PTL DEF Spec

\* The variables of the gate keep their types.
THEOREM TypeCorrect == Spec => []TypeOK
  BY Invariance, PTL DEF IInv

\* The stop button and the next message reach the one round that spends,
\* unless the end of a serial round hid it from them.
THEOREM OneRoundReachable == Spec => []OneLiveRound
  BY Invariance, PTL DEF IInv

\* What pendingApprovals holds is a node that waits: no decision is wasted.
THEOREM DecisionsCount == Spec => []RegisteredOpen
  BY Invariance, PTL DEF IInv

\* A node asked about once can be decided for as long as it waits.
THEOREM LoneAskDecidable == Spec => []LoneAskKept
  BY Invariance, PTL DEF IInv

(***************************************************************************)
(* A promise that still waits loses its resolver in two ways only: another *)
(* ask of its node overwrites the entry, or the timer of another one,      *)
(* which nobody cleared, deletes it.                                       *)
(***************************************************************************)
OnlyRivalsTake ==
    \A a \in Asks :
        pending[a[1]] = a /\ asks'[a].state = "open" /\ pending'[a[1]] # a
        => \E b \in Asks \ {a} : b[1] = a[1] /\ (Ask(b) \/ TimedOut(b))

(***************************************************************************)
(* What can make "the approval promise never hangs" (groups-chat.ts:281)   *)
(* untrue, for any team and any number of rounds, reworks and asks: no     *)
(* message, round, stop button, decision or timer of its own leaves a      *)
(* promise waiting without its resolver, only those two steps of another   *)
(* ask (groups-chat.ts:283-292).                                           *)
(***************************************************************************)
THEOREM OnlyRivalsMakeHang == Spec => [][OnlyRivalsTake]_vars
  <1>1. ASSUME IInv, Next PROVE OnlyRivalsTake
    <2> SUFFICES ASSUME NEW a \in Asks, pending[a[1]] = a,
                        asks'[a].state = "open", pending'[a[1]] # a
                 PROVE  \E b \in Asks \ {a} : b[1] = a[1] /\ (Ask(b) \/ TimedOut(b))
      BY DEF OnlyRivalsTake
    <2>0. /\ TypeOK /\ a[1] \in Nodes /\ a # None /\ a \in Registered
          /\ pending \in [Nodes -> Asks \cup {None}]
          /\ asks[a].state = "open"
      BY <1>1, GateAssumption DEF IInv, TypeOK, RegisteredOpen, Asks, Registered
    \* Whoever settles the promise does not leave it open.
    <2>1. ASSUME NEW A \in SUBSET Asks, NEW v \in {"approved", "rejected"},
                 asks' = Resolve(A, v), a \in A
          PROVE  FALSE
      BY <2>0, <2>1, ResolveType
    <2>2. ASSUME NEW r \in Rounds, NEW v \in {"approved", "rejected", "chat"}, Message(r, v)
          PROVE  FALSE
      BY <2>0, <2>1, <2>2 DEF Message, Registered
    <2>3. ASSUME NEW r \in Rounds, Swap(r) PROVE FALSE
      BY <2>0, <2>1, <2>3 DEF Swap, Registered
    <2>4. ASSUME NEW n \in Nodes, NEW v \in {"approved", "rejected"}, Decide(n, v)
          PROVE  FALSE
      <3>1. n = a[1]
        BY <2>0, <2>4 DEF Decide
      <3>2. asks' = Resolve({a}, v)
        BY <2>4, <3>1 DEF Decide
      <3> QED
        BY <2>1, <3>2
    <2>5. ASSUME NEW b \in Asks, Ask(b)
          PROVE  b # a /\ b[1] = a[1]
      <3>1. asks[b].state = "reached"
        BY <2>5 DEF Ask
      <3> QED
        BY <2>0, <2>5, <3>1 DEF Ask
    <2>6. ASSUME NEW b \in Asks, TimedOut(b)
          PROVE  b # a /\ b[1] = a[1]
      <3>1. b[1] = a[1]
        BY <2>0, <2>6 DEF TimedOut
      <3>2. b # a
        <4> SUFFICES ASSUME b = a PROVE FALSE
          OBVIOUS
        <4>1. asks' = Resolve({a}, "rejected")
          BY <2>0, <2>6 DEF TimedOut
        <4> QED
          BY <2>1, <4>1
      <3> QED
        BY <3>1, <3>2
    <2>7. ~UNCHANGED pending
      BY <2>0
    <2> QED
      BY <1>1, <2>2, <2>3, <2>4, <2>5, <2>6, <2>7
      DEF Next, TeamStarts, TeamEnds, Call, CallReturns, SerialEnds, SerialLeaves, Fails,
          Reach, Stop, Woken, Returned
  <1>2. [Next]_vars /\ IInv => [OnlyRivalsTake]_vars
    BY <1>1
  <1> QED
    BY Invariance, <1>2, PTL DEF Spec

-----------------------------------------------------------------------------
(* The cards of handovers.                                                  *)

Patch == {"running"} \cup Outcomes
Entry == Hops \X ({"pending"} \cup Patch)

(* An event log continued by more entries. *)
Extends(new, old) ==
    /\ new \in Seq(Entry)
    /\ Len(old) <= Len(new)
    /\ \A i \in DOMAIN old : new[i] = old[i]

(* ... all of them patches of a hop's card. *)
Patched(new, old, h) ==
    /\ Extends(new, old)
    /\ \A i \in DOMAIN new : i > Len(old) => new[i][1] = h /\ new[i][2] # "pending"

(* Every entry has the frame of its card at or before it. *)
Carded(events) ==
    \A i \in DOMAIN events : \E j \in 1..i : events[j] = <<events[i][1], "pending">>

(* FrameFirst of any log. *)
Framed(events) ==
    /\ Carded(events)
    /\ \A i \in DOMAIN events :
          (events[i][2] = "pending") <=> (\A j \in 1..(i - 1) : events[j][1] # events[i][1])

HasCard(events, h) == \E i \in DOMAIN events : events[i][1] = h

(* While a run goes on, nothing follows how a hop was settled. *)
LastWord(events, h) ==
    \A i \in DOMAIN events :
        events[i][1] = h /\ events[i][2] \in Outcomes
        => \A j \in DOMAIN events : j > i => events[j][1] # h

(* Once it has ended, a hop's card shows how it was settled. *)
Closes(events, h) ==
    \A i \in DOMAIN events : events[i][1] = h
        => \E j \in DOMAIN events : j >= i /\ events[j][1] = h /\ events[j][2] \in Outcomes

HopTypeOK ==
    /\ row \in [Hops -> {"none", "pending"} \cup Patch]
    /\ ready \in SUBSET Hops
    /\ queue \in [Hops -> Seq(Patch)]
    /\ log \in Seq(Entry)
    /\ disk \in [log : Seq(Entry), finished : BOOLEAN]
    /\ finished \in BOOLEAN /\ restarted \in BOOLEAN

(* A card waits for its frame, and its patches with it. *)
Waits ==
    \A h \in Hops : /\ HasCard(log, h) <=> h \in ready
                    /\ h \in ready => queue[h] = <<>>

(* What is shown and what is queued agree with the row. *)
Agrees ==
    \A h \in Hops \ again :
        /\ LastWord(log, h)
        /\ \A i \in DOMAIN log : log[i][1] = h /\ log[i][2] \in Outcomes => row[h] \in Outcomes
        /\ \A i \in DOMAIN queue[h] : queue[h][i] \in Outcomes
                                      => row[h] \in Outcomes /\ i = Len(queue[h])

Flushed ==
    /\ Framed(disk.log)
    /\ IF disk.finished THEN \A h \in Hops \ (again \cup late) : Closes(disk.log, h)
                        ELSE \A h \in Hops \ again : LastWord(disk.log, h)

(* The inductive invariant. *)
HopInv ==
    /\ HopTypeOK /\ Framed(log) /\ Flushed
    /\ ~restarted => Waits
    /\ ~finished => Agrees
    /\ finished => \A h \in Hops \ (again \cup late) : Closes(log, h)
    /\ restarted => finished /\ \A h \in Hops : row[h] \notin {"pending", "running"}

-----------------------------------------------------------------------------
LEMMA StatusesApart == Outcomes \cap {"none", "pending", "running"} = {} /\ "aborted" \in Outcomes
BY HopAssumption

(* Continuing a log.                                                        *)
LEMMA AppendExtends ==
    ASSUME NEW old \in Seq(Entry), NEW e \in Entry
    PROVE  /\ Extends(Append(old, e), old)
           /\ Len(Append(old, e)) = Len(old) + 1
           /\ Append(old, e)[Len(old) + 1] = e
BY DEF Extends

LEMMA JoinExtends ==
    ASSUME NEW old \in Seq(Entry), NEW more \in Seq(Entry)
    PROVE  /\ Extends(old \o more, old)
           /\ Len(old \o more) = Len(old) + Len(more)
           /\ \A i \in DOMAIN (old \o more) : i > Len(old) =>
                 i - Len(old) \in DOMAIN more /\ (old \o more)[i] = more[i - Len(old)]
           /\ \A k \in DOMAIN more : /\ Len(old) + k \in DOMAIN (old \o more)
                                     /\ (old \o more)[Len(old) + k] = more[k]
BY DEF Extends

(* Patches after the frame. *)
LEMMA PatchedFramed ==
    ASSUME NEW old \in Seq(Entry), NEW new, NEW h \in Hops, Patched(new, old, h),
           Framed(old), HasCard(old, h)
    PROVE  Framed(new)
<1>1. /\ new \in Seq(Entry) /\ Len(old) <= Len(new) /\ \A k \in DOMAIN old : new[k] = old[k]
      /\ \A i \in DOMAIN new : i > Len(old) => new[i][1] = h /\ new[i][2] # "pending"
  BY DEF Patched, Extends
<1>a. PICK f \in DOMAIN old : old[f] = <<h, "pending">>
  <2>1. PICK k \in DOMAIN old : old[k][1] = h
    BY DEF HasCard
  <2>2. PICK j \in 1..k : old[j] = <<h, "pending">>
    BY <2>1 DEF Framed, Carded
  <2>3. j \in DOMAIN old
    BY <2>2
  <2> QED BY <2>2, <2>3
<1>c. Carded(new)
  <2> SUFFICES ASSUME NEW i \in DOMAIN new
               PROVE  \E j \in 1..i : new[j] = <<new[i][1], "pending">>
    BY DEF Carded
  <2>1. CASE i <= Len(old)
    <3>1. i \in DOMAIN old /\ new[i] = old[i] /\ \A j \in 1..i : new[j] = old[j]
      BY <1>1, <2>1
    <3> QED BY <3>1 DEF Framed, Carded
  <2>2. CASE i > Len(old)
    <3>1. f \in 1..i /\ new[f] = <<new[i][1], "pending">>
      BY <1>1, <1>a, <2>2
    <3> QED BY <3>1
  <2> QED BY <1>1, <2>1, <2>2
<1> SUFFICES ASSUME NEW i \in DOMAIN new
             PROVE  (new[i][2] = "pending") <=> (\A j \in 1..(i - 1) : new[j][1] # new[i][1])
  BY <1>c DEF Framed
<1>2. CASE i <= Len(old)
  <2>1. i \in DOMAIN old /\ new[i] = old[i] /\ \A j \in 1..(i - 1) : new[j] = old[j]
    BY <1>1, <1>2
  <2> QED BY <2>1 DEF Framed
<1>3. CASE i > Len(old)
  <2>1. PICK k \in DOMAIN old : old[k][1] = h
    BY DEF HasCard
  <2>2. k \in 1..(i - 1) /\ new[k][1] = new[i][1]
    BY <1>1, <1>3, <2>1
  <2> QED BY <1>1, <1>3, <2>2
<1> QED BY <1>1, <1>2, <1>3

(* The frame, once. *)
LEMMA FrameFramed ==
    ASSUME NEW old \in Seq(Entry), NEW h \in Hops, Framed(old), ~HasCard(old, h)
    PROVE  Framed(Append(old, <<h, "pending">>))
<1> PICK e : e = <<h, "pending">>
  OBVIOUS
<1>1. e \in Entry /\ e[1] = h /\ e[2] = "pending"
  BY DEF Entry
<1> PICK new : new = Append(old, e)
  OBVIOUS
<1>2. /\ Extends(new, old) /\ Len(new) = Len(old) + 1 /\ new[Len(old) + 1] = e
  BY <1>1, AppendExtends
<1>c. Carded(new)
  <2> SUFFICES ASSUME NEW i \in DOMAIN new
               PROVE  \E j \in 1..i : new[j] = <<new[i][1], "pending">>
    BY DEF Carded
  <2>1. CASE i <= Len(old)
    <3>1. i \in DOMAIN old /\ new[i] = old[i] /\ \A j \in 1..i : new[j] = old[j]
      BY <1>2, <2>1 DEF Extends
    <3> QED BY <3>1 DEF Framed, Carded
  <2>2. CASE i > Len(old)
    <3>1. i \in 1..i /\ new[i] = <<new[i][1], "pending">>
      BY <1>1, <1>2, <2>2 DEF Extends
    <3> QED BY <3>1
  <2>3. i <= Len(old) \/ i > Len(old)
    BY <1>2 DEF Extends
  <2> QED BY <2>1, <2>2, <2>3
<1> SUFFICES ASSUME NEW i \in DOMAIN new
             PROVE  (new[i][2] = "pending") <=> (\A j \in 1..(i - 1) : new[j][1] # new[i][1])
  BY <1>c DEF Framed
<1>3. CASE i <= Len(old)
  <2>1. i \in DOMAIN old /\ new[i] = old[i] /\ \A j \in 1..(i - 1) : new[j] = old[j]
    BY <1>2, <1>3 DEF Extends
  <2> QED BY <2>1 DEF Framed
<1>4. CASE i > Len(old)
  <2>1. new[i] = e /\ \A j \in 1..(i - 1) : j \in DOMAIN old /\ new[j] = old[j]
    BY <1>2, <1>4 DEF Extends
  <2> QED BY <1>1, <2>1 DEF HasCard
<1> QED BY <1>2, <1>3, <1>4 DEF Extends

(* Who has a card afterwards. *)
LEMMA PatchedCards ==
    ASSUME NEW old \in Seq(Entry), NEW new, NEW h \in Hops, Patched(new, old, h),
           HasCard(old, h)
    PROVE  \A g \in Hops : HasCard(new, g) <=> HasCard(old, g)
<1>1. /\ new \in Seq(Entry) /\ Len(old) <= Len(new) /\ \A k \in DOMAIN old : new[k] = old[k]
      /\ \A i \in DOMAIN new : i > Len(old) => new[i][1] = h
  BY DEF Patched, Extends
<1> SUFFICES ASSUME NEW g \in Hops PROVE HasCard(new, g) <=> HasCard(old, g)
  OBVIOUS
<1>2. ASSUME HasCard(old, g) PROVE HasCard(new, g)
  BY <1>1, <1>2 DEF HasCard
<1>3. ASSUME HasCard(new, g) PROVE HasCard(old, g)
  <2>1. PICK i \in DOMAIN new : new[i][1] = g
    BY <1>3 DEF HasCard
  <2>2. CASE i > Len(old)
    BY <1>1, <2>1, <2>2
  <2>3. CASE i <= Len(old)
    BY <1>1, <2>1, <2>3 DEF HasCard
  <2> QED BY <1>1, <2>1, <2>2, <2>3
<1> QED BY <1>2, <1>3

LEMMA FrameCards ==
    ASSUME NEW old \in Seq(Entry), NEW h \in Hops
    PROVE  \A g \in Hops : HasCard(Append(old, <<h, "pending">>), g) <=> HasCard(old, g) \/ g = h
<1> PICK e : e = <<h, "pending">>
  OBVIOUS
<1>1. e \in Entry /\ e[1] = h
  BY DEF Entry
<1> PICK new : new = Append(old, e)
  OBVIOUS
<1>2. /\ new \in Seq(Entry) /\ Len(new) = Len(old) + 1 /\ new[Len(old) + 1] = e
      /\ \A i \in DOMAIN old : new[i] = old[i]
  BY <1>1, AppendExtends DEF Extends
<1> SUFFICES ASSUME NEW g \in Hops PROVE HasCard(new, g) <=> HasCard(old, g) \/ g = h
  OBVIOUS
<1>3. ASSUME HasCard(old, g) PROVE HasCard(new, g)
  BY <1>2, <1>3 DEF HasCard
<1>4. ASSUME g = h PROVE HasCard(new, g)
  BY <1>1, <1>2, <1>4 DEF HasCard
<1>5. ASSUME HasCard(new, g), g # h PROVE HasCard(old, g)
  <2>1. PICK i \in DOMAIN new : new[i][1] = g
    BY <1>5 DEF HasCard
  <2>2. i \in DOMAIN old
    BY <1>1, <1>2, <1>5, <2>1
  <2> QED BY <1>2, <2>1, <2>2 DEF HasCard
<1> QED BY <1>3, <1>4, <1>5

(* A continuation with entries of one hop says nothing new of the others. *)
LEMMA OthersSame ==
    ASSUME NEW old \in Seq(Entry), NEW new, NEW h \in Hops, Extends(new, old),
           \A i \in DOMAIN new : i > Len(old) => new[i][1] = h,
           NEW g \in Hops, g # h
    PROVE  /\ \A i \in DOMAIN new : new[i][1] = g => i \in DOMAIN old /\ new[i] = old[i]
           /\ LastWord(old, g) => LastWord(new, g)
           /\ Closes(old, g) => Closes(new, g)
<1>1. /\ new \in Seq(Entry) /\ Len(old) <= Len(new) /\ \A i \in DOMAIN old : new[i] = old[i]
  BY DEF Extends
<1>2. \A i \in DOMAIN new : new[i][1] = g => i \in DOMAIN old /\ new[i] = old[i]
  <2> SUFFICES ASSUME NEW i \in DOMAIN new, new[i][1] = g PROVE i \in DOMAIN old
    BY <1>1
  <2> QED BY <1>1
<1>3. ASSUME LastWord(old, g) PROVE LastWord(new, g)
  BY <1>1, <1>2, <1>3 DEF LastWord
<1>4. ASSUME Closes(old, g) PROVE Closes(new, g)
  <2> SUFFICES ASSUME NEW i \in DOMAIN new, new[i][1] = g
               PROVE  \E j \in DOMAIN new : j >= i /\ new[j][1] = g /\ new[j][2] \in Outcomes
    BY DEF Closes
  <2>1. i \in DOMAIN old /\ old[i][1] = g
    BY <1>2
  <2>2. PICK j \in DOMAIN old : j >= i /\ old[j][1] = g /\ old[j][2] \in Outcomes
    BY <1>4, <2>1 DEF Closes
  <2>3. j \in DOMAIN new /\ new[j] = old[j]
    BY <1>1, <2>2
  <2> QED BY <2>2, <2>3
<1> QED BY <1>2, <1>3, <1>4

(* SetToSeq lists every element of a finite set, and nothing else. *)
LEMMA Enumerated ==
    ASSUME NEW S, IsFiniteSet(S)
    PROVE  /\ Cardinality(S) \in Nat
           /\ SetToSeq(S) \in [1..Cardinality(S) -> S]
           /\ \A x \in S : \E k \in 1..Cardinality(S) : SetToSeq(S)[k] = x
<1>1. /\ Cardinality(S) \in Nat
      /\ ExistsBijection(1..Cardinality(S), S)
  BY FS_CardinalityType
<1> DEFINE n == Cardinality(S)
           F == [1..n -> S]
<1>2. PICK f \in F : IsInjective(f)
  BY <1>1 DEF ExistsBijection, Bijection, Injection, IsInjective
<1>3. SetToSeq(S) \in F /\ IsInjective(SetToSeq(S))
  BY <1>2 DEF SetToSeq
<1>4. SetToSeq(S) \in Injection(1..n, S)
  BY <1>3 DEF Injection, IsInjective
<1>5. Cardinality(1..n) = n
  BY <1>1, FS_Interval
<1>6. SetToSeq(S) \in Surjection(1..n, S)
  BY <1>4, <1>5, FS_Injection
<1> QED BY <1>1, <1>3, <1>6 DEF Surjection


(* The sweep: a card is open if nothing settled it, and then it is closed.   *)
LEMMA ClosedOK ==
    ASSUME NEW events \in Seq(Entry), Framed(events)
    PROVE  /\ Closed(events) \in Seq(Entry)
           /\ Framed(Closed(events))
           /\ \A h \in Hops : HasCard(Closed(events), h) <=> HasCard(events, h)
           /\ \A h \in Hops : LastWord(events, h) => Closes(Closed(events), h)
<1> DEFINE Unsettled == OpenCards(events)
<1>1. Unsettled \subseteq Hops /\ IsFiniteSet(Unsettled)
  <2>1. Unsettled \subseteq Hops
    BY DEF OpenCards
  <2> QED BY <2>1, FS_Subset, HopAssumption
<1>n. PICK n : n = Cardinality(Unsettled)
  OBVIOUS
<1>o. PICK open : open = SetToSeq(Unsettled)
  OBVIOUS
<1>2. /\ n \in Nat /\ open \in [1..n -> Unsettled]
      /\ \A x \in Unsettled : \E k \in 1..n : open[k] = x
  <2> HIDE DEF Unsettled
  <2> QED BY <1>1, <1>n, <1>o, Enumerated
<1>3. PICK more : more = [k \in 1..n |-> <<open[k], "aborted">>]
  OBVIOUS
<1>4. /\ more \in Seq(Entry) /\ Len(more) = n
      /\ \A k \in 1..n : more[k][1] = open[k] /\ more[k][2] = "aborted" /\ open[k] \in Unsettled
  <2>1. \A k \in 1..n : <<open[k], "aborted">> \in Entry
    BY <1>1, <1>2, StatusesApart DEF Entry, Patch
  <2> HIDE DEF Unsettled
  <2> QED BY <1>2, <1>3, <2>1
<1>5. PICK new : new = events \o more
  OBVIOUS
<1>6. Closed(events) = new
  BY <1>2, <1>3, <1>o, <1>5 DEF Closed
<1>7. /\ new \in Seq(Entry) /\ Len(new) = Len(events) + n
      /\ \A i \in DOMAIN events : new[i] = events[i]
      /\ \A i \in DOMAIN new : i > Len(events) => i - Len(events) \in 1..n
                                                  /\ new[i] = more[i - Len(events)]
      /\ \A k \in 1..n : Len(events) + k \in DOMAIN new /\ new[Len(events) + k] = more[k]
  <2>1. DOMAIN more = 1..n
    BY <1>4
  <2>2. /\ Extends(new, events) /\ Len(new) = Len(events) + n
        /\ \A i \in DOMAIN new : i > Len(events) =>
              i - Len(events) \in DOMAIN more /\ new[i] = more[i - Len(events)]
        /\ \A k \in DOMAIN more : Len(events) + k \in DOMAIN new /\ new[Len(events) + k] = more[k]
    BY <1>4, <1>5, JoinExtends
  <2> QED BY <2>1, <2>2 DEF Extends
<1>8. \A h \in Unsettled : HasCard(events, h)
  BY DEF OpenCards, HasCard
<1>9. \A i \in DOMAIN new : i > Len(events) =>
         new[i][1] \in Unsettled /\ new[i][2] = "aborted" /\ "aborted" \in Outcomes
  BY <1>4, <1>7, StatusesApart
<1> HIDE DEF Unsettled
<1>10. Framed(new)
  <2>c. Carded(new)
    <3> SUFFICES ASSUME NEW i \in DOMAIN new
                 PROVE  \E j \in 1..i : new[j] = <<new[i][1], "pending">>
      BY DEF Carded
    <3>1. CASE i <= Len(events)
      <4>1. i \in DOMAIN events /\ new[i] = events[i] /\ \A j \in 1..i : new[j] = events[j]
        BY <1>7, <3>1
      <4> QED BY <4>1 DEF Framed, Carded
    <3>2. CASE i > Len(events)
      <4>1. PICK k \in DOMAIN events : events[k] = <<new[i][1], "pending">>
        BY <1>9, <3>2 DEF Unsettled, OpenCards
      <4>2. k \in 1..i /\ new[k] = events[k]
        BY <1>7, <3>2, <4>1
      <4> QED BY <4>1, <4>2
    <3> QED BY <1>7, <3>1, <3>2
  <2> SUFFICES ASSUME NEW i \in DOMAIN new
               PROVE  (new[i][2] = "pending") <=> (\A j \in 1..(i - 1) : new[j][1] # new[i][1])
    BY <2>c DEF Framed
  <2>1. CASE i <= Len(events)
    <3>1. i \in DOMAIN events /\ new[i] = events[i] /\ \A j \in 1..(i - 1) : new[j] = events[j]
      BY <1>7, <2>1
    <3> QED BY <3>1 DEF Framed
  <2>2. CASE i > Len(events)
    <3>1. PICK k \in DOMAIN events : events[k][1] = new[i][1]
      BY <1>8, <1>9, <2>2 DEF HasCard
    <3>2. k \in 1..(i - 1) /\ new[k][1] = new[i][1]
      BY <1>7, <2>2, <3>1
    <3>3. new[i][2] # "pending"
      BY <1>9, <2>2
    <3> QED BY <3>2, <3>3
  <2> QED BY <1>7, <2>1, <2>2
<1>11. ASSUME NEW h \in Hops PROVE HasCard(new, h) <=> HasCard(events, h)
  <2>1. ASSUME HasCard(events, h) PROVE HasCard(new, h)
    <3>1. PICK i \in DOMAIN events : events[i][1] = h
      BY <2>1 DEF HasCard
    <3>2. i \in DOMAIN new /\ new[i] = events[i]
      BY <1>4, <1>7
    <3> QED BY <3>1, <3>2 DEF HasCard
  <2>2. ASSUME HasCard(new, h) PROVE HasCard(events, h)
    <3>1. PICK i \in DOMAIN new : new[i][1] = h
      BY <2>2 DEF HasCard
    <3>2. CASE i > Len(events)
      BY <1>8, <1>9, <3>1, <3>2
    <3>3. CASE i <= Len(events)
      BY <1>7, <3>1, <3>3 DEF HasCard
    <3> QED BY <1>7, <3>1, <3>2, <3>3
  <2> QED BY <2>1, <2>2
<1>12. ASSUME NEW h \in Hops, LastWord(events, h) PROVE Closes(new, h)
  <2> SUFFICES ASSUME NEW i \in DOMAIN new, new[i][1] = h
               PROVE  \E j \in DOMAIN new : j >= i /\ new[j][1] = h /\ new[j][2] \in Outcomes
    BY DEF Closes
  <2>1. CASE i > Len(events)
    <3>1. i >= i /\ new[i][2] \in Outcomes
      BY <1>7, <1>9, <2>1
    <3> QED BY <3>1
  <2>2. CASE i <= Len(events)
    <3>1. i \in DOMAIN events /\ events[i][1] = h
      BY <1>7, <2>2
    <3>2. CASE \E j \in DOMAIN events : events[j][1] = h /\ events[j][2] \in Outcomes
      <4>1. PICK j \in DOMAIN events : events[j][1] = h /\ events[j][2] \in Outcomes
        BY <3>2
      <4>2. j >= i
        BY <1>12, <3>1, <4>1 DEF LastWord
      <4>3. j \in DOMAIN new /\ new[j] = events[j]
        BY <1>4, <1>7, <4>1
      <4> QED BY <4>1, <4>2, <4>3
    <3>3. CASE \A j \in DOMAIN events : events[j][1] = h => events[j][2] \notin Outcomes
      <4>1. PICK j \in 1..i : events[j] = <<h, "pending">>
        BY <3>1 DEF Framed, Carded
      <4>0. j \in DOMAIN events
        BY <3>1, <4>1
      <4>2. h \in Unsettled
        BY <3>3, <4>0, <4>1 DEF Unsettled, OpenCards
      <4>3. PICK k \in 1..n : open[k] = h
        BY <1>2, <4>2
      <4>4. /\ Len(events) + k \in DOMAIN new /\ new[Len(events) + k][1] = h
            /\ new[Len(events) + k][2] \in Outcomes
        BY <1>4, <1>7, <4>3, StatusesApart
      <4>5. Len(events) + k >= i
        BY <2>2, <1>7
      <4> QED BY <4>4, <4>5
    <3> QED BY <3>2, <3>3
  <2> QED BY <1>7, <2>1, <2>2
<1> QED BY <1>6, <1>7, <1>10, <1>11, <1>12

-----------------------------------------------------------------------------
(* The invariant, step by step.                                             *)
LEMMA HopInitOK == HopInit => HopInv
<1> SUFFICES ASSUME HopInit PROVE HopInv
  OBVIOUS
<1> USE DEF HopInit
<1>1. HopTypeOK
  <2>1. <<>> \in Seq(Entry) /\ <<>> \in Seq(Patch)
    OBVIOUS
  <2>2. disk \in [log : Seq(Entry), finished : BOOLEAN]
    BY <2>1
  <2> QED BY <2>1, <2>2 DEF HopTypeOK
<1>2. DOMAIN log = {} /\ DOMAIN disk.log = {} /\ \A h \in Hops : DOMAIN queue[h] = {}
  OBVIOUS
<1>3. Framed(log) /\ Framed(disk.log)
  BY <1>2 DEF Framed, Carded
<1>4. \A h \in Hops : LastWord(log, h) /\ LastWord(disk.log, h) /\ ~HasCard(log, h)
  BY <1>2 DEF LastWord, HasCard
<1>5. Flushed
  BY <1>3, <1>4 DEF Flushed
<1>6. Waits
  BY <1>4 DEF Waits
<1>7. Agrees
  BY <1>2, <1>4 DEF Agrees
<1> QED BY <1>1, <1>3, <1>5, <1>6, <1>7 DEF HopInv

LEMMA OpenOK == ASSUME HopInv, NEW h \in Hops, Open(h) PROVE HopInv'
<1> USE DEF HopInv, Open
<1>0. /\ row' \in [Hops -> {"none", "pending"} \cup Patch]
      /\ row[h] \notin Outcomes /\ \A g \in Hops : g # h => row'[g] = row[g]
  BY StatusesApart DEF HopTypeOK
<1>1. HopTypeOK'
  BY <1>0 DEF HopTypeOK, durable
<1>2. Framed(log)' /\ Flushed'
  BY DEF Flushed, durable
<1>3. Waits'
  BY DEF Waits, durable
<1>4. ASSUME ~finished PROVE Agrees'
  BY <1>0, <1>4 DEF Agrees, durable
<1> QED BY <1>1, <1>2, <1>3, <1>4 DEF durable

(* start and settle: the card says no more than the row, or the hop had been *)
(* settled already.                                                          *)
LEMMA CallOK ==
    ASSUME HopInv, NEW h \in Hops, NEW s \in Patch, NEW r \in {"pending"} \cup Patch,
           Called(h), PushPatch(h, s), row' = [row EXCEPT ![h] = r],
           s \in Outcomes \/ row[h] \in Outcomes => r \in Outcomes,
           UNCHANGED <<ready, finished, durable>>
    PROVE  HopInv'
<1> PICK e : e = <<h, s>>
  OBVIOUS
<1>0. /\ e \in Entry /\ e[1] = h /\ e[2] = s /\ s # "pending"
      /\ ~restarted /\ UNCHANGED <<disk, restarted>>
      /\ \A g \in Hops : g # h => row'[g] = row[g]
      /\ row'[h] = r
  BY StatusesApart DEF Entry, Patch, Called, HopInv, HopTypeOK, durable
<1>1. again \subseteq again' /\ late \subseteq late'
      /\ (row[h] \in Outcomes => h \in again') /\ (finished => h \in late')
  BY DEF Called, Late
<1>t. /\ row' \in [Hops -> {"none", "pending"} \cup Patch]
      /\ ready' \in SUBSET Hops
      /\ disk' \in [log : Seq(Entry), finished : BOOLEAN]
      /\ finished' \in BOOLEAN /\ restarted' \in BOOLEAN
  BY <1>0 DEF HopInv, HopTypeOK
<1>2. Flushed'
  BY <1>0, <1>1 DEF HopInv, Flushed
<1>3. CASE h \in ready
  <2>1. log' = Append(log, e) /\ queue' = queue
    BY <1>3 DEF PushPatch
  <2>2. /\ Extends(log', log) /\ Len(log') = Len(log) + 1 /\ log'[Len(log) + 1] = e
    BY <1>0, <2>1, AppendExtends DEF HopInv, HopTypeOK
  <2>3. log' \in Seq(Entry) /\ log \in Seq(Entry) /\ \A i \in DOMAIN log : log'[i] = log[i]
    BY <2>2 DEF Extends, HopInv, HopTypeOK
  <2>4. \A i \in DOMAIN log' : i > Len(log) => i = Len(log') /\ log'[i] = e
    BY <2>2, <2>3
  <2>5. Patched(log', log, h)
    BY <1>0, <2>2, <2>4 DEF Patched
  <2>6. HasCard(log, h)
    BY <1>0, <1>3 DEF HopInv, Waits
  <2>7. Framed(log')
    BY <2>3, <2>5, <2>6, PatchedFramed DEF HopInv
  <2>8. Waits'
    BY <1>0, <2>1, <2>3, <2>5, <2>6, PatchedCards DEF HopInv, Waits
  <2>9. ASSUME NEW g \in Hops, g # h
        PROVE  /\ \A i \in DOMAIN log' : log'[i][1] = g => i \in DOMAIN log /\ log'[i] = log[i]
               /\ LastWord(log, g) => LastWord(log', g)
               /\ Closes(log, g) => Closes(log', g)
    BY <1>0, <2>2, <2>3, <2>4, <2>9, OthersSame
  <2>10. ASSUME ~finished PROVE Agrees'
    <3> SUFFICES ASSUME NEW g \in Hops, g \notin again'
                 PROVE  /\ LastWord(log', g)
                        /\ \A i \in DOMAIN log' : log'[i][1] = g /\ log'[i][2] \in Outcomes
                                                  => row'[g] \in Outcomes
                        /\ \A i \in DOMAIN queue'[g] : queue'[g][i] \in Outcomes
                              => row'[g] \in Outcomes /\ i = Len(queue'[g])
      BY DEF Agrees
    <3>1. /\ LastWord(log, g)
          /\ \A i \in DOMAIN log : log[i][1] = g /\ log[i][2] \in Outcomes => row[g] \in Outcomes
          /\ \A i \in DOMAIN queue[g] : queue[g][i] \in Outcomes
                                        => row[g] \in Outcomes /\ i = Len(queue[g])
      BY <1>1, <2>10 DEF HopInv, Agrees
    <3>2. CASE g # h
      BY <1>0, <2>1, <2>9, <3>1, <3>2
    <3>3. CASE g = h
      <4>1. row[h] \notin Outcomes
        BY <1>1, <3>3
      <4>2. \A i \in DOMAIN log' : log'[i][1] = h /\ log'[i][2] \in Outcomes
                                   => i = Len(log') /\ s \in Outcomes
        <5> SUFFICES ASSUME NEW i \in DOMAIN log', log'[i][1] = h, log'[i][2] \in Outcomes
                     PROVE  i = Len(log') /\ s \in Outcomes
          OBVIOUS
        <5>1. CASE i > Len(log)
          BY <1>0, <2>4, <5>1
        <5>2. CASE i <= Len(log)
          <6>1. i \in DOMAIN log /\ log'[i] = log[i]
            BY <2>3, <5>2
          <6> QED BY <3>1, <3>3, <4>1, <6>1
        <5> QED BY <2>3, <5>1, <5>2
      <4>3. LastWord(log', h)
        <5> SUFFICES ASSUME NEW i \in DOMAIN log', log'[i][1] = h, log'[i][2] \in Outcomes,
                            NEW j \in DOMAIN log', j > i
                     PROVE  FALSE
          BY DEF LastWord
        <5> QED BY <2>3, <4>2
      <4>4. \A i \in DOMAIN queue[h] : queue[h][i] \notin Outcomes
        BY <3>1, <3>3, <4>1
      <4> QED BY <1>0, <2>1, <3>3, <4>2, <4>3, <4>4
    <3> QED BY <3>2, <3>3
  <2>11. ASSUME finished PROVE \A g \in Hops \ (again' \cup late') : Closes(log', g)
    BY <1>1, <2>9, <2>11 DEF HopInv
  <2>12. HopTypeOK'
    BY <1>t, <2>1, <2>3 DEF HopInv, HopTypeOK
  <2> QED BY <1>0, <1>2, <2>7, <2>8, <2>10, <2>11, <2>12 DEF HopInv
<1>4. CASE h \notin ready
  <2>1. /\ log' = log /\ queue' = [queue EXCEPT ![h] = Append(@, s)]
    BY <1>4 DEF PushPatch
  <2>2. /\ queue' \in [Hops -> Seq(Patch)]
        /\ queue[h] \in Seq(Patch) /\ queue'[h] = Append(queue[h], s)
        /\ \A g \in Hops : g # h => queue'[g] = queue[g]
    BY <2>1 DEF HopInv, HopTypeOK
  <2>3. HopTypeOK'
    BY <1>t, <2>1, <2>2 DEF HopInv, HopTypeOK
  <2>4. Waits'
    BY <1>0, <1>4, <2>1, <2>2 DEF HopInv, Waits
  <2>5. ASSUME ~finished PROVE Agrees'
    <3> SUFFICES ASSUME NEW g \in Hops, g \notin again'
                 PROVE  /\ LastWord(log, g)
                        /\ \A i \in DOMAIN log : log[i][1] = g /\ log[i][2] \in Outcomes
                                                 => row'[g] \in Outcomes
                        /\ \A i \in DOMAIN queue'[g] : queue'[g][i] \in Outcomes
                              => row'[g] \in Outcomes /\ i = Len(queue'[g])
      BY <2>1 DEF Agrees
    <3>1. /\ LastWord(log, g)
          /\ \A i \in DOMAIN log : log[i][1] = g /\ log[i][2] \in Outcomes => row[g] \in Outcomes
          /\ \A i \in DOMAIN queue[g] : queue[g][i] \in Outcomes
                                        => row[g] \in Outcomes /\ i = Len(queue[g])
      BY <1>1, <2>5 DEF HopInv, Agrees
    <3>2. CASE g # h
      BY <1>0, <2>2, <3>1, <3>2
    <3>3. CASE g = h
      <4>1. row[h] \notin Outcomes
        BY <1>1, <3>3
      <4>2. \A i \in DOMAIN queue'[h] : \/ i = Len(queue'[h])
                                           \/ (i \in DOMAIN queue[h] /\ queue'[h][i] = queue[h][i])
        BY <2>2
      <4>3. queue'[h][Len(queue'[h])] = s
        BY <2>2
      <4> QED BY <1>0, <3>1, <3>3, <4>1, <4>2, <4>3
    <3> QED BY <3>2, <3>3
  <2>6. ASSUME finished PROVE \A g \in Hops \ (again' \cup late') : Closes(log', g)
    BY <1>1, <2>1, <2>6 DEF HopInv
  <2> QED BY <1>0, <1>2, <2>1, <2>3, <2>4, <2>5, <2>6 DEF HopInv
<1> QED BY <1>3, <1>4

LEMMA StartOK == ASSUME HopInv, NEW h \in Hops, Start(h) PROVE HopInv'
<1> DEFINE r == IF row[h] = "pending" THEN "running" ELSE row[h]
<1>1. r \in {"pending"} \cup Patch /\ "running" \in Patch /\ "running" \notin Outcomes
  BY StatusesApart DEF Start, Called, HopInv, HopTypeOK, Patch
<1>2. row[h] \in Outcomes => r \in Outcomes
  BY StatusesApart
<1>3. row' = [row EXCEPT ![h] = r]
  BY DEF Start
<1> HIDE DEF r
<1> QED BY <1>1, <1>2, <1>3, CallOK DEF Start

LEMMA SettleOK ==
    ASSUME HopInv, NEW h \in Hops, NEW status \in Outcomes, Settle(h, status) PROVE HopInv'
<1> DEFINE r == IF row[h] \in Outcomes THEN row[h] ELSE status
<1>1. r \in {"pending"} \cup Patch /\ r \in Outcomes /\ status \in Patch
  BY DEF Patch
<1>2. row' = [row EXCEPT ![h] = r]
  BY DEF Settle
<1> HIDE DEF r
<1> QED BY <1>1, <1>2, CallOK DEF Settle

(* The frame goes out with what was queued behind it. *)
LEMMA ResolvedOK == ASSUME HopInv, NEW h \in Hops, Resolved(h) PROVE HopInv'
<1>m. PICK more : more = [i \in DOMAIN queue[h] |-> <<h, queue[h][i]>>]
  OBVIOUS
<1>d. PICK mid : mid = Append(log, <<h, "pending">>)
  OBVIOUS
<1>o. PICK old : old = log
  OBVIOUS
<1>n. PICK new : new = log'
  OBVIOUS
<1>0. /\ ~restarted /\ h \notin ready /\ new = mid \o more
      /\ ready' = ready \cup {h} /\ queue' = [queue EXCEPT ![h] = <<>>]
      /\ UNCHANGED <<row, finished, disk, restarted, again>>
      /\ late \subseteq late' /\ (finished => h \in late')
  BY <1>m, <1>d, <1>n DEF Resolved, Late, durable
<1>1. old \in Seq(Entry) /\ queue[h] \in Seq(Patch) /\ <<h, "pending">> \in Entry
  BY <1>o DEF HopInv, HopTypeOK, Entry
<1>2. /\ more \in Seq(Entry) /\ DOMAIN more = DOMAIN queue[h]
      /\ \A i \in DOMAIN more : /\ more[i][1] = h /\ more[i][2] = queue[h][i]
                                /\ more[i][2] # "pending"
  <2>1. \A i \in DOMAIN queue[h] : queue[h][i] \in Patch /\ <<h, queue[h][i]>> \in Entry
    BY <1>1 DEF Entry
  <2>2. queue[h] \in [1..Len(queue[h]) -> Patch] /\ Len(queue[h]) \in Nat
    BY <1>1
  <2>3. more \in [1..Len(queue[h]) -> Entry]
    BY <1>m, <2>1, <2>2
  <2>4. more \in Seq(Entry) /\ DOMAIN more = DOMAIN queue[h]
    <3>1. more \in Seq(Entry)
      BY <2>2, <2>3
    <3>2. DOMAIN queue[h] = 1..Len(queue[h])
      BY <1>1
    <3> QED BY <2>3, <3>1, <3>2
  <2>5. ASSUME NEW i \in DOMAIN more
        PROVE  more[i][1] = h /\ more[i][2] = queue[h][i] /\ more[i][2] # "pending"
    <3>1. queue[h][i] \in Patch /\ more[i] = <<h, queue[h][i]>>
      BY <1>m, <2>1, <2>4
    <3> QED BY <3>1, StatusesApart DEF Patch
  <2> QED BY <2>4, <2>5
<1>3. /\ Extends(mid, old) /\ mid \in Seq(Entry) /\ Len(mid) = Len(old) + 1
      /\ mid[Len(old) + 1] = <<h, "pending">>
  BY <1>1, <1>d, <1>o, AppendExtends DEF Extends
<1>4. /\ Extends(new, mid) /\ Len(new) = Len(mid) + Len(queue[h])
      /\ \A i \in DOMAIN new : i > Len(mid) =>
            i - Len(mid) \in DOMAIN more /\ new[i] = more[i - Len(mid)]
  <2>1. Len(more) = Len(queue[h])
    BY <1>1, <1>2
  <2>2. /\ Extends(mid \o more, mid) /\ Len(mid \o more) = Len(mid) + Len(more)
        /\ \A i \in DOMAIN (mid \o more) : i > Len(mid) =>
              i - Len(mid) \in DOMAIN more /\ (mid \o more)[i] = more[i - Len(mid)]
    BY <1>2, <1>3, JoinExtends
  <2> QED BY <1>0, <2>1, <2>2
<1>5. /\ new \in Seq(Entry) /\ \A i \in DOMAIN mid : new[i] = mid[i]
      /\ \A i \in DOMAIN old : mid[i] = old[i]
  BY <1>3, <1>4 DEF Extends
<1>6. Patched(new, mid, h)
  <2>1. \A i \in DOMAIN new : i > Len(mid) => new[i][1] = h /\ new[i][2] # "pending"
    <3> SUFFICES ASSUME NEW i \in DOMAIN new, i > Len(mid)
                 PROVE  new[i][1] = h /\ new[i][2] # "pending"
      OBVIOUS
    <3>1. i - Len(mid) \in DOMAIN more /\ new[i] = more[i - Len(mid)]
      BY <1>4
    <3> QED BY <1>2, <3>1
  <2> QED BY <1>4, <2>1 DEF Patched
<1>7. ~HasCard(old, h)
  BY <1>0, <1>o DEF HopInv, Waits
<1>8. Framed(mid) /\ \A g \in Hops : HasCard(mid, g) <=> HasCard(old, g) \/ g = h
  BY <1>1, <1>7, <1>d, <1>o, FrameFramed, FrameCards DEF HopInv
<1>9. Framed(new) /\ \A g \in Hops : HasCard(new, g) <=> HasCard(old, g) \/ g = h
  BY <1>3, <1>6, <1>8, PatchedFramed, PatchedCards
<1>10. Extends(new, old) /\ \A i \in DOMAIN new : i > Len(old) => new[i][1] = h
  <2>1. Extends(new, old)
    <3>1. Len(old) <= Len(new)
      <4>1. Len(mid) \in Nat /\ Len(queue[h]) \in Nat /\ Len(old) \in Nat
        BY <1>1, <1>3
      <4>2. Len(mid) = Len(old) + 1 /\ Len(new) = Len(mid) + Len(queue[h])
        BY <1>3, <1>4
      <4>3. Len(new) = (Len(old) + 1) + Len(queue[h])
        BY <4>2
      <4>4. \A a, b \in Nat : a <= (a + 1) + b
        OBVIOUS
      <4> QED BY <4>1, <4>3, <4>4
    <3>2. \A i \in DOMAIN old : i \in DOMAIN mid
      BY <1>1, <1>3
    <3> QED BY <1>5, <3>1, <3>2 DEF Extends
  <2>2. ASSUME NEW i \in DOMAIN new, i > Len(old) PROVE new[i][1] = h
    <3>1. CASE i = Len(old) + 1
      <4>1. i \in DOMAIN mid
        BY <1>1, <1>3, <3>1
      <4> QED BY <1>3, <1>5, <3>1, <4>1
    <3>2. CASE i > Len(mid)
      <4>1. i - Len(mid) \in DOMAIN more /\ new[i] = more[i - Len(mid)]
        BY <1>4, <3>2
      <4> QED BY <1>2, <4>1
    <3> QED BY <1>1, <1>3, <1>5, <2>2, <3>1, <3>2
  <2> QED BY <2>1, <2>2
<1>11. ASSUME NEW g \in Hops, g # h
       PROVE  /\ \A i \in DOMAIN new : new[i][1] = g => i \in DOMAIN old /\ new[i] = old[i]
              /\ LastWord(old, g) => LastWord(new, g)
              /\ Closes(old, g) => Closes(new, g)
  <2> HIDE DEF Extends
  <2>1. /\ Extends(new, old) /\ old \in Seq(Entry)
        /\ \A i \in DOMAIN new : i > Len(old) => new[i][1] = h
    BY <1>1, <1>10
  <2> QED BY <1>11, <2>1, OthersSame
<1>12. /\ queue' \in [Hops -> Seq(Patch)] /\ queue'[h] = <<>>
       /\ \A g \in Hops : g # h => queue'[g] = queue[g]
  BY <1>0 DEF HopInv, HopTypeOK
<1>13. HopTypeOK'
  BY <1>0, <1>5, <1>12, <1>n DEF HopInv, HopTypeOK
<1>14. Waits'
  BY <1>0, <1>9, <1>12, <1>n, <1>o DEF HopInv, Waits
<1>15. ASSUME ~finished PROVE Agrees'
  <2> SUFFICES ASSUME NEW g \in Hops, g \notin again
               PROVE  /\ LastWord(new, g)
                      /\ \A i \in DOMAIN new : new[i][1] = g /\ new[i][2] \in Outcomes
                                               => row[g] \in Outcomes
                      /\ \A i \in DOMAIN queue'[g] : queue'[g][i] \in Outcomes
                            => row[g] \in Outcomes /\ i = Len(queue'[g])
    BY <1>0, <1>n DEF Agrees
  <2>1. /\ LastWord(old, g)
        /\ \A i \in DOMAIN old : old[i][1] = g /\ old[i][2] \in Outcomes => row[g] \in Outcomes
        /\ \A i \in DOMAIN queue[g] : queue[g][i] \in Outcomes
                                      => row[g] \in Outcomes /\ i = Len(queue[g])
    BY <1>15, <1>o DEF HopInv, Agrees
  <2>2. CASE g # h
    BY <1>11, <1>12, <2>1, <2>2
  <2>3. CASE g = h
    <3>1. ASSUME NEW i \in DOMAIN new, new[i][1] = h, new[i][2] \in Outcomes
          PROVE  i = Len(new) /\ row[h] \in Outcomes
      <4>1. CASE i > Len(mid)
        <5>1. i - Len(mid) \in DOMAIN queue[h] /\ new[i][2] = queue[h][i - Len(mid)]
          BY <1>2, <1>4, <4>1
        <5>2. row[h] \in Outcomes /\ i - Len(mid) = Len(queue[h])
          BY <2>1, <2>3, <3>1, <5>1
        <5>3. Len(mid) \in Nat /\ Len(queue[h]) \in Nat /\ i \in Nat
          BY <1>1, <1>3, <1>5
        <5>4. Len(new) = Len(mid) + Len(queue[h])
          BY <1>4
        <5> QED BY <5>2, <5>3, <5>4
      <4>2. CASE i = Len(mid)
        <5>1. i \in DOMAIN mid /\ i = Len(old) + 1
          BY <1>1, <1>3, <4>2
        <5>2. new[i] = <<h, "pending">>
          BY <1>3, <1>5, <5>1
        <5> QED BY <3>1, <5>2, StatusesApart
      <4>3. CASE i <= Len(old)
        <5>1. i \in DOMAIN old /\ i \in DOMAIN mid
          BY <1>1, <1>3, <1>5, <4>3
        <5>2. old[i][1] = h
          BY <1>5, <3>1, <5>1
        <5> QED BY <1>7, <5>1, <5>2 DEF HasCard
      <4> QED BY <1>1, <1>3, <1>5, <4>1, <4>2, <4>3
    <3>2. LastWord(new, h)
      <4> SUFFICES ASSUME NEW i \in DOMAIN new, new[i][1] = h, new[i][2] \in Outcomes,
                          NEW j \in DOMAIN new, j > i
                   PROVE  FALSE
        BY DEF LastWord
      <4> QED BY <1>5, <3>1
    <3>3. DOMAIN queue'[h] = {}
      BY <1>12
    <3> QED BY <2>3, <3>1, <3>2, <3>3
  <2> QED BY <2>2, <2>3
<1>16. ASSUME finished PROVE \A g \in Hops \ (again \cup late') : Closes(new, g)
  BY <1>0, <1>11, <1>16, <1>o DEF HopInv
<1>17. Flushed'
  BY <1>0 DEF HopInv, Flushed
<1> QED BY <1>0, <1>9, <1>13, <1>14, <1>15, <1>16, <1>17, <1>n DEF HopInv

LEMMA FinishOK == ASSUME HopInv, Finish PROVE HopInv'
<1>0. /\ ~finished /\ finished' = TRUE /\ log' = Closed(log) /\ ~restarted
      /\ UNCHANGED <<row, ready, queue, disk, restarted, again, late>>
  BY DEF Finish, durable, HopInv
<1>1. log \in Seq(Entry) /\ Framed(log) /\ \A h \in Hops \ again : LastWord(log, h)
  BY <1>0 DEF HopInv, HopTypeOK, Agrees
<1>2. /\ log' \in Seq(Entry) /\ Framed(log')
      /\ \A h \in Hops : HasCard(log', h) <=> HasCard(log, h)
      /\ \A h \in Hops \ again : Closes(log', h)
  BY <1>0, <1>1, ClosedOK
<1>3. HopTypeOK'
  BY <1>0, <1>2 DEF HopInv, HopTypeOK
<1>4. Waits'
  BY <1>0, <1>2 DEF HopInv, Waits
<1>5. Flushed'
  BY <1>0 DEF HopInv, Flushed
<1> QED BY <1>0, <1>2, <1>3, <1>4, <1>5 DEF HopInv

LEMMA FlushOK == ASSUME HopInv, Flush PROVE HopInv'
<1>0. /\ ~restarted /\ disk' = [log |-> log, finished |-> finished]
      /\ UNCHANGED <<row, ready, queue, log, finished, restarted, again, late>>
  BY DEF Flush
<1>1. disk'.log = log /\ disk'.finished = finished
  BY <1>0
<1>2. HopTypeOK'
  BY <1>0 DEF HopInv, HopTypeOK
<1>3. Waits' /\ (~finished => Agrees')
  BY <1>0 DEF HopInv, Waits, Agrees
<1>4. Flushed'
  BY <1>0, <1>1 DEF HopInv, Flushed, Agrees
<1> QED BY <1>0, <1>2, <1>3, <1>4 DEF HopInv

(* The process comes back with the log of the disk, closed. *)
LEMMA RestartOK == ASSUME HopInv, Restart PROVE HopInv'
<1>0. /\ restarted' = TRUE /\ finished' = TRUE
      /\ log' = IF disk.finished THEN disk.log ELSE Closed(disk.log)
      /\ row' = [h \in Hops |-> IF row[h] \in {"pending", "running"} THEN "aborted" ELSE row[h]]
      /\ queue' = [h \in Hops |-> <<>>]
      /\ UNCHANGED <<ready, disk, again, late>>
  BY DEF Restart
<1>1. disk.log \in Seq(Entry) /\ Framed(disk.log)
  BY DEF HopInv, HopTypeOK, Flushed
<1>2. /\ log' \in Seq(Entry) /\ Framed(log')
      /\ \A h \in Hops \ (again \cup late) : Closes(log', h)
  <2>1. CASE disk.finished
    BY <1>0, <1>1, <2>1 DEF HopInv, Flushed
  <2>2. CASE ~disk.finished
    BY <1>0, <1>1, <2>2, ClosedOK DEF HopInv, Flushed
  <2> QED BY <2>1, <2>2
<1>3. /\ row' \in [Hops -> {"none", "pending"} \cup Patch]
      /\ \A h \in Hops : row'[h] \notin {"pending", "running"}
  BY <1>0, StatusesApart DEF HopInv, HopTypeOK, Patch
<1>4. queue' \in [Hops -> Seq(Patch)]
  BY <1>0
<1>5. HopTypeOK'
  BY <1>0, <1>2, <1>3, <1>4 DEF HopInv, HopTypeOK
<1>6. Flushed'
  BY <1>0 DEF HopInv, Flushed
<1> QED BY <1>0, <1>2, <1>3, <1>5, <1>6 DEF HopInv

(* The inductive invariant holds throughout. *)
LEMMA HopInvariant == HopSpec => []HopInv
<1>1. ASSUME HopInv, [HopNext]_hopVars PROVE HopInv'
  <2>1. CASE UNCHANGED hopVars
    BY <1>1, <2>1 DEF hopVars, durable, HopInv, HopTypeOK, Flushed, Waits, Agrees
  <2>2. CASE HopNext
    BY <1>1, <2>2, OpenOK, StartOK, SettleOK, ResolvedOK, FinishOK, FlushOK, RestartOK
       DEF HopNext
  <2> QED BY <1>1, <2>1, <2>2
<1> QED BY <1>1, HopInitOK, PTL DEF HopSpec

-----------------------------------------------------------------------------
(* FrameFirst, for any hops, outcomes and number of calls: the card of a   *)
(* handover goes out once and before every patch, which waited for it      *)
(* (pushPatch, hop-broadcast.ts:49-53).                                    *)
THEOREM FramesLead == HopSpec => []FrameFirst
<1>1. HopInv => FrameFirst
  BY DEF HopInv, Framed, FrameFirst
<1> QED BY <1>1, HopInvariant, PTL

(* NothingLeftOpen, whatever had reached the disk when the process died.   *)
(* It leans on Agrees: while the round goes on no patch follows how a hop  *)
(* was settled, so the sweep, which only looks whether a card ever was,    *)
(* closes every card that shows it open.                                   *)
THEOREM AllClosed == HopSpec => []NothingLeftOpen
<1>1. ASSUME HopInv PROVE NothingLeftOpen
  <2> SUFFICES ASSUME restarted, NEW h \in Hops
               PROVE  /\ row[h] \notin {"pending", "running"}
                      /\ Shown(h, "pending") \/ Shown(h, "running") => h \in again \cup late
    BY DEF NothingLeftOpen
  <2>1. row[h] \notin {"pending", "running"} /\ finished
    BY <1>1 DEF HopInv
  <2>2. ASSUME NEW s \in {"pending", "running"}, Shown(h, s), h \notin again \cup late
        PROVE  FALSE
    <3>1. PICK i \in DOMAIN log : /\ log[i] = <<h, s>>
                                  /\ \A j \in DOMAIN log : j > i => log[j][1] # h
      BY <2>2 DEF Shown
    <3>2. PICK j \in DOMAIN log : j >= i /\ log[j][1] = h /\ log[j][2] \in Outcomes
      BY <1>1, <2>1, <2>2, <3>1 DEF HopInv, Closes
    <3>3. j = i
      BY <1>1, <3>1, <3>2 DEF HopInv, HopTypeOK
    <3> QED BY <2>2, <3>1, <3>2, <3>3, StatusesApart
  <2> QED BY <2>1, <2>2
<1> QED BY <1>1, HopInvariant, PTL
=============================================================================
