----------------------- MODULE WorkflowSchedulerProofs -----------------------
(***************************************************************************)
(* Theorems about WorkflowScheduler, for any finite set of nodes and any   *)
(* graphs over it, cyclic ones included.                                   *)
(***************************************************************************)
EXTENDS WorkflowScheduler, FiniteSetTheorems, TLAPS

\* The edges that hold a node back: its in-degree counts them.
Held(n) == {e \in In(n) : status[e.from] \in {"none", "skipped"} \/ e.from \in ready}

(***************************************************************************)
(* A layer exists while the driver runs it and holds what is executed; a   *)
(* queue that was closed without an abort was closed because nothing was   *)
(* free.                                                                   *)
(***************************************************************************)
Layered ==
    /\ \A n \in ready : status[n] \in {"pending", "done", "failed"}
    /\ \A n \in Nodes : status[n] = "pending" => n \in ready
    /\ driver # "running" => ready = {}
    /\ driver = "closed" /\ ~aborted => Free = {}

(***************************************************************************)
(* What an unconditional edge leads to from a node that was skipped, or    *)
(* that failed in a layer that has ended, has its end already.             *)
(***************************************************************************)
Propagated ==
    \A e \in edges :
        /\ ~e.conditional
        /\ status[e.from] = "skipped" \/ (status[e.from] = "failed" /\ e.from \notin ready)
        => status[e.to] # "none"

\* The two halves of TypeOK: what the driver keeps, and what the queue does.
GraphOK ==
    /\ edges \in Workflows
    /\ status \in [Nodes -> {"none", "pending"} \cup Ended]
    /\ ready \subseteq Nodes
    /\ indeg = [n \in Nodes |-> Cardinality(Held(n))]
    /\ driver \in {"picking", "running", "closed"}

QueueOK ==
    /\ aborted \in BOOLEAN
    /\ chunks \in [Nodes -> 0..MaxChunks]
    /\ buffer \in Nat /\ waiting \in BOOLEAN
    /\ consumer \in {"reading", "ended", "left", "gone"}

\* The inductive invariant.
GraphInv == GraphOK /\ Layered /\ Propagated /\ RunsInOrder
IInv == GraphInv /\ QueueOK

\* TypeOK is its two halves.
LEMMA Halves == TypeOK <=> GraphOK /\ QueueOK
  BY DEF TypeOK, GraphOK, QueueOK, Held

----------------------------------------------------------------------------
(* Graphs.                                                                 *)

\* A graph is a finite set of edges between nodes.
LEMMA Graph ==
    ASSUME GraphOK
    PROVE  /\ IsFiniteSet(edges)
           /\ \A e \in edges : e.from \in Nodes /\ e.to \in Nodes /\ e.conditional \in BOOLEAN
  BY WorkflowAssumption DEF GraphOK, Edge

\* So are the edges of a node, and those that hold it back.
LEMMA FiniteEdges ==
    ASSUME GraphOK, NEW n \in Nodes
    PROVE  IsFiniteSet(In(n)) /\ IsFiniteSet(Held(n))
<1>1. In(n) \in SUBSET edges /\ Held(n) \in SUBSET edges
  BY DEF In, Held
<1> QED
  BY <1>1, Graph, FS_Subset

\* Nothing holds a free node back, and something every other.
LEMMA FreeUnheld ==
    ASSUME GraphOK
    PROVE  \A n \in Nodes : n \in Free <=> status[n] = "none" /\ Held(n) = {}
<1> SUFFICES ASSUME NEW n \in Nodes
             PROVE  n \in Free <=> status[n] = "none" /\ Held(n) = {}
  OBVIOUS
<1>1. indeg[n] = Cardinality(Held(n))
  BY DEF GraphOK
<1>2. indeg[n] = 0 <=> Held(n) = {}
  BY <1>1, FiniteEdges, FS_EmptySet
<1> QED
  BY <1>2 DEF Free

(***************************************************************************)
(* What cascadeSkip skips had no result, has all of S that had none, and   *)
(* is closed under unconditional edges.                                    *)
(***************************************************************************)
LEMMA CascadeSkips ==
    ASSUME NEW S
    PROVE  /\ Cascade(S) \subseteq Fresh
           /\ Fresh \cap S \subseteq Cascade(S)
           /\ \A e \in edges : ~e.conditional /\ e.from \in Cascade(S) /\ e.to \in Fresh
                 => e.to \in Cascade(S)
  BY DEF Cascade, Spreads

----------------------------------------------------------------------------
(* One lemma per action that changes the graph, and one for the others.    *)

\* The run starts with nothing executed.
LEMMA InitInvariant == Init => IInv
<1> SUFFICES ASSUME Init PROVE IInv
  OBVIOUS
<1>1. \A n \in Nodes : Held(n) = In(n)
  BY WorkflowAssumption DEF Init, Held, In, Edge
<1>2. GraphOK
  BY <1>1 DEF Init, GraphOK
<1>3. aborted \in BOOLEAN /\ waiting \in BOOLEAN
  BY Zenon DEF Init
<1>4. QueueOK
  BY <1>3, WorkflowAssumption DEF Init, QueueOK
<1>5. Layered /\ Propagated /\ RunsInOrder
  BY <1>2, Graph DEF Init, Layered, Propagated, RunsInOrder, In
<1> QED
  BY <1>2, <1>4, <1>5 DEF IInv, GraphInv

\* Steps of the queue and its reader, and an abort.
LEMMA QueueSteps ==
    ASSUME GraphInv, UNCHANGED <<edges, status, indeg, ready, driver>>,
           aborted' = aborted \/ driver # "closed"
    PROVE  GraphInv'
<1>1. \A n \in Nodes : Held(n)' = Held(n)
  BY DEF Held, In
<1>2. GraphOK'
  BY <1>1 DEF GraphInv, GraphOK
<1>3. Layered' /\ Propagated' /\ RunsInOrder'
  BY DEF GraphInv, Layered, Propagated, RunsInOrder, Free, In
<1> QED
  BY <1>2, <1>3 DEF GraphInv

\* A layer starts with what nothing holds back.
LEMMA PickInvariant == GraphInv /\ Pick => GraphInv'
<1> SUFFICES ASSUME GraphInv, Pick PROVE GraphInv'
  OBVIOUS
<1>1. ready = {} /\ ready' = Free /\ Free \subseteq Nodes
  BY DEF GraphInv, Layered, Pick, Free
<1>2. \A n \in Nodes : status'[n] = IF n \in Free THEN "pending" ELSE status[n]
  BY DEF Pick
<1>3. \A n \in Free : status[n] = "none" /\ Held(n) = {}
  BY <1>1, FreeUnheld DEF GraphInv
<1>4. \A n \in Nodes : Held(n)' = Held(n)
  BY <1>1, <1>2, <1>3, Graph DEF GraphInv, Held, In, Pick
<1>5. GraphOK'
  BY <1>1, <1>4 DEF GraphInv, GraphOK, Pick
<1>6. Layered'
  BY <1>1, <1>2, <1>3 DEF GraphInv, Layered, Pick
<1>7. Propagated'
  BY <1>1, <1>2, <1>3, Graph DEF GraphInv, Propagated, Pick
<1>8. RunsInOrder'
  <2> SUFFICES ASSUME NEW n \in Nodes, status'[n] \in {"pending", "done", "failed"},
                      NEW e \in In(n)
               PROVE  status'[e.from]
                        \in IF e.conditional THEN {"done", "failed"} ELSE {"done"}
    BY DEF RunsInOrder, In, Pick
  <2>1. e \in edges /\ e.to = n /\ e.from \in Nodes
    BY Graph DEF GraphInv, In
  <2>2. CASE n \notin Free
    <3>1. status[e.from] \in IF e.conditional THEN {"done", "failed"} ELSE {"done"}
      BY <1>2, <2>2 DEF GraphInv, RunsInOrder
    <3> QED
      BY <3>1, <1>2, <1>3, <2>1
  <2>3. CASE n \in Free
    <3>1. status[e.from] \notin {"none", "skipped"}
      BY <1>3, <2>3, <2>1 DEF Held
    <3>2. status[e.from] # "pending"
      BY <1>1, <2>1 DEF GraphInv, Layered
    <3>3. status[e.from] \in {"done", "failed"}
      BY <3>1, <3>2, <2>1 DEF GraphInv, GraphOK, Ended
    <3>4. ~e.conditional => status[e.from] # "failed"
      BY <1>1, <1>3, <2>1, <2>3 DEF GraphInv, Propagated
    <3> QED
      BY <3>3, <3>4, <1>2, <1>3, <2>1
  <2> QED
    BY <2>2, <2>3
<1> QED
  BY <1>5, <1>6, <1>7, <1>8 DEF GraphInv

\* A node of the layer ends.
LEMMA NodeEndsInvariant ==
    ASSUME NEW n \in Nodes, GraphInv, NodeEnds(n)
    PROVE  GraphInv'
<1>1. n \in ready /\ status[n] = "pending"
  BY DEF GraphInv, Layered, NodeEnds
<1>2. PICK end \in {"done", "failed"} : status' = [status EXCEPT ![n] = end]
  BY DEF NodeEnds
<1>3. \A m \in Nodes : Held(m)' = Held(m)
  BY <1>1, <1>2, Graph DEF GraphInv, GraphOK, Held, In, NodeEnds
<1>4. GraphOK'
  BY <1>2, <1>3 DEF GraphInv, GraphOK, NodeEnds, Ended
<1>5. Layered'
  BY <1>1, <1>2 DEF GraphInv, GraphOK, Layered, NodeEnds
<1>6. Propagated'
  BY <1>1, <1>2, Graph DEF GraphInv, GraphOK, Propagated, NodeEnds
<1>7. RunsInOrder'
  BY <1>1, <1>2, Graph DEF GraphInv, GraphOK, RunsInOrder, In, NodeEnds
<1> QED
  BY <1>4, <1>5, <1>6, <1>7 DEF GraphInv

\* The layer has ended: its edges are walked.
LEMMA LayerEndsInvariant == GraphInv /\ LayerEnds => GraphInv'
<1> SUFFICES ASSUME GraphInv, LayerEnds PROVE GraphInv'
  OBVIOUS
<1> DEFINE Broken == {e \in edges : e.from \in ready /\ ~e.conditional
                                    /\ status[e.from] # "done"}
<1>1. PICK S : /\ {e.to : e \in Broken} \subseteq S
               /\ status' = [n \in Nodes |-> IF n \in Cascade(S) THEN "skipped"
                                                                ELSE status[n]]
  BY DEF LayerEnds
<1>2. /\ Cascade(S) \subseteq Fresh
      /\ Fresh \cap S \subseteq Cascade(S)
      /\ \A e \in edges : ~e.conditional /\ e.from \in Cascade(S) /\ e.to \in Fresh
            => e.to \in Cascade(S)
  BY CascadeSkips
<1>3. /\ edges' = edges /\ ready' = {} /\ driver = "running" /\ driver' = "picking"
      /\ aborted' = aborted
      /\ indeg' = [n \in Nodes |-> indeg[n] - Walked(n)]
      /\ \A n \in ready : status[n] # "pending"
  BY DEF LayerEnds
<1>4. \A n \in Nodes : Cardinality(Held(n)') = indeg[n] - Walked(n)
  <2> SUFFICES ASSUME NEW n \in Nodes
               PROVE  Cardinality(Held(n)') = indeg[n] - Walked(n)
    OBVIOUS
  <2> DEFINE W == {e \in In(n) : e.from \in ready}
             B == {e \in In(n) : status[e.from] \in {"none", "skipped"}}
  <2>1. Held(n)' = B
    BY <1>1, <1>2, <1>3, Graph DEF GraphInv, Held, In, Fresh
  <2>2. W \cap B = {} /\ Held(n) = W \cup B
    BY DEF GraphInv, Layered, Held
  <2>3. IsFiniteSet(W) /\ IsFiniteSet(B)
    BY FiniteEdges, FS_Subset, W \in SUBSET In(n), B \in SUBSET In(n) DEF GraphInv
  <2>4. Cardinality(Held(n)) = Cardinality(W) + Cardinality(B)
    <3>1. Cardinality(W \cup B) = Cardinality(W) + Cardinality(B) - Cardinality(W \cap B)
      BY <2>3, FS_Union
    <3>2. Cardinality(W) \in Nat /\ Cardinality(B) \in Nat
      BY <2>3, FS_CardinalityType
    <3>3. Cardinality(W \cap B) = 0
      <4>1. W \cap B = {}
        BY <2>2
      <4> HIDE DEF W, B
      <4> QED
        BY <4>1, FS_EmptySet, Zenon
    <3>4. Cardinality(Held(n)) = Cardinality(W \cup B)
      BY <2>2, Zenon
    <3> HIDE DEF W, B
    <3> QED
      BY <3>1, <3>2, <3>3, <3>4
  <2>5. Cardinality(W) \in Nat /\ Cardinality(B) \in Nat
    BY <2>3, FS_CardinalityType
  <2>6. indeg[n] = Cardinality(Held(n)) /\ Walked(n) = Cardinality(W)
    BY DEF GraphInv, GraphOK, Walked
  <2> QED
    BY <2>1, <2>4, <2>5, <2>6
<1>5. GraphOK'
  <2>1. status' \in [Nodes -> {"none", "pending"} \cup Ended]
    BY <1>1 DEF GraphInv, GraphOK, Ended
  <2>2. indeg' = [n \in Nodes |-> Cardinality(Held(n)')]
    BY <1>3, <1>4
  <2> QED
    BY <2>1, <2>2, <1>3 DEF GraphInv, GraphOK
<1>6. Layered'
  BY <1>1, <1>3 DEF GraphInv, Layered
<1>7. Propagated'
  <2> SUFFICES ASSUME NEW e \in edges, ~e.conditional,
                      status'[e.from] \in {"skipped", "failed"}
               PROVE  status'[e.to] # "none"
    BY <1>3 DEF Propagated
  <2>1. e.from \in Nodes /\ e.to \in Nodes
    BY Graph DEF GraphInv
  <2>2. CASE e.to \notin Fresh
    BY <1>1, <2>1, <2>2 DEF Fresh
  <2>3. CASE e.to \in Fresh
    <3>1. CASE e.from \in Cascade(S)
      BY <1>1, <1>2, <2>1, <2>3, <3>1
    <3>2. CASE e.from \notin Cascade(S)
      <4>1. status[e.from] = "failed" /\ e.from \in ready
        BY <1>1, <2>1, <2>3, <3>2 DEF GraphInv, Propagated, Fresh
      <4>2. e.to \in S
        BY <1>1, <4>1
      <4> QED
        BY <1>1, <1>2, <2>1, <2>3, <4>2
    <3> QED
      BY <3>1, <3>2
  <2> QED
    BY <2>2, <2>3
<1>8. RunsInOrder'
  BY <1>1, <1>2, <1>3, Graph DEF GraphInv, RunsInOrder, In, Fresh
<1> QED
  BY <1>5, <1>6, <1>7, <1>8 DEF GraphInv

\* Nothing is free, or the run was aborted: the queue is closed.
LEMMA StopInvariant == GraphInv /\ Stop => GraphInv'
<1> SUFFICES ASSUME GraphInv, Stop PROVE GraphInv'
  OBVIOUS
<1>1. \A n \in Nodes : Held(n)' = Held(n)
  BY DEF Held, In, Stop
<1>2. GraphOK'
  BY <1>1 DEF GraphInv, GraphOK, Stop
<1>3. Layered'
  BY DEF GraphInv, Layered, Free, Stop
<1>4. Propagated' /\ RunsInOrder'
  BY DEF GraphInv, Propagated, RunsInOrder, In, Stop
<1> QED
  BY <1>2, <1>3, <1>4 DEF GraphInv

----------------------------------------------------------------------------
(* The queue.                                                              *)

\* Chunks that are pushed wake the reader or are counted.
LEMMA PushKeeps ==
    ASSUME QueueOK, NEW k \in Nat, Push(k)
    PROVE  buffer' \in Nat /\ waiting' \in BOOLEAN /\ consumer' = consumer
<1>1. waiting' \in BOOLEAN /\ consumer' = consumer
  BY Zenon DEF Push
<1>2. buffer' \in Nat
  BY DEF QueueOK, Push
<1> QED
  BY <1>1, <1>2

\* The queue keeps its types.
LEMMA QueueInvariant == GraphInv /\ QueueOK /\ [Next]_vars => QueueOK'
<1> SUFFICES ASSUME GraphInv, QueueOK, [Next]_vars PROVE QueueOK'
  OBVIOUS
<1>1. CASE Pull
  <2>1. waiting' \in BOOLEAN
    BY <1>1, Zenon DEF Pull, QueueOK
  <2>2. buffer' \in Nat
    BY <1>1 DEF Pull, QueueOK
  <2>3. consumer' \in {"reading", "ended", "left", "gone"}
    BY <1>1 DEF Pull, QueueOK
  <2> QED
    BY <1>1, <2>1, <2>2, <2>3 DEF Pull, QueueOK
<1>2. CASE Leave
  BY <1>2 DEF Leave, QueueOK
<1>3. CASE DriverAwaited
  BY <1>3 DEF DriverAwaited, QueueOK
<1>4. CASE Abort
  BY <1>4 DEF Abort, QueueOK, stream
<1>5. CASE Pick
  BY <1>5 DEF Pick, QueueOK, stream
<1>6. CASE Stop
  BY <1>6 DEF Stop, QueueOK
<1>7. CASE LayerEnds
  <2>1. \A S : Cardinality(Cascade(S)) \in Nat
    <3> TAKE S
    <3>1. Cascade(S) \in SUBSET Nodes
      BY CascadeSkips DEF Fresh
    <3> QED
      BY <3>1, WorkflowAssumption, FS_Subset, FS_CardinalityType
  <2>2. \E k \in Nat : Push(k)
    BY <1>7, <2>1 DEF LayerEnds
  <2> QED
    BY <1>7, <2>2, PushKeeps DEF LayerEnds, QueueOK
<1>8. CASE \E n \in Nodes : Stream(n)
  BY <1>8, PushKeeps, WorkflowAssumption DEF Stream, QueueOK
<1>9. CASE \E n \in Nodes : NodeEnds(n)
  BY <1>9 DEF NodeEnds, QueueOK, stream
<1>10. CASE UNCHANGED vars
  BY <1>10 DEF vars, QueueOK
<1> QED
  BY <1>1, <1>2, <1>3, <1>4, <1>5, <1>6, <1>7, <1>8, <1>9, <1>10 DEF Next

----------------------------------------------------------------------------
(* The theorems.                                                           *)

\* Every step keeps the invariant.
LEMMA StepInvariant == IInv /\ [Next]_vars => IInv'
<1> SUFFICES ASSUME IInv, [Next]_vars PROVE GraphInv'
  BY QueueInvariant DEF IInv
<1> USE DEF IInv
<1>1. CASE Pull \/ Leave \/ DriverAwaited
  BY <1>1, QueueSteps DEF Pull, Leave, DriverAwaited
<1>2. CASE Abort
  BY <1>2, QueueSteps DEF Abort
<1>3. CASE Pick
  BY <1>3, PickInvariant
<1>4. CASE Stop
  BY <1>4, StopInvariant
<1>5. CASE LayerEnds
  BY <1>5, LayerEndsInvariant
<1>6. CASE \E n \in Nodes : Stream(n)
  BY <1>6, QueueSteps DEF Stream
<1>7. CASE \E n \in Nodes : NodeEnds(n)
  BY <1>7, NodeEndsInvariant
<1>8. CASE UNCHANGED vars
  BY <1>8, QueueSteps DEF vars
<1> QED
  BY <1>1, <1>2, <1>3, <1>4, <1>5, <1>6, <1>7, <1>8 DEF Next

LEMMA Invariant == Spec => []IInv
<1> QED
  BY InitInvariant, StepInvariant, PTL DEF Spec

(***************************************************************************)
(* In-degrees are what the edges not yet walked amount to, whatever the    *)
(* graph: no edge is walked twice and none is lost (scheduler.ts:285-333). *)
(***************************************************************************)
THEOREM InDegreesCount == Spec => []TypeOK
<1>1. IInv => TypeOK
  BY Halves DEF IInv, GraphInv
<1> QED
  BY <1>1, Invariant, PTL

(***************************************************************************)
(* A node is executed only after all of its upstreams, in graphs of any    *)
(* shape (scheduler.ts:204-209).                                           *)
(***************************************************************************)
THEOREM Ordered == Spec => []RunsInOrder
<1>1. IInv => RunsInOrder
  BY DEF IInv, GraphInv
<1> QED
  BY <1>1, Invariant, PTL

(***************************************************************************)
(* A run that was not aborted ends with a result for every node, except    *)
(* for those that wait for an edge nobody will walk (scheduler.ts:394).    *)
(***************************************************************************)
THEOREM NobodyForgotten == Spec => []NothingForgotten
<1>1. IInv => NothingForgotten
  <2> SUFFICES ASSUME GraphInv, driver = "closed", ~aborted,
                      NEW n \in Nodes, status[n] \notin Ended
               PROVE  /\ status[n] = "none"
                      /\ \E e \in In(n) : \/ status[e.from] = "none"
                                          \/ e.conditional /\ status[e.from] = "skipped"
    BY DEF IInv, NothingForgotten
  <2>1. ready = {} /\ Free = {}
    BY DEF GraphInv, Layered
  <2>2. status[n] = "none"
    BY <2>1 DEF GraphInv, GraphOK, Layered
  <2>3. Held(n) # {}
    BY <2>1, <2>2, FreeUnheld DEF GraphInv
  <2>4. PICK e \in In(n) : status[e.from] \in {"none", "skipped"}
    BY <2>1, <2>3 DEF Held
  <2>5. ~e.conditional => status[e.from] # "skipped"
    BY <2>2 DEF GraphInv, Propagated, In
  <2> QED
    BY <2>2, <2>4, <2>5
<1> QED
  BY <1>1, Invariant, PTL
=============================================================================
