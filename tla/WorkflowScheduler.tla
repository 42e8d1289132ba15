-------------------------- MODULE WorkflowScheduler --------------------------
(***************************************************************************)
(* One run of a team's workflow (workflow/scheduler.ts, with retry.ts,     *)
(* executor.ts and condition.ts).                                          *)
(*                                                                         *)
(* A background driver executes the graph in layers: the nodes whose       *)
(* in-degree has come down to zero run together, and when all of them have *)
(* ended their out-edges are walked, which lowers in-degrees and skips     *)
(* what can no longer run.  Chunks go through a queue to the generator     *)
(* that the caller consumes; leaving it early still awaits the driver.     *)
(*                                                                         *)
(* What a condition evaluates to is a choice: it is an expression of the   *)
(* team's file over all results so far.  executeNode turns every failure   *)
(* into a result and never throws, so withRetry makes one attempt whatever *)
(* the budget says.                                                        *)
(***************************************************************************)
EXTENDS Naturals, FiniteSets

CONSTANTS
    Nodes,      \* team.members_ids
    Workflows,  \* the graphs to run, each a set of edges
    MaxChunks   \* bound: chunks a node streams

Edge == [from : Nodes, to : Nodes, conditional : BOOLEAN]

ASSUME WorkflowAssumption ==
    /\ IsFiniteSet(Nodes)
    /\ \A graph \in Workflows : graph \subseteq Edge /\ IsFiniteSet(graph)
    /\ MaxChunks \in Nat

VARIABLES
    edges,     \* the graph that runs
    status,    \* results: "none" until the node has one
    indeg,     \* edges into a node that were not yet walked
    ready,     \* the layer that runs
    driver,    \* "picking", "running" or "closed" (the queue with it)
    aborted,   \* signal.aborted
    chunks,    \* chunks each running node has streamed
    buffer,    \* ChunkQueue.buf: how many it holds
    waiting,   \* ChunkQueue.waiter: the generator is parked in pull
    consumer   \* "reading", then "ended"; or "left" early, then "gone"

vars == <<edges, status, indeg, ready, driver, aborted, chunks, buffer, waiting,
          consumer>>
stream == <<chunks, buffer, waiting, consumer>>

In(n) == {e \in edges : e.to = n}
Ended == {"done", "failed", "skipped"}

Init ==
    /\ edges \in Workflows
    /\ status = [n \in Nodes |-> "none"]
    /\ indeg = [n \in Nodes |-> Cardinality(In(n))]
    /\ ready = {}
    /\ driver = "picking"
    /\ aborted = FALSE
    /\ chunks = [n \in Nodes |-> 0]
    /\ buffer = 0 /\ waiting = FALSE /\ consumer = "reading"

----------------------------------------------------------------------------
(* The chunk queue.                                                        *)

(***************************************************************************)
(* push, k times in a row: the first chunk wakes a waiting generator, the  *)
(* others are buffered; nothing is taken once the queue is closed.         *)
(***************************************************************************)
Push(k) ==
    /\ buffer' = IF waiting /\ k > 0 THEN buffer + k - 1 ELSE buffer + k
    /\ waiting' = (waiting /\ k = 0)
    /\ UNCHANGED consumer

\* The generator pulls: a chunk, the end of the queue, or a place to wait.
Pull ==
    /\ consumer = "reading" /\ ~waiting
    /\ \/ /\ buffer > 0
          /\ buffer' = buffer - 1
          /\ UNCHANGED <<waiting, consumer>>
       \/ /\ buffer = 0 /\ driver = "closed"
          /\ consumer' = "ended"
          /\ UNCHANGED <<buffer, waiting>>
       \/ /\ buffer = 0 /\ driver # "closed"
          /\ waiting' = TRUE
          /\ UNCHANGED <<buffer, consumer>>
    /\ UNCHANGED <<edges, status, indeg, ready, driver, aborted, chunks>>

\* The caller breaks out of its loop; the finally block awaits the driver.
Leave ==
    /\ consumer = "reading" /\ ~waiting
    /\ consumer' = "left"
    /\ UNCHANGED <<edges, status, indeg, ready, driver, aborted, chunks, buffer,
                   waiting>>

DriverAwaited ==
    /\ consumer = "left" /\ driver = "closed"
    /\ consumer' = "gone"
    /\ UNCHANGED <<edges, status, indeg, ready, driver, aborted, chunks, buffer,
                   waiting>>

----------------------------------------------------------------------------
(* The driver.                                                             *)

\* The caller's signal fires (the run is aborted or its client went away).
Abort ==
    /\ ~aborted /\ driver # "closed"
    /\ aborted' = TRUE
    /\ UNCHANGED <<edges, status, indeg, ready, driver, stream>>

\* Mutant: one edge that was walked is enough.
FreeByAny == {n \in Nodes : status[n] = "none"
                 /\ (indeg[n] = 0 \/ indeg[n] < Cardinality(In(n)))}

\* Nodes that nothing holds back and that have no result yet.
Free == {n \in Nodes : status[n] = "none" /\ indeg[n] = 0}

\* The head of the loop starts a layer, every node of it marked pending.
Pick ==
    /\ driver = "picking" /\ ~aborted /\ Free # {}
    /\ ready' = Free
    /\ status' = [n \in Nodes |-> IF n \in Free THEN "pending" ELSE status[n]]
    /\ driver' = "running"
    /\ UNCHANGED <<edges, indeg, aborted, stream>>

\* Mutant: close() forgets the generator that waits.
StopQuietly ==
    /\ driver = "picking" /\ (aborted \/ Free = {})
    /\ driver' = "closed"
    /\ UNCHANGED <<edges, status, indeg, ready, aborted, stream>>

\* It is over, or stuck, or aborted: the queue is closed.
Stop ==
    /\ driver = "picking" /\ (aborted \/ Free = {})
    /\ driver' = "closed"
    /\ consumer' = IF waiting THEN "ended" ELSE consumer
    /\ waiting' = FALSE
    /\ UNCHANGED <<edges, status, indeg, ready, aborted, chunks, buffer>>

\* A running node streams a chunk.
Stream(n) ==
    /\ status[n] = "pending" /\ ~aborted /\ chunks[n] < MaxChunks
    /\ chunks' = [chunks EXCEPT ![n] = @ + 1]
    /\ Push(1)
    /\ UNCHANGED <<edges, status, indeg, ready, driver, aborted>>

\* executeNode returns, or withRetry refused to start it.
NodeEnds(n) ==
    /\ status[n] = "pending"
    /\ \/ /\ ~aborted
          /\ status' = [status EXCEPT ![n] = "done"]
       \/ status' = [status EXCEPT ![n] = "failed"]
    /\ UNCHANGED <<edges, indeg, ready, driver, aborted, stream>>

(***************************************************************************)
(* cascadeSkip for each node of S: what has no result yet is skipped, and  *)
(* so is what follows it over unconditional edges, and no more: the least  *)
(* such set.                                                               *)
(***************************************************************************)
Fresh == {n \in Nodes : status[n] = "none"}

Spreads(skipped, S) ==
    /\ Fresh \cap S \subseteq skipped
    /\ \A e \in edges : ~e.conditional /\ e.from \in skipped /\ e.to \in Fresh
          => e.to \in skipped

Cascade(S) == {n \in Fresh : \A skipped \in SUBSET Fresh : Spreads(skipped, S) => n \in skipped}

\* Mutant: an edge that was refused does not count down.
WalkedHeld(n) ==
    Cardinality({e \in In(n) : e.from \in ready /\ (status[e.from] = "done")})

\* Walked edges count down the in-degree of their target, refused or not.
Walked(n) == Cardinality({e \in In(n) : e.from \in ready})

(***************************************************************************)
(* The layer has ended.  An unconditional edge holds if its node is done,  *)
(* a conditional one if its condition does; what a refused edge leads to   *)
(* is skipped with its unconditional followers, a chunk for each.          *)
(***************************************************************************)
LayerEnds ==
    /\ driver = "running"
    /\ \A n \in ready : status[n] # "pending"
    /\ \E false \in SUBSET {e \in edges : e.from \in ready /\ e.conditional} :
          LET broken == {e \in edges : e.from \in ready /\ ~e.conditional
                                       /\ status[e.from] # "done"}
              skip == Cascade({e.to : e \in broken \cup false})
          IN  /\ status' = [n \in Nodes |-> IF n \in skip THEN "skipped" ELSE status[n]]
              /\ Push(Cardinality(skip))
    /\ indeg' = [n \in Nodes |-> indeg[n] - Walked(n)]
    /\ ready' = {}
    /\ driver' = "picking"
    /\ UNCHANGED <<edges, aborted, chunks>>

Next ==
    \/ Pull \/ Leave \/ DriverAwaited
    \/ Abort \/ Pick \/ Stop \/ LayerEnds
    \/ \E n \in Nodes : Stream(n) \/ NodeEnds(n)

(***************************************************************************)
(* The driver and a generator that is read go on; a node ends because its  *)
(* transport ends the stream.  Nothing obliges a caller to leave or abort. *)
(***************************************************************************)
Fairness ==
    /\ WF_vars(Pull) /\ WF_vars(DriverAwaited)
    /\ WF_vars(Pick) /\ WF_vars(Stop) /\ WF_vars(LayerEnds)
    /\ \A n \in Nodes : WF_vars(NodeEnds(n))

Spec == Init /\ [][Next]_vars /\ Fairness

----------------------------------------------------------------------------
(* Properties.                                                             *)

(***************************************************************************)
(* Types; and in-degrees are what the edges not yet walked amount to: those *)
(* of nodes that have no result, are in the layer that runs, or were       *)
(* skipped (scheduler.ts:285-333).                                         *)
(***************************************************************************)
TypeOK ==
    /\ edges \in Workflows
    /\ status \in [Nodes -> {"none", "pending"} \cup Ended]
    /\ ready \subseteq Nodes
    /\ indeg = [n \in Nodes |->
          Cardinality({e \in In(n) : \/ status[e.from] \in {"none", "skipped"}
                                     \/ e.from \in ready})]
    /\ driver \in {"picking", "running", "closed"}
    /\ aborted \in BOOLEAN
    /\ chunks \in [Nodes -> 0..MaxChunks]
    /\ buffer \in Nat /\ waiting \in BOOLEAN
    /\ consumer \in {"reading", "ended", "left", "gone"}

(***************************************************************************)
(* A node is executed only when all of its upstreams have ended: those of  *)
(* unconditional edges successfully, those of conditional ones by being    *)
(* executed, never by being skipped (scheduler.ts:204-209, 289-331).       *)
(***************************************************************************)
RunsInOrder ==
    \A n \in Nodes : status[n] \in {"pending", "done", "failed"} =>
        \A e \in In(n) :
            status[e.from] \in IF e.conditional THEN {"done", "failed"} ELSE {"done"}

(***************************************************************************)
(* A run that closes without having been aborted has brought every node to *)
(* an end (the comment at scheduler.ts:394), except those that wait for an *)
(* edge nobody will ever walk: from another such node, or a conditional    *)
(* one from a node that was skipped.                                       *)
(***************************************************************************)
NothingForgotten ==
    driver = "closed" /\ ~aborted =>
        \A n \in Nodes :
            \/ status[n] \in Ended
            \/ /\ status[n] = "none"
               /\ \E e \in In(n) :
                     \/ status[e.from] = "none"
                     \/ e.conditional /\ status[e.from] = "skipped"

\* The generator ends, whether it is read to the end, left or aborted
\* (scheduler.ts:343-350).
StreamEnds == <>(consumer \in {"ended", "gone"})
=============================================================================
