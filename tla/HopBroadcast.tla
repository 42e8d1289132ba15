----------------------------- MODULE HopBroadcast -----------------------------
(***************************************************************************)
(* How the handovers of one DAG round show in its timeline                 *)
(* (chat-dag/hop-broadcast.ts around storage/agent-hops.ts).               *)
(*                                                                         *)
(* The executor opens, starts and settles hops.  Each call changes the     *)
(* row in the database first and then the card: open's card frame goes out *)
(* when the names of the two agents have been resolved, and until then the *)
(* patches of start and settle are queued.  Frames and patches go to the   *)
(* log of the round's run, and the timeline is what replaying it shows.    *)
(*                                                                         *)
(* The executor is free here to call start and settle again for a hop that *)
(* is settled: TeamDag does when a reviewer sends a node back and when the *)
(* closing sweep settles what a failed node had already received.  A round *)
(* that threw has finished while other jobs of it still call.              *)
(*                                                                         *)
(* Rows are in the database at once, the log reaches the disk when the     *)
(* debounced snapshot is flushed; a restart sweeps the rows and hydrates   *)
(* the log.                                                                *)
(***************************************************************************)
EXTENDS Naturals, SequencesExt

CONSTANTS
    Hops,      \* hops the round may open
    Outcomes,  \* the statuses it settles them with
    MaxCalls   \* bound: start and settle calls per hop

ASSUME HopAssumption ==
    /\ IsFiniteSet(Hops)
    /\ {"none", "pending", "running"} \cap Outcomes = {}
    /\ "aborted" \in Outcomes
    /\ MaxCalls \in Nat

VARIABLES
    row,       \* agent_hops.status; "none" before open
    ready,     \* hops whose frame went out
    queue,     \* per hop: patches that wait for it
    log,       \* the run's events: <<hop, status>>, a frame says "pending"
    finished,  \* the round's run has ended
    disk,      \* the run's snapshot: its log, and whether it had finished
    restarted, \* the process died and is up again
    calls,     \* per hop: start and settle calls so far
    again,     \* history: hops called again after they were settled
    late       \* history: hops whose card came or changed after the run had finished

hopVars == <<row, ready, queue, log, finished, disk, restarted, calls, again, late>>
durable == <<disk, restarted>>

HopInit ==
    /\ row = [h \in Hops |-> "none"]
    /\ ready = {}
    /\ queue = [h \in Hops |-> <<>>]
    /\ log = <<>>
    /\ finished = FALSE
    /\ disk = [log |-> <<>>, finished |-> FALSE]
    /\ restarted = FALSE
    /\ calls = [h \in Hops |-> 0]
    /\ again = {} /\ late = {}

----------------------------------------------------------------------------

\* open: a row and a card that waits for its names.
Open(h) ==
    /\ ~restarted /\ row[h] = "none"
    /\ row' = [row EXCEPT ![h] = "pending"]
    /\ UNCHANGED <<ready, queue, log, finished, durable, calls, again, late>>

\* Mutant: nothing waits for the frame.
PushPatchNow(h, status) ==
    /\ log' = Append(log, <<h, status>>)
    /\ UNCHANGED queue

\* pushPatch: out, if the card is; else into its queue.
PushPatch(h, status) ==
    \/ /\ h \in ready
       /\ log' = Append(log, <<h, status>>)
       /\ UNCHANGED queue
    \/ /\ h \notin ready
       /\ queue' = [queue EXCEPT ![h] = Append(@, status)]
       /\ UNCHANGED log

Late(h) == late' = IF finished THEN late \cup {h} ELSE late

Called(h) ==
    /\ ~restarted /\ row[h] # "none" /\ calls[h] < MaxCalls
    /\ calls' = [calls EXCEPT ![h] = @ + 1]
    /\ again' = IF row[h] \in Outcomes THEN again \cup {h} ELSE again
    /\ Late(h)

\* start: the row moves only if it is pending, the card whatever it shows.
Start(h) ==
    /\ Called(h)
    /\ row' = [row EXCEPT ![h] = IF @ = "pending" THEN "running" ELSE @]
    /\ PushPatch(h, "running")
    /\ UNCHANGED <<ready, finished, durable>>

\* settle: a settled row keeps its status, the card takes the new one.
Settle(h, status) ==
    /\ Called(h)
    /\ row' = [row EXCEPT ![h] = IF @ \in Outcomes THEN @ ELSE status]
    /\ PushPatch(h, status)
    /\ UNCHANGED <<ready, finished, durable>>

\* Mutant: what was queued stays queued.
ResolvedBare(h) ==
    /\ ~restarted /\ row[h] # "none" /\ h \notin ready
    /\ ready' = ready \cup {h}
    /\ Late(h)
    /\ log' = Append(log, <<h, "pending">>)
    /\ UNCHANGED <<row, queue, finished, durable, calls, again>>

\* Both names are resolved, or fell back to the ids: the frame goes out, and
\* after it what was queued, even when the run has ended meanwhile.
Resolved(h) ==
    /\ ~restarted /\ row[h] # "none" /\ h \notin ready
    /\ ready' = ready \cup {h}
    /\ Late(h)
    /\ log' = Append(log, <<h, "pending">>)
                \o [i \in DOMAIN queue[h] |-> <<h, queue[h][i]>>]
    /\ queue' = [queue EXCEPT ![h] = <<>>]
    /\ UNCHANGED <<row, finished, durable, calls, again>>

----------------------------------------------------------------------------

\* Mutant: the bus forgets the cards of handovers.
ClosedBare(events) == events

\* Cards in a log that no patch ever settled.
OpenCards(events) ==
    {h \in Hops : /\ \E i \in DOMAIN events : events[i] = <<h, "pending">>
                  /\ \A i \in DOMAIN events :
                        events[i][1] = h => events[i][2] \notin Outcomes}

\* The bus closes them; in which order, no card can tell.
Closed(events) ==
    LET open == SetToSeq(OpenCards(events))
    IN  events \o [i \in DOMAIN open |-> <<open[i], "aborted">>]

\* finish, at the end of the round or when it threw.
Finish ==
    /\ ~finished
    /\ finished' = TRUE
    /\ log' = Closed(log)
    /\ UNCHANGED <<row, ready, queue, durable, calls, again, late>>

\* The debounced snapshot is written.
Flush ==
    /\ ~restarted
    /\ disk' = [log |-> log, finished |-> finished]
    /\ UNCHANGED <<row, ready, queue, log, finished, restarted, calls, again, late>>

(***************************************************************************)
(* The process dies and boots: rows that are open are settled, the run is  *)
(* hydrated and ends if it had not, and nobody calls for its hops again.   *)
(***************************************************************************)
Restart ==
    /\ ~restarted
    /\ restarted' = TRUE
    /\ row' = [h \in Hops |-> IF row[h] \in {"pending", "running"} THEN "aborted" ELSE row[h]]
    /\ log' = IF disk.finished THEN disk.log ELSE Closed(disk.log)
    /\ finished' = TRUE
    /\ queue' = [h \in Hops |-> <<>>]
    /\ UNCHANGED <<ready, disk, calls, again, late>>

HopNext ==
    \/ Finish \/ Flush \/ Restart
    \/ \E h \in Hops :
          \/ Open(h) \/ Start(h) \/ Resolved(h)
          \/ \E status \in Outcomes : Settle(h, status)

\* Names are fetched by calls that end, with the name or with an error.
HopSpec == HopInit /\ [][HopNext]_hopVars /\ \A h \in Hops : WF_hopVars(Resolved(h))

----------------------------------------------------------------------------
(* Properties.                                                             *)

\* What replaying the log shows of a hop: the status that came last.
Shown(h, status) ==
    \E i \in DOMAIN log : /\ log[i] = <<h, status>>
                          /\ \A j \in DOMAIN log : j > i => log[j][1] # h

(***************************************************************************)
(* A patch never comes before the frame of its card, and a card has one    *)
(* frame (hop-broadcast.ts:10-13, 49-53): a client drops what it does not  *)
(* know, and a second frame would undo the patches.                        *)
(***************************************************************************)
FrameFirst ==
    \A i \in DOMAIN log :
        (log[i][2] = "pending") <=> (\A j \in 1..(i - 1) : log[j][1] # log[i][1])

(***************************************************************************)
(* A hop that was settled ends up so on the timeline, in the status its    *)
(* row has, however late the names came and also when the run had ended by *)
(* then, unless the executor called it again afterwards, or the process    *)
(* died before the card was on disk (hop-broadcast.ts:87-110).             *)
(***************************************************************************)
SettledShown ==
    \A h \in Hops :
        row[h] \in Outcomes ~> Shown(h, row[h]) \/ h \in again \/ restarted

(***************************************************************************)
(* After a restart no handover is left open, neither in its row nor on the *)
(* timeline (run-event-bus.ts:257-259, index.ts:115-121), but for cards of *)
(* hops that were called again once they were settled and those that came  *)
(* or changed when the run had finished: the sweep takes both for closed.  *)
(***************************************************************************)
NothingLeftOpen ==
    restarted => \A h \in Hops :
        /\ row[h] \notin {"pending", "running"}
        /\ Shown(h, "pending") \/ Shown(h, "running") => h \in again \cup late
=============================================================================
