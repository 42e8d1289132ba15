----------------------------- MODULE RunEventBus ----------------------------
(***************************************************************************)
(* lib/run-event-bus.ts for one run id: a numbered, bounded event log, the *)
(* views attached to it, the callers waiting for its end, and the snapshot *)
(* handed to persistence.  Runs of different ids share no state (the Map   *)
(* is keyed by id and so is every file), so one id stands for all.         *)
(*                                                                         *)
(* Every method of the bus is synchronous, so each is ONE action; what     *)
(* interleaves is the callers, the TTL timers, the disk and the restarts.  *)
(*                                                                         *)
(* The buffer is an array whose records have growing ids, kept here as a   *)
(* function from the retained ids to frames: array order is id order.      *)
(***************************************************************************)
EXTENDS Naturals, FiniteSets, Sequences, SequencesExt

CONSTANTS
    Views,         \* SSE connections (RunEventSink), each with its client
    Waiters,       \* callers of wait()
    Cards,         \* process cards: thinking, tool_call, msg_foot, hop_card
    Rows,          \* task rows of the run's plan card
    Emits,         \* the frames the producers of this instance emit
    Outcomes,      \* the statuses they pass to finish()
    MaxEvents,     \* ring buffer cap, RunBusOptions.maxEvents
    MaxId,         \* bound: event ids a run may use
    MaxRuns,       \* bound: Run objects created for the id
    MaxUnlinks,    \* bound: unlinks of the snapshot file under way
    Persist,       \* whether RunBusOptions.persist is given
    MayRestart,    \* whether the process may die and start again
    DiskFails,     \* whether a snapshot write may fail
    RecordsExit    \* whether setExit is called (only the tests do)

VARIABLES
    status,        \* run.status, or "absent" when the Map has no entry
    log,           \* run.events
    nextId,        \* run.nextEventId
    started,       \* run.started
    aborted,       \* run.abort.signal.aborted
    exited,        \* run.exitCode / run.signal recorded by setExit
    conn,          \* per view: "off", "live" (in run.clients), "ended" (end())
    answer,        \* per waiter: "idle", "waiting" or the status it got
    runs,          \* number of Run objects created: identity of the current one
    ttl,           \* Run objects with a scheduled cleanup callback
    pending, flight, erasing, disk,     \* the persisted snapshot
    cursor,        \* client side: last event id received (Last-Event-ID)
    seen,          \* history: records received since the page was loaded
    sent,          \* history: how many records that were
    honest,        \* history: at attach, all up to the cursor had been received
    announced      \* the producers' cards and rows whose message went out

runVars  == <<status, log, nextId, started, aborted, exited>>
viewVars == <<conn, cursor, seen, sent, honest>>
cellVars == <<pending, flight, erasing, disk>>
vars == <<runVars, viewVars, cellVars, answer, runs, ttl, announced>>

Terminal == {"succeeded", "failed", "canceled"}

Frame == [ev : {"text", "status_line", "error"}]
           \cup [ev : {"open", "start", "final"}, card : Cards]
           \cup [ev : {"plan"}, running : SUBSET Rows]
           \cup [ev : {"row"}, row : Rows, to : {"running", "done", "failed"}]

Log == UNION {[D -> Frame] : D \in SUBSET Nat}
BusSnapshot == [status : Terminal \cup {"running"}, log : Log,
                next : Nat \ {0}, exited : BOOLEAN]

(* "open" is a card's message; "start" a patch that says it is under way,    *)
(* which a hop whose upstream is run again gets after its end as well;       *)
(* "final" one that ends it.  A plan's message brings its rows.              *)
Introduces(f) ==
    CASE f.ev = "open" -> {<<"card", f.card>>}
      [] f.ev = "plan" -> {<<"row", r>> : r \in Rows}
      [] OTHER         -> {}
Patches(f) ==
    CASE f.ev \in {"start", "final"} -> {<<"card", f.card>>}
      [] f.ev = "row"                -> {<<"row", f.row>>}
      [] OTHER                       -> {}

EmptyLog == [i \in {} |-> [ev |-> "text"]]
NoSnap == [status |-> "none", log |-> EmptyLog, next |-> 1, exited |-> FALSE]

Cell == INSTANCE SnapshotCell WITH Snapshot <- BusSnapshot

ASSUME BusAssumption ==
    /\ MaxEvents \in Nat \ {0}
    /\ MaxId \in Nat /\ MaxRuns \in Nat /\ MaxUnlinks \in Nat
    /\ Persist \in BOOLEAN /\ MayRestart \in BOOLEAN /\ DiskFails \in BOOLEAN
    /\ Outcomes \subseteq Terminal
    /\ Emits \subseteq Frame
    /\ IsFiniteSet(Cards) /\ IsFiniteSet(Rows)

Pairs(L) == {<<i, L[i]>> : i \in DOMAIN L}
HighestId(S) == CHOOSE m \in S : \A n \in S : n <= m

-----------------------------------------------------------------------------
(* sweepOpenProcessCards: the cards whose opening message is in the log and *)
(* that no final patch settles, and the plan rows whose latest status is    *)
(* "running".  Each gets one synthetic final patch at the end of the log.   *)

(* Mutant: any patch of a card is taken as its end.                         *)
UntouchedCards(L) ==
    {c \in Cards : /\ \E i \in DOMAIN L : L[i] = [ev |-> "open", card |-> c]
                   /\ \A i \in DOMAIN L : <<"card", c>> \notin Patches(L[i])}

OpenCards(L) ==
    {c \in Cards : /\ \E i \in DOMAIN L : L[i] = [ev |-> "open", card |-> c]
                   /\ \A i \in DOMAIN L : L[i] # [ev |-> "final", card |-> c]}

RowPatches(L, r) == {i \in DOMAIN L : L[i].ev = "row" /\ L[i].row = r}

RunningRows(L) ==
    {r \in Rows : \E i \in DOMAIN L :
        /\ L[i].ev = "plan"
        /\ IF RowPatches(L, r) = {} THEN r \in L[i].running
           ELSE L[HighestId(RowPatches(L, r))].to = "running"}

(* The order of the synthetic patches follows the order of their messages,  *)
(* which nothing below depends on.                                          *)
ClosingFrames(L) ==
    SetToSeq({[ev |-> "final", card |-> c] : c \in OpenCards(L)}
             \cup {[ev |-> "row", row |-> r, to |-> "failed"] : r \in RunningRows(L)})

Extended(L, n, frames) ==
    [i \in DOMAIN L \cup n..(n + Len(frames) - 1) |->
        IF i < n THEN L[i] ELSE frames[i - n + 1]]

(* emit: over the cap, drop the oldest status_line frames but the newest    *)
(* one first, and only then the oldest frames of any kind.                  *)

Lowest(S, k) == {i \in S : Cardinality({j \in S : j < i}) < k}

Expendable(L) ==
    LET lines == {i \in DOMAIN L : L[i].ev = "status_line"}
    IN  {i \in lines : \E j \in lines : i < j}

(* Mutant: no second pass when the status lines do not suffice.             *)
RetainedOnePass(L) ==
    LET excess == IF Cardinality(DOMAIN L) > MaxEvents
                  THEN Cardinality(DOMAIN L) - MaxEvents ELSE 0
    IN  DOMAIN L \ Lowest(Expendable(L), excess)

(* The ids that stay. *)
Retained(L) ==
    LET excess == IF Cardinality(DOMAIN L) > MaxEvents
                  THEN Cardinality(DOMAIN L) - MaxEvents ELSE 0
        lines  == Lowest(Expendable(L), excess)
        rest   == DOMAIN L \ lines
    IN  rest \ Lowest(rest, excess - Cardinality(lines))

Trim(L) == [i \in Retained(L) |-> L[i]]

-----------------------------------------------------------------------------
(* A buffer whose ids are all below the next one to hand out. *)
IsLog(L, next) ==
    /\ next \in Nat \ {0}
    /\ DOMAIN L \subseteq 1..(next - 1)
    /\ L = [i \in DOMAIN L |-> L[i]]
    /\ \A i \in DOMAIN L : L[i] \in Frame

IsSnapshot(s) ==
    /\ s = [status |-> s.status, log |-> s.log, next |-> s.next, exited |-> s.exited]
    /\ s.status \in Terminal \cup {"running"}
    /\ IsLog(s.log, s.next)
    /\ s.exited \in BOOLEAN

CellOK ==
    /\ \A s \in {pending, flight, disk} : s = NoSnap \/ IsSnapshot(s)
    /\ erasing \in 0..MaxUnlinks

(* The variables have their types, and ids in the buffer are below nextId.  *)
TypeOK ==
    /\ status \in Terminal \cup {"running", "absent"}
    /\ IsLog(log, nextId)
    /\ started \in BOOLEAN /\ aborted \in BOOLEAN /\ exited \in BOOLEAN
    /\ conn \in [Views -> {"off", "live", "ended"}]
    /\ answer \in [Waiters -> Terminal \cup {"idle", "waiting"}]
    /\ runs \in 0..MaxRuns
    /\ ttl \subseteq 0..runs
    /\ CellOK
    /\ cursor \in [Views -> Nat]
    /\ \A v \in Views : seen[v] \subseteq Nat \X Frame
    /\ sent \in [Views -> Nat]
    /\ honest \in [Views -> BOOLEAN]

Init ==
    /\ status = "absent" /\ log = EmptyLog /\ nextId = 1
    /\ started = FALSE /\ aborted = FALSE /\ exited = FALSE
    /\ conn = [v \in Views |-> "off"]
    /\ answer = [w \in Waiters |-> "idle"]
    /\ runs = 0 /\ ttl = {}
    /\ pending = NoSnap /\ flight = NoSnap /\ erasing = 0 /\ disk = NoSnap
    /\ cursor = [v \in Views |-> 0]
    /\ seen = [v \in Views |-> {}]
    /\ sent = [v \in Views |-> 0]
    /\ honest = [v \in Views |-> TRUE]
    /\ announced = {}

(* The snapshot of the state a method leaves behind. *)
NewSnapshot == [status |-> status', log |-> log', next |-> nextId', exited |-> exited']

Saved == IF Persist THEN Cell!Save(NewSnapshot) ELSE UNCHANGED cellVars
Removed == IF Persist THEN Cell!Remove ELSE UNCHANGED cellVars

Present == status # "absent"

(* ensure(): the run of this id, created in state running when absent. *)
Ensured ==
    IF Present
    THEN /\ UNCHANGED <<status, log, nextId, aborted, exited, runs>>
    ELSE /\ runs < MaxRuns
         /\ runs' = runs + 1
         /\ status' = "running"
         /\ log' = EmptyLog /\ nextId' = 1
         /\ aborted' = FALSE /\ exited' = FALSE

(* The Map entry is deleted; what the Run object held is gone. *)
Deleted ==
    /\ status' = "absent" /\ log' = EmptyLog /\ nextId' = 1
    /\ started' = FALSE /\ aborted' = FALSE /\ exited' = FALSE

(* Mutant: the loop that calls end() is missing. *)
EndNobody == UNCHANGED conn

(* end() on every attached view, then clients.clear(). *)
EndViews == conn' = [v \in Views |-> IF conn[v] = "live" THEN "ended" ELSE conn[v]]

(* Every waiter is called once with the outcome, then waiters.clear(). *)
Answered(outcome) ==
    answer' = [w \in Waiters |-> IF answer[w] = "waiting" THEN outcome ELSE answer[w]]

-----------------------------------------------------------------------------
(* claimStart(id) *)
ClaimStart ==
    /\ ~started
    /\ Ensured
    /\ started' = TRUE
    /\ seen' = IF Present THEN seen ELSE [v \in Views |-> {}]
    /\ sent' = IF Present THEN sent ELSE [v \in Views |-> 0]
    /\ UNCHANGED <<conn, cursor, honest, answer, ttl, cellVars>>

(* emit(id, event, data): number, buffer, trim, fan out, save. *)
Emit(f) ==
    /\ Present
    /\ nextId <= MaxId
    /\ nextId' = nextId + 1
    /\ log' = Trim([i \in DOMAIN log \cup {nextId} |-> IF i = nextId THEN f ELSE log[i]])
    /\ LET live == {v \in Views : conn[v] = "live"}
       IN  /\ cursor' = [v \in Views |-> IF v \in live THEN nextId ELSE cursor[v]]
           /\ seen' = [v \in Views |-> IF v \in live THEN seen[v] \cup {<<nextId, f>>} ELSE seen[v]]
           /\ sent' = [v \in Views |-> IF v \in live THEN sent[v] + 1 ELSE sent[v]]
    /\ UNCHANGED <<status, started, aborted, exited, conn, honest, answer, runs, ttl>>
    /\ Saved

(* What the producers keep to: the id of a card is used for one message, and *)
(* patches follow it (of the hops HopBroadcast shows as much).               *)
Produced(f) ==
    /\ Introduces(f) \cap announced = {}
    /\ Patches(f) \subseteq announced
    /\ announced' = announced \cup Introduces(f)

(* Mutants: a cursor that is replayed again, or skipped over.               *)
ReplayInclusive(L, after) == {i \in DOMAIN L : i >= after}
ReplayPast(L, after) == {i \in DOMAIN L : i > after + 1}

(* The records attach() replays to a client whose last id is after.         *)
Replay(L, after) == {i \in DOMAIN L : i > after}

(* attach(id, after, sink): replay what is past the cursor, then register   *)
(* the sink or, on a terminal run, end it.  A client resumes from the last  *)
(* id it received, or loads the page anew and asks for everything.          *)
Attach(v, fresh) ==
    /\ conn[v] # "live"
    /\ Ensured
    /\ LET after == IF fresh THEN 0 ELSE cursor[v]
           had   == IF fresh \/ ~Present THEN {} ELSE seen[v]
           count == IF fresh \/ ~Present THEN 0 ELSE sent[v]
           new   == Replay(log', after)
       IN  /\ seen' = [w \in Views |-> IF w = v THEN had \cup {<<i, log'[i]>> : i \in new}
                                        ELSE IF Present THEN seen[w] ELSE {}]
           /\ sent' = [w \in Views |-> IF w = v THEN count + Cardinality(new)
                                        ELSE IF Present THEN sent[w] ELSE 0]
           /\ cursor' = [cursor EXCEPT ![v] = IF new = {} THEN after ELSE HighestId(new)]
           /\ honest' = [honest EXCEPT ![v] =
                 \A i \in DOMAIN log' : i <= after => <<i, log'[i]>> \in had]
    /\ conn' = [conn EXCEPT ![v] = IF status' = "running" THEN "live" ELSE "ended"]
    /\ UNCHANGED <<started, answer, ttl, cellVars>>

(* The detach function of attach(), called when the response closes. *)
Detach(v) ==
    /\ conn[v] = "live"
    /\ conn' = [conn EXCEPT ![v] = "off"]
    /\ UNCHANGED <<runVars, cursor, seen, sent, honest, answer, runs, ttl, cellVars>>

(* What finish() does once the guard has passed. *)
Finished(s) ==
    /\ log' = Extended(log, nextId, ClosingFrames(log))
    /\ nextId' = nextId + Len(ClosingFrames(log))
    /\ status' = s
    /\ EndViews
    /\ Answered(s)
    /\ ttl' = ttl \cup {runs}
    /\ UNCHANGED <<started, exited, cursor, seen, sent, honest, runs>>
    /\ Saved

(* Mutant: finish() without its guard against terminal runs. *)
FinishAgain(s) ==
    /\ Present
    /\ Finished(s)
    /\ UNCHANGED aborted

(* finish(id, status) *)
Finish(s) ==
    /\ status = "running"
    /\ Finished(s)
    /\ UNCHANGED aborted

(* cancel(id); shutdownActive() does this for every run that is not over. *)
Cancel ==
    /\ status = "running"
    /\ aborted' = TRUE
    /\ Finished("canceled")

(* reset(id): abort, end the views, release the waiters, forget, remove. *)
Reset ==
    /\ Present
    /\ Persist => erasing < MaxUnlinks
    /\ EndViews
    /\ Answered(IF status \in Terminal THEN status ELSE "canceled")
    /\ Deleted
    /\ UNCHANGED <<cursor, seen, sent, honest, runs, ttl>>
    /\ Removed

(* wait(id): immediate for an absent or terminal run. *)
Wait(w) ==
    /\ answer[w] = "idle"
    /\ answer' = [answer EXCEPT ![w] =
          CASE status = "absent"  -> "canceled"
            [] status = "running" -> "waiting"
            [] OTHER              -> status]
    /\ UNCHANGED <<runVars, viewVars, runs, ttl, cellVars>>

(* setExit(id, code, signal) *)
SetExit ==
    /\ RecordsExit
    /\ Present
    /\ exited' = TRUE
    /\ UNCHANGED <<status, log, nextId, started, aborted, viewVars, answer, runs, ttl>>
    /\ Saved

(* A cleanup callback of scheduleCleanup(): callbacks share one delay, so    *)
(* they fire in the order they were scheduled, and each looks up the id.     *)
Expire ==
    /\ ttl # {}
    /\ ttl' = ttl \ {CHOOSE g \in ttl : \A h \in ttl : g <= h}
    /\ IF status \in Terminal THEN Deleted ELSE UNCHANGED runVars
    /\ UNCHANGED <<viewVars, answer, runs, cellVars>>

(* reconstructFromSnapshot: a snapshot still running when the process died   *)
(* is swept, given a synthetic error frame and marked canceled.              *)
Reconstructed(snap) ==
    LET closing == Append(ClosingFrames(snap.log), [ev |-> "error"])
    IN  IF snap.status \in Terminal
        THEN status' = snap.status /\ log' = snap.log /\ nextId' = snap.next
        ELSE /\ status' = "canceled"
             /\ log' = Extended(snap.log, snap.next, closing)
             /\ nextId' = snap.next + Len(closing)

Recovered(snap) ==
    /\ runs < MaxRuns
    /\ runs' = runs + 1
    /\ Reconstructed(snap)
    /\ started' = TRUE /\ aborted' = FALSE /\ exited' = snap.exited

(* hydrateOne(id) on a run that is not in memory. *)
HydrateOne ==
    /\ ~Present
    /\ Cell!LoadOne # NoSnap
    /\ Recovered(Cell!LoadOne)
    /\ UNCHANGED <<viewVars, answer, ttl>>
    /\ Saved

(* The process dies and createRunBus() runs again: connections drop, waiting *)
(* callers and timers are gone, the file is hydrated and saved back.         *)
Restart ==
    /\ MayRestart
    /\ runs < MaxRuns
    /\ conn' = [v \in Views |-> "off"]
    /\ answer' = [w \in Waiters |-> "idle"]
    /\ ttl' = {}
    /\ flight' = NoSnap /\ erasing' = 0 /\ disk' = disk
    /\ IF disk = NoSnap
       THEN Deleted /\ runs' = runs /\ pending' = NoSnap
       ELSE Recovered(disk) /\ pending' = NewSnapshot
    /\ UNCHANGED <<cursor, seen, sent, honest>>

DiskStep ==
    /\ Cell!CellStep
    /\ UNCHANGED <<runVars, viewVars, answer, runs, ttl>>

Next ==
    \/ \E f \in Emits : Emit(f) /\ Produced(f)
    \/ /\ \/ ClaimStart
          \/ \E v \in Views, fresh \in BOOLEAN : Attach(v, fresh)
          \/ \E v \in Views : Detach(v)
          \/ \E s \in Outcomes : Finish(s)
          \/ Cancel
          \/ Reset
          \/ \E w \in Waiters : Wait(w)
          \/ SetExit
          \/ Expire
          \/ HydrateOne
          \/ Restart
          \/ DiskStep
       /\ UNCHANGED announced

Spec == Init /\ [][Next]_vars

-----------------------------------------------------------------------------
(* "each SSE connection is a detachable VIEW that resumes from a cursor":   *)
(* a view that had received everything up to the cursor it attached with    *)
(* has, while attached, received every record the buffer still retains --   *)
(* nothing falls between the replay and the registration of the sink.       *)
NoMissedRecord ==
    \A v \in Views : conn[v] = "live" /\ honest[v] => Pairs(log) \subseteq seen[v]

(* "a reconnect replays the SAME buffered events -- no duplication": over   *)
(* any number of reconnects no record is sent to a loaded page twice.       *)
ExactlyOnce == \A v \in Views : sent[v] = Cardinality(seen[v])

(* Nobody is left hanging: a run that is over or gone has no attached view  *)
(* and no caller of wait() still parked.                                    *)
NobodyHangs ==
    status # "running" =>
        /\ \A v \in Views : conn[v] # "live"
        /\ \A w \in Waiters : answer[w] # "waiting"

(* The buffer of a run under way never exceeds its cap, however the two     *)
(* eviction rules share the excess; only the final sweep may go past it.    *)
RingBounded == status = "running" => Cardinality(DOMAIN log) <= MaxEvents

(* A client that replays a log shows a card from its message on, and applies *)
(* its patches in order: it spins unless the last word of them is its end.   *)
Spins(L, c) ==
    \E i \in DOMAIN L :
        /\ L[i] = [ev |-> "open", card |-> c]
        /\ \A j \in DOMAIN L : j > i /\ L[j] = [ev |-> "final", card |-> c]
              => \E k \in DOMAIN L : k > j /\ L[k] = [ev |-> "start", card |-> c]

(* (and a row likewise, from the status that its plan gives it)              *)
RowSpins(L, r) ==
    LET Says(k, running) == L[k].ev = "row" /\ L[k].row = r /\ (L[k].to = "running") = running
    IN  \E i \in DOMAIN L :
            /\ L[i].ev = "plan"
            /\ r \in L[i].running \/ (\E j \in DOMAIN L : j > i /\ Says(j, TRUE))
            /\ \A j \in DOMAIN L : j > i /\ Says(j, FALSE)
                  => \E k \in DOMAIN L : k > j /\ Says(k, TRUE)

(* A hop that had ended was started again, for an upstream that runs anew.   *)
StartedAgain(L, c) ==
    \E j, k \in DOMAIN L : /\ j < k
                           /\ L[j] = [ev |-> "final", card |-> c]
                           /\ L[k] = [ev |-> "start", card |-> c]

(* The rebuilt run takes over the log of one that had already ended.        *)
TakenOver == \E s \in {pending, disk} : s.status \in Terminal /\ s.log = log'

Settled(L) ==
    /\ \A c \in Cards : Spins(L, c) => StartedAgain(L, c)
    /\ \A r \in Rows : ~RowSpins(L, r)

(* sweepOpenProcessCards: whatever was emitted and evicted before, the log  *)
(* a run ends with -- by finish, by cancel or by a restart -- replays to a  *)
(* timeline without a card or a task row that still spins; but for a card   *)
(* that was started again, of which the sweep takes the earlier end for the *)
(* last word (README, section 4).                                           *)
EndsSettled ==
    [][/\ status' \in Terminal
       /\ \/ status = "running" /\ runs' = runs
          \/ runs' # runs /\ ~TakenOver
       => Settled(log')]_vars

(* A run ends once: while the Run object lives, no later finish, cancel or   *)
(* other call rewrites its outcome.                                         *)
EndsOnce ==
    [][/\ status \in Terminal
       /\ status' \in Terminal
       /\ runs' = runs
       => status' = status]_vars
=============================================================================
