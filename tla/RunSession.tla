------------------------------ MODULE RunSession ----------------------------
(***************************************************************************)
(* routes/runs/run-sessions for one session id: the HTTP handlers, the     *)
(* pipelines they start, and what those share -- the run bus, the session  *)
(* store, the run index and the snapshot file.                             *)
(*                                                                         *)
(* A handler runs without interruption between two awaits, so each action  *)
(* is one such stretch and makes several calls of the bus at once; the bus *)
(* is therefore kept here as one value, with an operator per method.  Its  *)
(* log is reduced, while the run is under way, to the pipelines that wrote *)
(* to it and what sort of frame (RunEventBus has the records and views).   *)
(***************************************************************************)
EXTENDS Naturals, FiniteSets

CONSTANTS
    MaxPipes,      \* bound: pipelines started for the session
    MaxRuns,       \* bound: Run objects created for the session
    Persist,       \* whether the bus was given a snapshot store
    HasCwd,        \* whether session.cwd is set (git probes)
    MayExpire,     \* whether the 30 min TTL of an ended run may pass
    MayRestart,    \* whether the process may die and start again
    MayRerun       \* whether clients use retry and resume

ASSUME SessionAssumption ==
    /\ MaxPipes \in Nat \ {0} /\ MaxRuns \in Nat \ {0}
    /\ {Persist, HasCwd, MayExpire, MayRestart, MayRerun} \subseteq BOOLEAN

Pipes == 1..MaxPipes
(* What the generator says, or the error it failed with; and all the rest.  *)
Marks == Pipes \X {"reply", "rest"}
Terminal == {"succeeded", "failed", "canceled"}

VARIABLES
    bus,           \* runBus entry: object identity, status, started, log authors
    aborted,       \* Run objects whose AbortController has fired
    timers,        \* Run objects with a scheduled cleanup callback
    pending, flight, erasing, disk,     \* the persisted snapshot
    pc,            \* where each pipeline is: the await it is parked at
    on,            \* the Run object whose AbortController it captured
    saw,           \* sawComplete / sawError
    session,       \* sessionStore.has(id)
    file,          \* the session's file exists
    writing,       \* a write of the session file is under way
    unlinking,     \* an unlink of the session file is under way
    loading,       \* sessionStore.loadAll() has not reached the file yet
    index,         \* run_index.status; "none" before the row exists,
                   \* "missed" a null that is left because its write failed
    stopping,      \* gracefulShutdown() is waiting out its 3 s of grace
    asked          \* history: a rerun was requested since the last start

cellVars == <<pending, flight, erasing, disk>>
sessVars == <<session, file, writing, unlinking, loading>>
pipeVars == <<pc, on, saw>>
vars == <<bus, aborted, timers, cellVars, pipeVars, sessVars, index, stopping, asked>>

NoRun == [obj |-> 0, status |-> "absent", started |-> FALSE, authors |-> {}]
NoSnap == [status |-> "none"]
RunSnapshot == [status : Terminal \cup {"running"}]

Cell == INSTANCE SnapshotCell WITH Snapshot <- RunSnapshot, DiskFails <- FALSE

(* The variables have their types, and the Map holds no run without an id.   *)
TypeOK ==
    /\ bus \in [obj : 0..MaxRuns, status : Terminal \cup {"running", "absent"},
                started : BOOLEAN, authors : SUBSET Marks]
    /\ bus.obj = 0 <=> bus = NoRun
    /\ aborted \subseteq 1..MaxRuns
    /\ timers \subseteq 1..MaxRuns
    /\ {pending, flight, disk} \subseteq RunSnapshot \cup {NoSnap}
    /\ erasing \in Nat
    /\ pc \in [Pipes -> {"idle", "probe", "load", "stream", "critique", "git", "done"}]
    /\ on \in [Pipes -> 0..MaxRuns]
    /\ saw \in [Pipes -> {"none", "complete", "error"}]
    /\ {session, file, writing, unlinking, loading, stopping, asked} \subseteq BOOLEAN
    /\ index \in Terminal \cup {"none", "null", "missed"}

Init ==
    /\ bus = NoRun /\ aborted = {} /\ timers = {}
    /\ pending = NoSnap /\ flight = NoSnap /\ erasing = 0 /\ disk = NoSnap
    /\ pc = [p \in Pipes |-> "idle"]
    /\ on = [p \in Pipes |-> 0]
    /\ saw = [p \in Pipes |-> "none"]
    /\ session = FALSE /\ file = FALSE /\ writing = FALSE
    /\ unlinking = FALSE /\ loading = FALSE
    /\ index = "none"
    /\ stopping = FALSE /\ asked = FALSE

-----------------------------------------------------------------------------
(* The bus.  Objects are numbered in the order of their creation.           *)

Known == {bus.obj} \cup aborted \cup timers \cup {on[p] : p \in Pipes}
Fresh == CHOOSE n \in 1..(MaxRuns + 1) : n \notin Known /\ \A m \in Known : m < n

Snapped(b) == [status |-> b.status]

(* Mutant: claimStart() does not set started. *)
Unclaimed(b) == b

(* ensure() and claimStart() *)
Ensured(b) == IF b.obj # 0 THEN b ELSE [NoRun EXCEPT !.obj = Fresh, !.status = "running"]
Claimed(b) == [b EXCEPT !.started = TRUE]

(* emit(): dropped when the Map has no entry, whatever the status otherwise. *)
Emitted(b, p, kind) == IF b.obj = 0 THEN b ELSE [b EXCEPT !.authors = @ \cup {<<p, kind>>}]

(* Mutant: finish() that a failed pipeline never gets to. *)
EndedUnlessFailed(b, outcome) ==
    IF b.status = "running" /\ outcome # "failed" THEN [b EXCEPT !.status = outcome] ELSE b

(* finish() and cancel(): no-ops on a run that is over. *)
Ended(b, outcome) == IF b.status = "running" THEN [b EXCEPT !.status = outcome] ELSE b
Scheduled(b) == IF b.status = "running" THEN timers \cup {b.obj} ELSE timers

(* reconstructFromSnapshot(): the rebuilt run is over, its log taken over as *)
(* it is; who wrote to it no longer matters.                                *)
Rebuilt(snap) ==
    [obj |-> Fresh, started |-> TRUE, authors |-> {},
     status |-> IF snap.status = "running" THEN "canceled" ELSE snap.status]

(* Every method but ensure, claimStart and the TTL callback saves. *)
SaveRun == IF Persist /\ bus'.obj # 0 THEN Cell!Save(Snapped(bus')) ELSE UNCHANGED cellVars

-----------------------------------------------------------------------------
(* The session store: memory first, then the file, fire and forget. *)

StoreSession == session' = TRUE /\ writing' = TRUE /\ UNCHANGED <<file, unlinking, loading>>
DropSession == session' = FALSE /\ unlinking' = TRUE /\ UNCHANGED <<file, writing, loading>>

SessionFileStep ==
    /\ \/ writing /\ writing' = FALSE /\ file' = TRUE /\ UNCHANGED unlinking
       \/ unlinking /\ unlinking' = FALSE /\ file' = FALSE /\ UNCHANGED writing
    /\ UNCHANGED <<session, loading, bus, aborted, timers, cellVars, pipeVars, index, stopping, asked>>

(* loadAll() reaches the file of this session, some time after the boot. *)
LoadSession ==
    /\ loading
    /\ loading' = FALSE
    /\ session' = (session \/ file)
    /\ UNCHANGED <<file, writing, unlinking, bus, aborted, timers, cellVars, pipeVars, index, stopping, asked>>

(* POST /api/run-sessions *)
Create ==
    /\ index = "none"
    /\ StoreSession
    /\ index' = "null"
    /\ UNCHANGED <<bus, aborted, timers, cellVars, pipeVars, stopping, asked>>

(* ... which also sweeps every session that has been idle for a day. *)
SweepSession ==
    /\ MayExpire
    /\ session
    /\ DropSession
    /\ UNCHANGED <<bus, aborted, timers, cellVars, pipeVars, index, stopping, asked>>

-----------------------------------------------------------------------------
(* GET /:id/stream: with a session, attach and start the pipeline unless    *)
(* somebody has; without one, hydrate the run if need be and only replay.   *)

Streaming ==
    /\ session
    /\ StoreSession
    /\ Fresh <= MaxRuns \/ bus.obj # 0
    /\ IF Ensured(bus).started
       THEN bus' = bus /\ UNCHANGED <<pipeVars, asked>>
       ELSE \E p \in Pipes :
               /\ pc[p] = "idle" /\ \A q \in Pipes : q < p => pc[q] # "idle"
               /\ bus' = Claimed(Ensured(bus))
               /\ pc' = [pc EXCEPT ![p] = IF HasCwd THEN "probe" ELSE "load"]
               /\ on' = [on EXCEPT ![p] = bus'.obj]
               /\ asked' = FALSE
               /\ UNCHANGED saw
    /\ UNCHANGED <<aborted, timers, cellVars, index, stopping>>

Replaying ==
    /\ ~session
    /\ bus.obj = 0
    /\ Cell!LoadOne # NoSnap
    /\ Fresh <= MaxRuns
    /\ bus' = Rebuilt(Cell!LoadOne)
    /\ SaveRun
    /\ UNCHANGED <<aborted, timers, pipeVars, sessVars, index, stopping, asked>>

(* Mutant: reset() forgets to abort. *)
RerunUnaborted ==
    /\ session
    /\ erasing = 0
    /\ bus' = NoRun
    /\ IF Persist /\ bus.obj # 0 THEN Cell!Remove ELSE UNCHANGED cellVars
    /\ asked' = TRUE
    /\ UNCHANGED <<aborted, timers, pipeVars, sessVars, index, stopping>>

(* POST /:id/steps/:n/retry and POST /:id/resume end alike: a frame for the *)
(* attached views, then runBus.reset(id), which aborts, deletes and removes. *)
(* Bound: an unlink at a time.                                              *)
Rerun ==
    /\ session
    /\ erasing = 0
    /\ bus' = NoRun
    /\ aborted' = aborted \cup ({bus.obj} \ {0})
    /\ IF Persist /\ bus.obj # 0 THEN Cell!Remove ELSE UNCHANGED cellVars
    /\ asked' = TRUE
    /\ UNCHANGED <<timers, pipeVars, sessVars, index, stopping>>

Retry == MayRerun /\ Rerun

Resume(allDone) ==
    /\ MayRerun
    /\ ~(allDone /\ bus.status # "running")
    /\ Rerun

(* POST /:id/abort *)
Abort ==
    /\ bus.obj # 0 \/ session
    /\ bus' = Ended(bus, "canceled")
    /\ timers' = Scheduled(bus)
    /\ aborted' = IF bus.status = "running" THEN aborted \cup {bus.obj} ELSE aborted
    /\ IF bus.status = "running" THEN SaveRun ELSE UNCHANGED cellVars
    /\ DropSession
    /\ UNCHANGED <<pipeVars, index, stopping, asked>>

(* cancelRunSession(), the group chat's stop button: the session stays. *)
CancelRunSession ==
    LET b == IF bus.obj = 0 /\ Cell!LoadOne # NoSnap THEN Rebuilt(Cell!LoadOne) ELSE bus
    IN  /\ b.obj # 0
        /\ Fresh <= MaxRuns \/ bus.obj # 0
        /\ bus' = Ended(b, "canceled")
        /\ timers' = Scheduled(b)
        /\ aborted' = IF b.status = "running" THEN aborted \cup {b.obj} ELSE aborted
        /\ IF bus' = bus THEN UNCHANGED cellVars ELSE SaveRun
        /\ UNCHANGED <<pipeVars, sessVars, index, stopping, asked>>

-----------------------------------------------------------------------------
(* A pipeline, one action per stretch between two awaits. *)

Active(p) == pc[p] \notin {"idle", "done"}
Halted(p) == on[p] \in aborted

EmitsOnly(p, kind) ==
    /\ bus' = Emitted(bus, p, kind)
    /\ SaveRun
    /\ UNCHANGED <<aborted, timers, sessVars, index, stopping, asked>>

(* The end of the finally block: runBus.finish(id), then the run index; that *)
(* a write of it fails is swallowed.                                        *)
Finishes(p, b) ==
    LET outcome == IF saw'[p] = "error" THEN "failed" ELSE "succeeded"
    IN  /\ bus' = Ended(b, outcome)
        /\ timers' = Scheduled(b)
        /\ index' \in {outcome, IF index = "null" THEN "missed" ELSE index}
        /\ pc' = [pc EXCEPT ![p] = "done"]
        /\ UNCHANGED <<on, aborted, sessVars, stopping, asked>>
        /\ IF bus' = bus /\ b = bus THEN UNCHANGED cellVars ELSE SaveRun

(* await resolveGitHead(): then the classify frame. *)
Probed(p) ==
    /\ pc[p] = "probe"
    /\ pc' = [pc EXCEPT ![p] = "load"]
    /\ UNCHANGED <<on, saw>>
    /\ EmitsOnly(p, "rest")

(* await knowledgeBlock(): then compose, the user turn, and the generator. *)
Loaded(p) ==
    /\ pc[p] = "load"
    /\ pc' = [pc EXCEPT ![p] = "stream"]
    /\ UNCHANGED <<on, saw>>
    /\ EmitsOnly(p, "rest")

(* Mutant: the signal is not looked at when the generator yields. *)
StreamedOn(p, kind) ==
    /\ pc[p] = "stream"
    /\ saw' = [saw EXCEPT ![p] = IF kind = "text" \/ @ = "complete" THEN @ ELSE kind]
    /\ UNCHANGED <<pc, on>>
    /\ EmitsOnly(p, "reply")

(* One event of the generator; "complete" outweighs "error". *)
Streamed(p, kind) ==
    /\ pc[p] = "stream"
    /\ ~Halted(p)
    /\ saw' = [saw EXCEPT ![p] = IF kind = "text" \/ @ = "complete" THEN @ ELSE kind]
    /\ UNCHANGED <<pc, on>>
    /\ EmitsOnly(p, "reply")

(* What the finally block does next: git evidence, or the end. *)
ToGitOrFinish(p, b) ==
    IF ~Halted(p) /\ saw'[p] # "none" /\ HasCwd
    THEN /\ pc' = [pc EXCEPT ![p] = "git"]
         /\ bus' = b
         /\ UNCHANGED <<on, timers, aborted, sessVars, index, stopping, asked>>
         /\ IF b = bus THEN UNCHANGED cellVars ELSE SaveRun
    ELSE Finishes(p, b)

(* The loop ends: drained, left because of the abort, or thrown out of.     *)
(* A blueprint that completed is criticised unless the run was aborted.     *)
Drained(p, thrown, critique) ==
    /\ pc[p] = "stream"
    /\ saw' = [saw EXCEPT ![p] = IF thrown /\ ~Halted(p) /\ @ = "none" THEN "error" ELSE @]
    /\ LET b == IF thrown /\ ~Halted(p) THEN Emitted(bus, p, "reply") ELSE bus
       IN  IF critique /\ saw'[p] = "complete" /\ ~Halted(p)
           THEN /\ pc' = [pc EXCEPT ![p] = "critique"]
                /\ bus' = b
                /\ UNCHANGED <<on, timers, aborted, sessVars, index, stopping, asked>>
                /\ IF b = bus THEN UNCHANGED cellVars ELSE SaveRun
           ELSE ToGitOrFinish(p, b)

(* await runCritique(): progress frames on the way, the result at the end. *)
Criticising(p) ==
    /\ pc[p] = "critique"
    /\ UNCHANGED pipeVars
    /\ EmitsOnly(p, "rest")

Criticised(p) ==
    /\ pc[p] = "critique"
    /\ UNCHANGED saw
    /\ ToGitOrFinish(p, Emitted(bus, p, "rest"))

(* await inspectGitRun(): evidence cards if there is any, then the end. *)
Inspected(p, evidence) ==
    /\ pc[p] = "git"
    /\ UNCHANGED saw
    /\ Finishes(p, IF evidence THEN Emitted(bus, p, "rest") ELSE bus)

(* The loop watcher of a pipeline emits until its finally block stops it. *)
Watched(p) ==
    /\ Active(p)
    /\ UNCHANGED pipeVars
    /\ EmitsOnly(p, "rest")

PipeStep(p) ==
    \/ Probed(p)
    \/ Loaded(p)
    \/ \E thrown, critique \in BOOLEAN : Drained(p, thrown, critique)
    \/ Criticised(p)
    \/ \E evidence \in BOOLEAN : Inspected(p, evidence)

PipeFrame(p) ==
    \/ \E kind \in {"text", "complete", "error"} : Streamed(p, kind)
    \/ Criticising(p)
    \/ Watched(p)

-----------------------------------------------------------------------------
(* The oldest cleanup callback fires and looks the run up by id.  It does so *)
(* 30 min after it was scheduled: neither within the 3 s grace of a shutdown *)
(* nor while a pipeline still unwinds from the abort of its run.            *)
Expire ==
    /\ MayExpire
    /\ ~stopping /\ \A p \in Pipes : ~(Active(p) /\ Halted(p))
    /\ timers # {}
    /\ timers' = timers \ {CHOOSE g \in timers : \A h \in timers : g <= h}
    /\ bus' = IF bus.status \in Terminal THEN NoRun ELSE bus
    /\ UNCHANGED <<aborted, cellVars, pipeVars, sessVars, index, stopping, asked>>

DiskStep ==
    /\ Cell!CellStep
    /\ UNCHANGED <<bus, aborted, timers, pipeVars, sessVars, index, stopping, asked>>

(* gracefulShutdown(): every run that is not over is cancelled. *)
Shutdown ==
    /\ MayRestart
    /\ ~stopping
    /\ stopping' = TRUE
    /\ bus' = Ended(bus, "canceled")
    /\ timers' = Scheduled(bus)
    /\ aborted' = IF bus.status = "running" THEN aborted \cup {bus.obj} ELSE aborted
    /\ IF bus.status = "running" THEN SaveRun ELSE UNCHANGED cellVars
    /\ UNCHANGED <<pipeVars, sessVars, index, asked>>

(* Mutant: no sweep. *)
Unswept(status) == status

(* sweepOrphanRunIndex(): rows left without a status are over.               *)
Swept(status) == IF status \in {"null", "missed"} THEN "canceled" ELSE status

(* The process dies and boots: runs are hydrated at once, sessions later,   *)
(* and index rows without a status are swept.                               *)
Restart ==
    /\ MayRestart
    /\ Fresh <= MaxRuns
    /\ bus' = IF disk = NoSnap THEN NoRun ELSE Rebuilt(disk)
    /\ timers' = {}
    /\ pending' = IF disk = NoSnap THEN NoSnap ELSE Snapped(bus')
    /\ flight' = NoSnap /\ erasing' = 0 /\ disk' = disk
    /\ pc' = [p \in Pipes |-> IF Active(p) THEN "done" ELSE pc[p]]
    /\ session' = FALSE /\ writing' = FALSE /\ unlinking' = FALSE
    /\ loading' = TRUE
    /\ index' = Swept(index)
    /\ stopping' = FALSE
    /\ UNCHANGED <<aborted, on, saw, file, asked>>

Next ==
    \/ Create \/ SweepSession \/ SessionFileStep \/ LoadSession
    \/ Streaming \/ Replaying
    \/ Retry \/ (\E allDone \in BOOLEAN : Resume(allDone))
    \/ Abort \/ CancelRunSession
    \/ \E p \in Pipes : PipeStep(p) \/ PipeFrame(p)
    \/ Expire \/ DiskStep \/ Shutdown \/ Restart

Spec == Init /\ [][Next]_vars

(* Awaits return: the generator, the critic and git end or time out.        *)
FairSpec == Spec /\ \A p \in Pipes : WF_vars(PipeStep(p))

-----------------------------------------------------------------------------
(* "run the pipeline EXACTLY ONCE" (index.ts:952): however often clients    *)
(* open the stream, a second pipeline starts only after a retry or resume.  *)
ExecutesOnce ==
    [][\A p \in Pipes :
        /\ pc[p] = "idle" /\ pc'[p] # "idle"
        /\ \E q \in Pipes : pc[q] # "idle"
        => asked]_vars

(* At any time at most one pipeline is spending tokens: all others of the   *)
(* session have been told to stop through the signal they captured.         *)
OneSpender ==
    \A p, q \in Pipes :
        Active(p) /\ Active(q) /\ ~Halted(p) /\ ~Halted(q) => p = q

(* reset() "drops a run entirely so the next claimStart re-runs from        *)
(* scratch": in the log of a run nothing is said by the agents of another,  *)
(* and no error reported that another failed with.  Only what a pipeline    *)
(* that was told to stop emits on its way out may be (README, section 4).   *)
OwnFrames ==
    bus.status = "running" =>
        \A p \in Pipes :
            /\ <<p, "reply">> \in bus.authors => on[p] = bus.obj
            /\ <<p, "rest">> \in bus.authors => on[p] = bus.obj \/ Halted(p)

(* Nothing is left spinning: a run that was started ends, whichever way the *)
(* pipeline that drives it goes, or is replaced.                            *)
RunsEnd == \A n \in 1..MaxRuns :
    bus.obj = n /\ bus.status = "running" ~> ~(bus.obj = n /\ bus.status = "running")

(* "the terminal status is written to the persistent index": every pipeline *)
(* leaves the row with a terminal status, or a null for the next boot to     *)
(* sweep if the write failed; and one lost in a crash leaves that null too. *)
IndexSettles == \A p \in Pipes : Active(p) ~> index \in Terminal \cup {"missed"}
=============================================================================
