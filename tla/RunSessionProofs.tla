--------------------------- MODULE RunSessionProofs ---------------------------
(***************************************************************************)
(* Proofs about RunSession, for any number of pipelines and Run objects,   *)
(* with a persisted run or without, a working directory or without.        *)
(*                                                                         *)
(* What expires, restarts and is run again are switches of the model, and  *)
(* hypotheses of the theorems: with all of them on a pipeline can outlive  *)
(* its run and end the next one.                                           *)
(***************************************************************************)
EXTENDS RunSession, TLAPS

Status == Terminal \cup {"running", "absent"}
Bus == [obj : 0..MaxRuns, status : Status, started : BOOLEAN, authors : SUBSET Marks]
Place == {"idle", "probe", "load", "stream", "critique", "git", "done"}

CellOK == {pending, flight, disk} \subseteq RunSnapshot \cup {NoSnap} /\ erasing \in Nat

(* A run in the Map was claimed when it was made.                           *)
BusOK(b) ==
    /\ b \in Bus
    /\ b.obj = 0 => b = NoRun
    /\ b.obj # 0 => b.started /\ b.status # "absent"

Typed == TypeOK /\ BusOK(bus)

-----------------------------------------------------------------------------
(* The methods of the bus.                                                  *)

LEMMA FreshIsNew ==
    ASSUME TypeOK
    PROVE  Fresh \in 1..(MaxRuns + 1) /\ Fresh \notin Known
<1>1. Known \subseteq 0..MaxRuns
  <2>1. bus.obj \in 0..MaxRuns /\ aborted \subseteq 1..MaxRuns /\ timers \subseteq 1..MaxRuns
    BY DEF TypeOK
  <2>2. \A p \in Pipes : on[p] \in 0..MaxRuns
    BY DEF TypeOK
  <2>3. 1..MaxRuns \subseteq 0..MaxRuns
    BY SessionAssumption
  <2> QED BY <2>1, <2>2, <2>3, Zenon DEF Known
<1>2. /\ MaxRuns + 1 \in 1..(MaxRuns + 1)
      /\ MaxRuns + 1 \notin Known
      /\ \A m \in Known : m < MaxRuns + 1
  BY <1>1, SessionAssumption
<1>3. \E n \in 1..(MaxRuns + 1) : n \notin Known /\ \A m \in Known : m < n
  BY <1>2
<1> HIDE DEF Known
<1> QED BY <1>3 DEF Fresh

LEMMA NoRunOK == BusOK(NoRun)
BY SessionAssumption DEF BusOK, Bus, NoRun, Status

LEMMA EmittedOK ==
    ASSUME NEW b, BusOK(b), NEW p \in Pipes, NEW kind \in {"reply", "rest"}
    PROVE  /\ BusOK(Emitted(b, p, kind))
           /\ Emitted(b, p, kind).obj = b.obj /\ Emitted(b, p, kind).status = b.status
           /\ Emitted(b, p, kind).authors \subseteq b.authors \cup {<<p, kind>>}
<1>1. <<p, kind>> \in Marks
  BY DEF Marks
<1>2. CASE b.obj = 0
  BY <1>2 DEF Emitted
<1>3. CASE b.obj # 0
  <2>1. Emitted(b, p, kind) = [b EXCEPT !.authors = b.authors \cup {<<p, kind>>}]
    BY <1>3 DEF Emitted
  <2>2. b.authors \cup {<<p, kind>>} \in SUBSET Marks
    BY <1>1 DEF BusOK, Bus
  <2> HIDE DEF Marks
  <2> QED BY <1>3, <2>1, <2>2 DEF BusOK, Bus, NoRun
<1> QED BY <1>2, <1>3

LEMMA EndedOK ==
    ASSUME NEW b, BusOK(b), NEW outcome \in Terminal
    PROVE  /\ BusOK(Ended(b, outcome))
           /\ Ended(b, outcome).obj = b.obj
           /\ Ended(b, outcome).authors = b.authors
           /\ \/ Ended(b, outcome) = b /\ b.status # "running"
              \/ Ended(b, outcome).status = outcome
           /\ Ended(b, outcome).status # "running"
<1>1. CASE b.status = "running"
  <2>1. Ended(b, outcome) = [b EXCEPT !.status = outcome]
    BY <1>1 DEF Ended
  <2>2. outcome # "running" /\ outcome # "absent" /\ outcome \in Status
    BY DEF Terminal, Status
  <2> QED BY <1>1, <2>1, <2>2 DEF BusOK, Bus, NoRun
<1>2. CASE b.status # "running"
  BY <1>2 DEF Ended
<1> QED BY <1>1, <1>2

LEMMA NewRunOK ==
    ASSUME TypeOK, Fresh <= MaxRuns
    PROVE  /\ BusOK(Claimed(Ensured(NoRun)))
           /\ Claimed(Ensured(NoRun)).obj = Fresh
           /\ Claimed(Ensured(NoRun)).authors = {}
           /\ Claimed(Ensured(NoRun)).status = "running"
           /\ Fresh \in 1..MaxRuns
<1>1. Fresh \in 1..MaxRuns
  BY FreshIsNew, SessionAssumption
<1> HIDE DEF Fresh
<1>2. NoRun \in Bus /\ NoRun.obj = 0 /\ NoRun.authors = {}
  BY NoRunOK DEF BusOK, NoRun
<1>3. PICK b : b = [NoRun EXCEPT !.obj = Fresh, !.status = "running"]
  OBVIOUS
<1>4. b \in Bus /\ b.obj = Fresh /\ b.status = "running" /\ b.authors = {}
  <2>1. Fresh \in 0..MaxRuns /\ "running" \in Status
    BY <1>1, SessionAssumption DEF Status
  <2> QED BY <1>2, <1>3, <2>1 DEF Bus
<1>5. /\ Claimed(b) \in Bus /\ Claimed(b).obj = Fresh /\ Claimed(b).authors = {}
      /\ Claimed(b).started /\ Claimed(b).status = "running"
  BY <1>4 DEF Claimed, Bus
<1>6. Ensured(NoRun) = b
  BY <1>2, <1>3 DEF Ensured
<1> QED BY <1>1, <1>5, <1>6 DEF BusOK

LEMMA RebuiltOK ==
    ASSUME TypeOK, Fresh <= MaxRuns, NEW s \in RunSnapshot
    PROVE  /\ BusOK(Rebuilt(s))
           /\ Rebuilt(s).obj = Fresh
           /\ Rebuilt(s).status \in Terminal
           /\ Fresh \in 1..MaxRuns
<1>1. Fresh \in 1..MaxRuns
  BY FreshIsNew, SessionAssumption
<1> HIDE DEF Fresh
<1>2. Rebuilt(s).status \in Terminal
  BY DEF Rebuilt, RunSnapshot, Terminal
<1>3. Rebuilt(s) \in Bus
  BY <1>1, <1>2 DEF Rebuilt, Bus, RunSnapshot, Status
<1> QED BY <1>1, <1>2, <1>3 DEF BusOK, Rebuilt, Terminal

LEMMA ScheduledOK ==
    ASSUME NEW b, BusOK(b), timers \subseteq 1..MaxRuns
    PROVE  /\ Scheduled(b) \subseteq 1..MaxRuns
           /\ b.status = "running" => b.obj \in 1..MaxRuns
<1>1. b.status = "running" => b.obj \in 1..MaxRuns
  BY SessionAssumption DEF BusOK, Bus, NoRun
<1> QED BY <1>1 DEF Scheduled

LEMMA CellStays ==
    ASSUME CellOK, BusOK(bus'), SaveRun \/ UNCHANGED cellVars
    PROVE  CellOK'
<1>1. CASE UNCHANGED cellVars
  BY <1>1 DEF CellOK, cellVars
<1>2. CASE SaveRun /\ ~UNCHANGED cellVars
  <2>1. bus'.obj # 0 /\ Cell!Save(Snapped(bus'))
    BY <1>2 DEF SaveRun
  <2>2. Snapped(bus') \in RunSnapshot
    BY <2>1 DEF BusOK, Bus, Snapped, RunSnapshot, Status
  <2> QED BY <2>1, <2>2 DEF CellOK, Cell!Save
<1> QED BY <1>1, <1>2

LEMMA CellRemoved ==
    ASSUME CellOK, Cell!Remove
    PROVE  CellOK'
BY DEF CellOK, Cell!Remove

LEMMA CellMoves ==
    ASSUME CellOK, Cell!CellStep
    PROVE  CellOK'
BY DEF CellOK, Cell!CellStep, Cell!StartFlush, Cell!Commit, Cell!Drop, Cell!Erase

LEMMA LoadedOK ==
    ASSUME CellOK, Cell!LoadOne # NoSnap
    PROVE  Cell!LoadOne \in RunSnapshot
BY DEF CellOK, Cell!LoadOne

-----------------------------------------------------------------------------
(* What a stretch of a pipeline does to the run and to the pipelines.  One   *)
(* that was told to stop says nothing of its generator any more.            *)
Said(p) == {<<p, "rest">>} \cup (IF Halted(p) THEN {} ELSE {<<p, "reply">>})
Piped(p) ==
    /\ Active(p)
    /\ \A q \in Pipes : q # p => pc'[q] = pc[q]
    /\ pc'[p] # "idle"
    /\ on' = on /\ aborted' = aborted /\ asked' = asked
    /\ bus'.obj = bus.obj
    /\ \/ bus'.status = bus.status
       \/ bus'.status # "running" /\ pc'[p] = "done"
    /\ bus'.authors \subseteq bus.authors \cup Said(p)

LEMMA EmitsPipes ==
    ASSUME Typed, Typed', NEW p \in Pipes, Active(p), NEW kind \in {"reply", "rest"},
           kind = "reply" => ~Halted(p), EmitsOnly(p, kind), on' = on,
           \/ pc' = pc
           \/ \E there \in Place \ {"idle"} : pc' = [pc EXCEPT ![p] = there]
    PROVE  Piped(p)
<1>1. aborted' = aborted /\ asked' = asked /\ bus' = Emitted(bus, p, kind)
  BY DEF EmitsOnly
<1>2. bus'.obj = bus.obj /\ bus'.status = bus.status /\ bus'.authors \subseteq bus.authors \cup Said(p)
  BY <1>1, EmittedOK DEF Typed, Said
<1>3. pc'[p] # "idle" /\ \A q \in Pipes : q # p => pc'[q] = pc[q]
  BY DEF Typed, TypeOK, Place, Active
<1> QED BY <1>1, <1>2, <1>3 DEF Piped

LEMMA EmitsTypes ==
    ASSUME Typed, NEW p \in Pipes, NEW kind \in {"reply", "rest"}, EmitsOnly(p, kind)
    PROVE  /\ BusOK(bus') /\ CellOK'
           /\ UNCHANGED <<aborted, timers, sessVars, index, stopping, asked>>
<1>1. bus' = Emitted(bus, p, kind) /\ SaveRun
      /\ UNCHANGED <<aborted, timers, sessVars, index, stopping, asked>>
  BY DEF EmitsOnly
<1>2. BusOK(bus')
  BY <1>1, EmittedOK DEF Typed
<1>3. CellOK'
  BY <1>1, <1>2, CellStays DEF Typed, TypeOK, CellOK
<1> QED BY <1>1, <1>2, <1>3

(* All types at once, from the types of the parts. *)
LEMMA TypedFrom ==
    ASSUME BusOK(bus'), CellOK', aborted' \subseteq 1..MaxRuns, timers' \subseteq 1..MaxRuns,
           pc' \in [Pipes -> Place], on' \in [Pipes -> 0..MaxRuns],
           saw' \in [Pipes -> {"none", "complete", "error"}],
           session' \in BOOLEAN, file' \in BOOLEAN, writing' \in BOOLEAN,
           unlinking' \in BOOLEAN, loading' \in BOOLEAN, stopping' \in BOOLEAN,
           asked' \in BOOLEAN, index' \in Terminal \cup {"none", "null", "missed"}
    PROVE  Typed'
<1>1. {session', file', writing', unlinking', loading', stopping', asked'} \subseteq BOOLEAN
  BY Zenon
<1>2. /\ bus' \in [obj : 0..MaxRuns, status : Terminal \cup {"running", "absent"},
                  started : BOOLEAN, authors : SUBSET Marks]
      /\ bus'.obj = 0 <=> bus' = NoRun
  BY DEF BusOK, Bus, Status, NoRun
<1>3. {pending', flight', disk'} \subseteq RunSnapshot \cup {NoSnap} /\ erasing' \in Nat
  BY DEF CellOK
<1>4. pc' \in [Pipes -> {"idle", "probe", "load", "stream", "critique", "git", "done"}]
  BY DEF Place
<1>5. TypeOK'
  BY <1>1, <1>2, <1>3, <1>4, Zenon DEF TypeOK
<1> QED BY <1>5 DEF Typed

LEMMA TypedParts ==
    ASSUME Typed
    PROVE  /\ TypeOK /\ BusOK(bus) /\ CellOK
           /\ aborted \subseteq 1..MaxRuns /\ timers \subseteq 1..MaxRuns
           /\ pc \in [Pipes -> Place] /\ on \in [Pipes -> 0..MaxRuns]
           /\ saw \in [Pipes -> {"none", "complete", "error"}]
           /\ session \in BOOLEAN /\ file \in BOOLEAN /\ writing \in BOOLEAN
           /\ unlinking \in BOOLEAN /\ loading \in BOOLEAN /\ stopping \in BOOLEAN
           /\ asked \in BOOLEAN /\ index \in Terminal \cup {"none", "null", "missed"}
<1>1. {session, file, writing, unlinking, loading, stopping, asked} \subseteq BOOLEAN
  BY DEF Typed, TypeOK
<1> QED BY <1>1, Zenon DEF Typed, TypeOK, CellOK, Place

(* finish(), and what comes before it in the same stretch. *)
LEMMA FinishesOK ==
    ASSUME Typed, NEW p \in Pipes, NEW b, BusOK(b), b.obj = bus.obj, b.status = bus.status,
           b.authors \subseteq bus.authors \cup Said(p), Active(p), Finishes(p, b)
    PROVE  /\ BusOK(bus') /\ CellOK' /\ timers' \subseteq 1..MaxRuns
           /\ pc' \in [Pipes -> Place] /\ index' \in Terminal \cup {"none", "null", "missed"}
           /\ UNCHANGED <<on, aborted, sessVars, stopping, asked>>
           /\ Piped(p)
<1>1. PICK outcome \in Terminal :
        /\ bus' = Ended(b, outcome) /\ timers' = Scheduled(b)
        /\ index' \in {outcome, "missed", index}
        /\ pc' = [pc EXCEPT ![p] = "done"]
        /\ UNCHANGED <<on, aborted, sessVars, stopping, asked>>
        /\ SaveRun \/ UNCHANGED cellVars
  BY DEF Finishes, Terminal
<1>2. BusOK(bus') /\ bus'.obj = b.obj /\ bus'.authors = b.authors
      /\ bus'.status # "running"
  BY <1>1, EndedOK
<1>3. CellOK'
  BY <1>1, <1>2, CellStays, TypedParts
<1>4. timers' \subseteq 1..MaxRuns
  BY <1>1, ScheduledOK, TypedParts
<1>5. pc' \in [Pipes -> Place] /\ pc'[p] = "done" /\ \A q \in Pipes : q # p => pc'[q] = pc[q]
  BY <1>1, TypedParts DEF Place
<1>6. index' \in Terminal \cup {"none", "null", "missed"}
  BY <1>1, TypedParts
<1> QED BY <1>1, <1>2, <1>3, <1>4, <1>5, <1>6 DEF Piped

LEMMA ToGitOrFinishOK ==
    ASSUME Typed, NEW p \in Pipes, NEW b, BusOK(b), b.obj = bus.obj, b.status = bus.status,
           b.authors \subseteq bus.authors \cup Said(p), Active(p), ToGitOrFinish(p, b)
    PROVE  /\ BusOK(bus') /\ CellOK' /\ timers' \subseteq 1..MaxRuns
           /\ pc' \in [Pipes -> Place] /\ index' \in Terminal \cup {"none", "null", "missed"}
           /\ UNCHANGED <<on, aborted, sessVars, stopping, asked>>
           /\ Piped(p)
<1>1. CASE Finishes(p, b)
  BY <1>1, FinishesOK
<1>2. CASE ~Finishes(p, b)
  <2>1. /\ pc' = [pc EXCEPT ![p] = "git"] /\ bus' = b
        /\ UNCHANGED <<on, timers, aborted, sessVars, index, stopping, asked>>
        /\ SaveRun \/ UNCHANGED cellVars
    BY <1>2 DEF ToGitOrFinish
  <2>2. CellOK'
    BY <2>1, CellStays, TypedParts
  <2>3. pc' \in [Pipes -> Place] /\ pc'[p] = "git" /\ \A q \in Pipes : q # p => pc'[q] = pc[q]
    BY <2>1, TypedParts DEF Place
  <2> QED BY <2>1, <2>2, <2>3, TypedParts DEF Piped
<1> QED BY <1>1, <1>2

(* Each stretch of a pipeline is one. *)
LEMMA PipeMoves ==
    ASSUME Typed, NEW p \in Pipes, PipeStep(p) \/ PipeFrame(p)
    PROVE  Typed' /\ Piped(p)
<1> DEFINE Saw == [Pipes -> {"none", "complete", "error"}]
<1>a. Active(p)
  BY DEF PipeStep, PipeFrame, Probed, Loaded, Drained, Criticised, Inspected, Streamed,
         Criticising, Watched, Active
<1>b. ASSUME NEW kind \in {"reply", "rest"}, kind = "reply" => ~Halted(p),
             EmitsOnly(p, kind), on' = on, saw' \in Saw,
             \/ pc' = pc
             \/ \E there \in Place \ {"idle"} : pc' = [pc EXCEPT ![p] = there]
      PROVE  Typed' /\ Piped(p)
  <2>1. pc' \in [Pipes -> Place]
    BY <1>b, TypedParts
  <2>2. Typed'
    BY <1>b, <2>1, EmitsTypes, TypedParts, TypedFrom DEF sessVars
  <2> QED BY <1>a, <1>b, <2>2, EmitsPipes
<1>c. ASSUME NEW b, BusOK(b), b.obj = bus.obj, b.status = bus.status,
             b.authors \subseteq bus.authors \cup Said(p), ToGitOrFinish(p, b), saw' \in Saw
      PROVE  Typed' /\ Piped(p)
  <2>1. Typed'
    BY <1>a, <1>c, ToGitOrFinishOK, TypedParts, TypedFrom DEF sessVars
  <2> QED BY <1>a, <1>c, <2>1, ToGitOrFinishOK
<1>d. saw \in Saw /\ BusOK(bus)
  BY TypedParts
<1>e. ASSUME NEW kind \in {"reply", "rest"}, kind = "reply" => ~Halted(p)
      PROVE  /\ BusOK(Emitted(bus, p, kind)) /\ Emitted(bus, p, kind).obj = bus.obj
             /\ Emitted(bus, p, kind).status = bus.status
             /\ Emitted(bus, p, kind).authors \subseteq bus.authors \cup Said(p)
  BY EmittedOK, <1>d, <1>e DEF Said
<1>1. CASE Probed(p) \/ Loaded(p)
  BY <1>1, <1>b, <1>d DEF Probed, Loaded, Place
<1>2. ASSUME NEW kind \in {"text", "complete", "error"}, Streamed(p, kind)
      PROVE  Typed' /\ Piped(p)
  <2>1. saw' \in Saw
    BY <1>2, <1>d DEF Streamed
  <2> QED BY <1>2, <2>1, <1>b DEF Streamed
<1>3. CASE Criticising(p) \/ Watched(p)
  BY <1>3, <1>b, <1>d DEF Criticising, Watched, pipeVars
<1>4. ASSUME NEW thrown \in BOOLEAN, NEW critique \in BOOLEAN, Drained(p, thrown, critique)
      PROVE  Typed' /\ Piped(p)
  <2>1. saw' \in Saw
    BY <1>4, <1>d DEF Drained
  <2>2. PICK b : /\ (b = Emitted(bus, p, "reply") /\ ~Halted(p)) \/ b = bus
                 /\ \/ /\ pc' = [pc EXCEPT ![p] = "critique"] /\ bus' = b
                       /\ UNCHANGED <<on, timers, aborted, sessVars, index, stopping, asked>>
                       /\ SaveRun \/ UNCHANGED cellVars
                    \/ ToGitOrFinish(p, b)
    BY <1>4 DEF Drained
  <2>3. /\ BusOK(b) /\ b.obj = bus.obj /\ b.status = bus.status
        /\ b.authors \subseteq bus.authors \cup Said(p)
    BY <2>2, <1>d, <1>e
  <2>4. CASE ToGitOrFinish(p, b)
    BY <2>1, <2>3, <2>4, <1>c
  <2>5. CASE /\ pc' = [pc EXCEPT ![p] = "critique"] /\ bus' = b
             /\ UNCHANGED <<on, timers, aborted, sessVars, index, stopping, asked>>
             /\ SaveRun \/ UNCHANGED cellVars
    <3>1. CellOK'
      BY <2>3, <2>5, CellStays, TypedParts
    <3>2. pc' \in [Pipes -> Place] /\ pc'[p] = "critique"
          /\ \A q \in Pipes : q # p => pc'[q] = pc[q]
      BY <2>5, TypedParts DEF Place
    <3>3. Typed'
      BY <2>1, <2>3, <2>5, <3>1, <3>2, TypedParts, TypedFrom DEF sessVars
    <3> QED BY <1>a, <2>3, <2>5, <3>2, <3>3 DEF Piped
  <2> QED BY <2>2, <2>4, <2>5
<1>5. CASE Criticised(p)
  BY <1>5, <1>c, <1>d, <1>e DEF Criticised
<1>6. ASSUME NEW evidence \in BOOLEAN, Inspected(p, evidence)
      PROVE  Typed' /\ Piped(p)
  <2>1. PICK b : (b = Emitted(bus, p, "rest") \/ b = bus) /\ Finishes(p, b)
    BY <1>6 DEF Inspected
  <2>2. /\ BusOK(b) /\ b.obj = bus.obj /\ b.status = bus.status
        /\ b.authors \subseteq bus.authors \cup Said(p)
    BY <2>1, <1>d, <1>e
  <2>3. saw' = saw
    BY <1>6 DEF Inspected
  <2>4. Typed'
    BY <1>a, <1>d, <2>1, <2>2, <2>3, FinishesOK, TypedParts, TypedFrom DEF sessVars
  <2> QED BY <1>a, <2>1, <2>2, <2>4, FinishesOK
<1> QED BY <1>1, <1>2, <1>3, <1>4, <1>5, <1>6 DEF PipeStep, PipeFrame

-----------------------------------------------------------------------------
(* What the other steps do to the run and to the pipelines.  Most leave them *)
(* alone, or end the run through the signal its pipeline captured.          *)
Quiet ==
    /\ pc' = pc /\ on' = on /\ asked' = asked /\ aborted \subseteq aborted'
    /\ \/ bus' = bus
       \/ /\ bus'.obj = bus.obj /\ bus'.authors = bus.authors
          /\ bus'.status # "running" /\ bus.obj \in aborted'

(* Hydration brings back a run that is over. *)
Revived ==
    /\ bus.obj = 0 /\ bus'.status # "running"
    /\ UNCHANGED <<pc, on, asked, aborted>>

(* A pipeline starts with a run of its own. *)
Begun(p) ==
    /\ bus.obj = 0 /\ bus'.obj \notin Known /\ bus'.obj # 0 /\ bus'.authors = {}
    /\ bus'.status = "running"
    /\ pc[p] = "idle" /\ on'[p] = bus'.obj
    /\ \A q \in Pipes : q # p => pc'[q] = pc[q] /\ on'[q] = on[q]
    /\ aborted' = aborted

LEMMA CancelKeeps ==
    ASSUME Typed, NEW b, BusOK(b), b.authors = bus.authors \/ b.status # "running",
           bus' = Ended(b, "canceled"), timers' = Scheduled(b),
           aborted' = IF b.status = "running" THEN aborted \cup {b.obj} ELSE aborted
    PROVE  /\ BusOK(bus') /\ timers' \subseteq 1..MaxRuns /\ aborted' \subseteq 1..MaxRuns
           /\ bus'.status # "running"
           /\ aborted \subseteq aborted'
           /\ b = bus => \/ bus' = bus
                         \/ /\ bus'.obj = bus.obj /\ bus'.authors = bus.authors
                            /\ bus.obj \in aborted'
<1>1. "canceled" \in Terminal
  BY DEF Terminal
<1>2. /\ BusOK(bus') /\ bus'.obj = b.obj /\ bus'.authors = b.authors
      /\ bus'.status # "running" /\ (bus' = b \/ b.status = "running")
  BY <1>1, EndedOK DEF Ended
<1>3. timers' \subseteq 1..MaxRuns /\ (b.status = "running" => b.obj \in 1..MaxRuns)
  BY ScheduledOK, TypedParts
<1>4. aborted' \subseteq 1..MaxRuns
  BY <1>3, TypedParts
<1> QED BY <1>2, <1>3, <1>4

LEMMA QuietSteps ==
    ASSUME Typed,
           \/ Create \/ SweepSession \/ SessionFileStep \/ LoadSession
           \/ Abort \/ DiskStep \/ Shutdown \/ UNCHANGED vars
    PROVE  Typed' /\ Quiet
<1>1. CASE Create
  <2>1. /\ session' \in BOOLEAN /\ writing' \in BOOLEAN /\ index' = "null"
        /\ UNCHANGED <<file, unlinking, loading, bus, aborted, timers, cellVars, pipeVars,
                       stopping, asked>>
    BY <1>1 DEF Create, StoreSession
  <2>2. CellOK'
    BY <2>1, TypedParts DEF CellOK, cellVars
  <2> QED BY <2>1, <2>2, TypedParts, TypedFrom DEF pipeVars, Quiet
<1>2. CASE SweepSession
  <2>1. /\ session' \in BOOLEAN /\ unlinking' \in BOOLEAN
        /\ UNCHANGED <<file, writing, loading, bus, aborted, timers, cellVars, pipeVars,
                       index, stopping, asked>>
    BY <1>2 DEF SweepSession, DropSession
  <2>2. CellOK'
    BY <2>1, TypedParts DEF CellOK, cellVars
  <2> QED BY <2>1, <2>2, TypedParts, TypedFrom DEF pipeVars, Quiet
<1>3. CASE SessionFileStep
  <2>1. /\ writing' \in BOOLEAN /\ unlinking' \in BOOLEAN /\ file' \in BOOLEAN
        /\ UNCHANGED <<session, loading, bus, aborted, timers, cellVars, pipeVars,
                       index, stopping, asked>>
    BY <1>3, TypedParts DEF SessionFileStep
  <2>2. CellOK'
    BY <2>1, TypedParts DEF CellOK, cellVars
  <2> QED BY <2>1, <2>2, TypedParts, TypedFrom DEF pipeVars, Quiet
<1>4. CASE LoadSession
  <2>1. /\ session' \in BOOLEAN /\ loading' \in BOOLEAN
        /\ UNCHANGED <<file, writing, unlinking, bus, aborted, timers, cellVars, pipeVars,
                       index, stopping, asked>>
    BY <1>4, TypedParts DEF LoadSession
  <2>2. CellOK'
    BY <2>1, TypedParts DEF CellOK, cellVars
  <2> QED BY <2>1, <2>2, TypedParts, TypedFrom DEF pipeVars, Quiet
<1>5. CASE Abort
  <2>1. /\ bus' = Ended(bus, "canceled") /\ timers' = Scheduled(bus)
        /\ aborted' = IF bus.status = "running" THEN aborted \cup {bus.obj} ELSE aborted
        /\ SaveRun \/ UNCHANGED cellVars
        /\ session' \in BOOLEAN /\ unlinking' \in BOOLEAN
        /\ UNCHANGED <<file, writing, loading, pipeVars, index, stopping, asked>>
    BY <1>5 DEF Abort, DropSession
  <2>2. /\ BusOK(bus') /\ timers' \subseteq 1..MaxRuns /\ aborted' \subseteq 1..MaxRuns
        /\ bus'.status # "running" /\ aborted \subseteq aborted'
        /\ \/ bus' = bus
           \/ bus'.obj = bus.obj /\ bus'.authors = bus.authors /\ bus.obj \in aborted'
    BY <2>1, CancelKeeps, TypedParts
  <2>3. CellOK'
    BY <2>1, <2>2, CellStays, TypedParts
  <2> QED BY <2>1, <2>2, <2>3, TypedParts, TypedFrom DEF pipeVars, Quiet
<1>6. CASE DiskStep
  <2>1. UNCHANGED <<bus, aborted, timers, pipeVars, sessVars, index, stopping, asked>>
    BY <1>6 DEF DiskStep
  <2>2. CellOK'
    BY <1>6, CellMoves, TypedParts DEF DiskStep
  <2> QED BY <2>1, <2>2, TypedParts, TypedFrom DEF pipeVars, sessVars, Quiet
<1>7. CASE Shutdown
  <2>1. /\ bus' = Ended(bus, "canceled") /\ timers' = Scheduled(bus)
        /\ aborted' = IF bus.status = "running" THEN aborted \cup {bus.obj} ELSE aborted
        /\ SaveRun \/ UNCHANGED cellVars
        /\ stopping' \in BOOLEAN
        /\ UNCHANGED <<pipeVars, sessVars, index, asked>>
    BY <1>7 DEF Shutdown
  <2>2. /\ BusOK(bus') /\ timers' \subseteq 1..MaxRuns /\ aborted' \subseteq 1..MaxRuns
        /\ bus'.status # "running" /\ aborted \subseteq aborted'
        /\ \/ bus' = bus
           \/ bus'.obj = bus.obj /\ bus'.authors = bus.authors /\ bus.obj \in aborted'
    BY <2>1, CancelKeeps, TypedParts
  <2>3. CellOK'
    BY <2>1, <2>2, CellStays, TypedParts
  <2> QED BY <2>1, <2>2, <2>3, TypedParts, TypedFrom DEF pipeVars, sessVars, Quiet
<1>8. CASE UNCHANGED vars
  <2>1. UNCHANGED <<bus, aborted, timers, cellVars, pipeVars, sessVars, index, stopping, asked>>
    BY <1>8 DEF vars
  <2>2. CellOK'
    BY <2>1, TypedParts DEF CellOK, cellVars
  <2> QED BY <2>1, <2>2, TypedParts, TypedFrom DEF pipeVars, sessVars, Quiet
<1> QED BY <1>1, <1>2, <1>3, <1>4, <1>5, <1>6, <1>7, <1>8

LEMMA CancelSteps ==
    ASSUME Typed, CancelRunSession
    PROVE  Typed' /\ (Quiet \/ Revived)
<1>1. PICK b :
        /\ b = IF bus.obj = 0 /\ Cell!LoadOne # NoSnap THEN Rebuilt(Cell!LoadOne) ELSE bus
        /\ b.obj # 0
        /\ Fresh <= MaxRuns \/ bus.obj # 0
        /\ bus' = Ended(b, "canceled")
        /\ timers' = Scheduled(b)
        /\ aborted' = IF b.status = "running" THEN aborted \cup {b.obj} ELSE aborted
        /\ SaveRun \/ UNCHANGED cellVars
        /\ UNCHANGED <<pipeVars, sessVars, index, stopping, asked>>
  BY DEF CancelRunSession
<1>2. BusOK(b) /\ (bus.obj = 0 => b.status \in Terminal) /\ (bus.obj # 0 => b = bus)
  <2>1. CASE bus.obj = 0
    <3>1. Cell!LoadOne \in RunSnapshot /\ b = Rebuilt(Cell!LoadOne) /\ Fresh <= MaxRuns
      BY <1>1, <2>1, LoadedOK, TypedParts
    <3> QED BY <2>1, <3>1, RebuiltOK, TypedParts
  <2>2. CASE bus.obj # 0
    BY <1>1, <2>2, TypedParts
  <2> QED BY <2>1, <2>2
<1>3. b.authors = bus.authors \/ b.status # "running"
  BY <1>2 DEF Terminal
<1>4. /\ BusOK(bus') /\ timers' \subseteq 1..MaxRuns /\ aborted' \subseteq 1..MaxRuns
      /\ bus'.status # "running" /\ aborted \subseteq aborted'
      /\ b = bus => \/ bus' = bus
                    \/ bus'.obj = bus.obj /\ bus'.authors = bus.authors /\ bus.obj \in aborted'
  BY <1>1, <1>2, <1>3, CancelKeeps
<1>5. CellOK'
  BY <1>1, <1>4, CellStays, TypedParts
<1>6. Typed'
  BY <1>1, <1>4, <1>5, TypedParts, TypedFrom DEF pipeVars, sessVars
<1>7. CASE bus.obj = 0
  <2>1. aborted' = aborted
    BY <1>1, <1>2, <1>7 DEF Terminal
  <2> QED BY <1>1, <1>4, <1>6, <1>7, <2>1 DEF Revived, pipeVars
<1>8. CASE bus.obj # 0
  BY <1>1, <1>2, <1>4, <1>6, <1>8 DEF Quiet, pipeVars
<1> QED BY <1>7, <1>8

LEMMA ReplaySteps ==
    ASSUME Typed, Replaying
    PROVE  Typed' /\ Revived
<1>1. /\ bus.obj = 0 /\ Cell!LoadOne # NoSnap /\ Fresh <= MaxRuns
      /\ bus' = Rebuilt(Cell!LoadOne) /\ SaveRun
      /\ UNCHANGED <<aborted, timers, pipeVars, sessVars, index, stopping, asked>>
  BY DEF Replaying
<1>2. Cell!LoadOne \in RunSnapshot
  BY <1>1, LoadedOK, TypedParts
<1>3. BusOK(bus') /\ bus'.status \in Terminal
  BY <1>1, <1>2, RebuiltOK, TypedParts
<1>4. CellOK'
  BY <1>1, <1>3, CellStays, TypedParts
<1>5. Typed'
  BY <1>1, <1>3, <1>4, TypedParts, TypedFrom DEF pipeVars, sessVars
<1> QED BY <1>1, <1>3, <1>5 DEF Revived, pipeVars, Terminal

LEMMA StreamSteps ==
    ASSUME Typed, Streaming
    PROVE  Typed' /\ (Quiet \/ \E p \in Pipes : Begun(p))
<1>1. /\ session' \in BOOLEAN /\ writing' \in BOOLEAN
      /\ Fresh <= MaxRuns \/ bus.obj # 0
      /\ UNCHANGED <<file, unlinking, loading, aborted, timers, cellVars, index, stopping>>
  BY DEF Streaming, StoreSession
<1>2. CellOK'
  BY <1>1, TypedParts DEF CellOK, cellVars
<1>3. CASE Ensured(bus).started
  <2>1. bus' = bus /\ UNCHANGED <<pipeVars, asked>>
    BY <1>3 DEF Streaming
  <2> QED BY <1>1, <1>2, <2>1, TypedParts, TypedFrom DEF pipeVars, Quiet
<1>4. CASE ~Ensured(bus).started
  <2>1. PICK p \in Pipes :
          /\ pc[p] = "idle"
          /\ bus' = Claimed(Ensured(bus))
          /\ pc' = [pc EXCEPT ![p] = IF HasCwd THEN "probe" ELSE "load"]
          /\ on' = [on EXCEPT ![p] = bus'.obj]
          /\ asked' = FALSE /\ UNCHANGED saw
    BY <1>4 DEF Streaming
  <2>2. bus.obj = 0 /\ bus = NoRun
    BY <1>4, TypedParts DEF BusOK, Ensured
  <2>3. /\ BusOK(bus') /\ bus'.obj = Fresh /\ bus'.authors = {} /\ Fresh \in 1..MaxRuns
        /\ bus'.status = "running"
    BY <1>1, <2>1, <2>2, NewRunOK, TypedParts
  <2>4. Fresh \notin Known
    BY FreshIsNew, TypedParts
  <2>5. pc' \in [Pipes -> Place] /\ on' \in [Pipes -> 0..MaxRuns]
    <3>1. bus'.obj \in 0..MaxRuns
      BY <2>3 DEF BusOK, Bus
    <3> QED BY <2>1, <3>1, TypedParts DEF Place
  <2>6. Typed'
    BY <1>1, <1>2, <2>1, <2>3, <2>5, TypedParts, TypedFrom
  <2>7. bus'.obj # 0
    BY <2>3, SessionAssumption
  <2>8. on'[p] = bus'.obj /\ \A q \in Pipes : q # p => pc'[q] = pc[q] /\ on'[q] = on[q]
    BY <2>1, TypedParts
  <2> QED BY <1>1, <2>1, <2>2, <2>3, <2>4, <2>6, <2>7, <2>8 DEF Begun
<1> QED BY <1>3, <1>4

LEMMA RerunSteps ==
    ASSUME Typed, Rerun
    PROVE  Typed'
<1>1. /\ bus' = NoRun /\ aborted' = aborted \cup ({bus.obj} \ {0}) /\ asked' = TRUE
      /\ Cell!Remove \/ UNCHANGED cellVars
      /\ UNCHANGED <<timers, pipeVars, sessVars, index, stopping>>
  BY DEF Rerun
<1>2. CellOK'
  BY <1>1, CellRemoved, TypedParts DEF CellOK, cellVars
<1>3. aborted' \subseteq 1..MaxRuns
  BY <1>1, TypedParts, SessionAssumption DEF BusOK, Bus
<1> QED BY <1>1, <1>2, <1>3, NoRunOK, TypedParts, TypedFrom DEF pipeVars, sessVars

LEMMA ExpireSteps ==
    ASSUME Typed, Expire
    PROVE  Typed'
<1>1. /\ timers' \subseteq timers /\ bus' = IF bus.status \in Terminal THEN NoRun ELSE bus
      /\ UNCHANGED <<aborted, cellVars, pipeVars, sessVars, index, stopping, asked>>
  BY DEF Expire
<1>2. BusOK(bus')
  BY <1>1, NoRunOK, TypedParts
<1>3. CellOK'
  BY <1>1, TypedParts DEF CellOK, cellVars
<1> QED BY <1>1, <1>2, <1>3, TypedParts, TypedFrom DEF pipeVars, sessVars

LEMMA RestartSteps ==
    ASSUME Typed, Restart
    PROVE  Typed' /\ bus'.status # "running"
<1>1. /\ Fresh <= MaxRuns
      /\ bus' = IF disk = NoSnap THEN NoRun ELSE Rebuilt(disk)
      /\ timers' = {}
      /\ pending' = IF disk = NoSnap THEN NoSnap ELSE Snapped(bus')
      /\ flight' = NoSnap /\ erasing' = 0 /\ disk' = disk
      /\ pc' = [p \in Pipes |-> IF Active(p) THEN "done" ELSE pc[p]]
      /\ session' = FALSE /\ writing' = FALSE /\ unlinking' = FALSE /\ loading' = TRUE
      /\ index' = Swept(index) /\ stopping' = FALSE
      /\ UNCHANGED <<aborted, on, saw, file, asked>>
  BY Zenon DEF Restart
<1>2. disk \in RunSnapshot \cup {NoSnap}
  BY TypedParts DEF CellOK
<1>3. BusOK(bus') /\ bus'.status # "running" /\ (disk # NoSnap => bus'.obj # 0)
  <2>1. CASE disk = NoSnap
    BY <1>1, <2>1, NoRunOK DEF NoRun
  <2>2. CASE disk # NoSnap
    <3>1. /\ BusOK(Rebuilt(disk)) /\ Rebuilt(disk).obj = Fresh /\ Fresh \in 1..MaxRuns
          /\ Rebuilt(disk).status \in Terminal
      BY <1>1, <1>2, <2>2, RebuiltOK, TypedParts
    <3>2. Fresh # 0
      BY <3>1, SessionAssumption
    <3> QED BY <1>1, <2>2, <3>1, <3>2 DEF Terminal
  <2> QED BY <2>1, <2>2
<1>4. CellOK'
  <2>1. disk # NoSnap => Snapped(bus') \in RunSnapshot
    BY <1>3 DEF BusOK, Bus, Snapped, RunSnapshot, Status
  <2> QED BY <1>1, <1>2, <2>1 DEF CellOK
<1>5. pc' \in [Pipes -> Place]
  BY <1>1, TypedParts DEF Place
<1>6. index' \in Terminal \cup {"none", "null", "missed"}
  BY <1>1, TypedParts DEF Swept, Terminal
<1> QED BY <1>1, <1>3, <1>4, <1>5, <1>6, TypedParts, TypedFrom

-----------------------------------------------------------------------------
LEMMA Steps ==
    ASSUME Typed, [Next]_vars
    PROVE  /\ Typed'
           /\ \/ Quiet \/ Revived
              \/ \E p \in Pipes : Begun(p) \/ Piped(p)
              \/ MayRerun /\ Rerun
              \/ MayExpire /\ Expire
              \/ MayRestart /\ Restart
<1>1. ASSUME NEW p \in Pipes, PipeStep(p) \/ PipeFrame(p) PROVE Typed' /\ Piped(p)
  BY <1>1, PipeMoves
<1>2. CASE Retry \/ \E allDone \in BOOLEAN : Resume(allDone)
  BY <1>2, RerunSteps DEF Retry, Resume
<1>3. CASE Expire
  BY <1>3, ExpireSteps DEF Expire
<1>4. CASE Restart
  BY <1>4, RestartSteps DEF Restart
<1> QED BY <1>1, <1>2, <1>3, <1>4, QuietSteps, CancelSteps, ReplaySteps, StreamSteps DEF Next

LEMMA InitTyped == Init => Typed
<1> SUFFICES ASSUME Init PROVE Typed
  OBVIOUS
<1>1. /\ pc \in [Pipes -> Place] /\ on \in [Pipes -> 0..MaxRuns]
      /\ saw \in [Pipes -> {"none", "complete", "error"}]
  BY SessionAssumption DEF Init, Place
<1>2. {session, file, writing, unlinking, loading, stopping, asked} \subseteq BOOLEAN
  BY Zenon DEF Init
<1>3. TypeOK
  BY <1>1, <1>2, NoRunOK DEF Init, TypeOK, Place, BusOK, Bus, Status, NoRun
<1> QED BY <1>3, NoRunOK DEF Typed, Init

(* The types: the Map's run, the snapshots, the awaits.                     *)
THEOREM TypeCorrect == Spec => []TypeOK
<1>1. Typed /\ [Next]_vars => Typed'
  BY Steps
<1>2. Typed => TypeOK
  BY DEF Typed
<1> QED BY <1>1, <1>2, InitTyped, PTL DEF Spec

-----------------------------------------------------------------------------
(* Who may still spend holds the run that the Map has.  With retries a       *)
(* pipeline that was told to stop may end a run that is not its own, so the *)
(* run need not go on.                                                      *)
Spending ==
    \A p \in Pipes : Active(p) /\ ~Halted(p) => bus.obj # 0 /\ on[p] = bus.obj

(* Without retries every pipeline under way holds it, and it goes on unless *)
(* the pipeline was told to stop.                                           *)
Held ==
    /\ \A p \in Pipes : Active(p) =>
          bus.obj # 0 /\ on[p] = bus.obj /\ (Halted(p) \/ bus.status = "running")
    /\ \A p, q \in Pipes : Active(p) /\ Active(q) => p = q

(* What a pipeline adds to a log under way is marked as its run's, or comes  *)
(* from one that was told to stop.                                          *)
LEMMA PipedOwn ==
    ASSUME OwnFrames, NEW p \in Pipes, Piped(p), ~Halted(p) => on[p] = bus.obj
    PROVE  OwnFrames'
<1> SUFFICES ASSUME bus'.status = "running", NEW q \in Pipes
             PROVE  /\ <<q, "reply">> \in bus'.authors => on'[q] = bus'.obj
                    /\ <<q, "rest">> \in bus'.authors => on'[q] = bus'.obj \/ Halted(q)'
  BY DEF OwnFrames
<1>1. /\ bus.status = "running" /\ bus'.obj = bus.obj /\ on' = on /\ aborted' = aborted
      /\ bus'.authors \subseteq bus.authors \cup Said(p)
  BY DEF Piped
<1>2. ASSUME <<q, "reply">> \in bus'.authors PROVE on[q] = bus.obj
  <2>1. <<q, "reply">> \in bus.authors \/ (q = p /\ ~Halted(p))
    BY <1>1, <1>2 DEF Said
  <2> QED BY <1>1, <2>1 DEF OwnFrames
<1>3. ASSUME <<q, "rest">> \in bus'.authors PROVE on[q] = bus.obj \/ Halted(q)
  <2>1. <<q, "rest">> \in bus.authors \/ q = p
    BY <1>1, <1>3 DEF Said
  <2> QED BY <1>1, <2>1 DEF OwnFrames
<1> QED BY <1>1, <1>2, <1>3 DEF Halted

LEMMA SpendingKeeps ==
    ASSUME Typed, Spending, OneSpender, OwnFrames, [Next]_vars, ~MayExpire
    PROVE  (Spending /\ OneSpender /\ OwnFrames)'
<1> USE DEF Spending, OneSpender, OwnFrames, Active, Halted
<1>1. CASE Quiet
  BY <1>1 DEF Quiet
<1>2. CASE Revived
  BY <1>2 DEF Revived
<1>3. ASSUME NEW p \in Pipes, Begun(p) PROVE (Spending /\ OneSpender /\ OwnFrames)'
  <2>1. \A q \in Pipes : q # p /\ Active(q)' => Halted(q)'
    BY <1>3 DEF Begun
  <2> QED BY <1>3, <2>1 DEF Begun
<1>4. ASSUME NEW p \in Pipes, Piped(p) PROVE (Spending /\ OneSpender /\ OwnFrames)'
  <2>1. \A q \in Pipes : Active(q)' => Active(q)
    BY <1>4 DEF Piped
  <2>2. (Spending /\ OneSpender)'
    BY <1>4, <2>1 DEF Piped
  <2>3. OwnFrames'
    BY <1>4, PipedOwn DEF Piped
  <2> QED BY <2>2, <2>3
<1>5. CASE Rerun
  <2>1. \A p \in Pipes : Active(p)' => Halted(p)'
    BY <1>5 DEF Rerun, pipeVars
  <2>2. bus'.status # "running"
    BY <1>5 DEF Rerun, NoRun
  <2> QED BY <2>1, <2>2
<1>6. CASE Restart
  <2>1. bus'.status # "running"
    BY <1>6, RestartSteps
  <2> QED BY <1>6, <2>1 DEF Restart
<1> QED BY <1>1, <1>2, <1>3, <1>4, <1>5, <1>6, Steps

LEMMA HeldKeeps ==
    ASSUME Typed, Held, OwnFrames, [Next]_vars, ~MayRerun
    PROVE  (Held /\ OwnFrames)'
<1> USE DEF Held, OwnFrames, Active, Halted
<1>1. CASE Quiet
  BY <1>1 DEF Quiet
<1>2. CASE Revived
  BY <1>2 DEF Revived
<1>3. ASSUME NEW p \in Pipes, Begun(p) PROVE (Held /\ OwnFrames)'
  <2>1. \A q \in Pipes : q # p => ~Active(q)'
    BY <1>3 DEF Begun
  <2> QED BY <1>3, <2>1 DEF Begun
<1>4. ASSUME NEW p \in Pipes, Piped(p) PROVE (Held /\ OwnFrames)'
  <2>1. \A q \in Pipes : Active(q)' => Active(q) /\ q = p
    BY <1>4 DEF Piped
  <2>2. Held'
    BY <1>4, <2>1 DEF Piped
  <2>3. OwnFrames'
    BY <1>4, PipedOwn DEF Piped
  <2> QED BY <2>2, <2>3
<1>5. CASE Expire
  <2>1. \A p \in Pipes : Active(p) => bus.status = "running"
    BY <1>5 DEF Expire
  <2>2. CASE bus.status \in Terminal
    <3>1. bus' = NoRun /\ pc' = pc /\ \A p \in Pipes : ~Active(p)
      BY <1>5, <2>1, <2>2 DEF Expire, Terminal, pipeVars
    <3> QED BY <3>1 DEF NoRun
  <2>3. CASE bus.status \notin Terminal
    BY <1>5, <2>3 DEF Expire, pipeVars
  <2> QED BY <2>2, <2>3
<1>6. CASE Restart
  <2>1. \A p \in Pipes : ~Active(p)'
    BY <1>6 DEF Restart
  <2>2. bus'.status # "running"
    BY <1>6, RestartSteps
  <2> QED BY <2>1, <2>2
<1> QED BY <1>1, <1>2, <1>3, <1>4, <1>5, <1>6, Steps

(* What both sides have in common. *)
LEMMA OneAtATime ==
    ASSUME ~MayExpire \/ ~MayRerun
    PROVE  Spec => [](OneSpender /\ OwnFrames)
<1>1. Init => Spending /\ OneSpender /\ Held /\ OwnFrames
  BY DEF Init, Spending, OneSpender, Held, OwnFrames, Active, NoRun
<1>2. CASE ~MayExpire
  <2>1. Typed /\ Spending /\ OneSpender /\ OwnFrames /\ [Next]_vars
           => (Typed /\ Spending /\ OneSpender /\ OwnFrames)'
    BY <1>2, Steps, SpendingKeeps
  <2> QED BY <1>1, <2>1, InitTyped, PTL DEF Spec
<1>3. CASE ~MayRerun
  <2>1. Typed /\ Held /\ OwnFrames /\ [Next]_vars => (Typed /\ Held /\ OwnFrames)'
    BY <1>3, Steps, HeldKeeps
  <2>2. Held => OneSpender
    BY DEF Held, OneSpender
  <2> QED BY <1>1, <2>1, <2>2, InitTyped, PTL DEF Spec
<1> QED BY <1>2, <1>3

(* However often a stream is opened, a step retried, a run aborted, resumed, *)
(* hydrated, expired or lost in a restart: at most one pipeline has not been *)
(* told to stop.  Expiry and retries are taken one at a time.               *)
THEOREM OnePipelineSpends ==
    ASSUME ~MayExpire \/ ~MayRerun
    PROVE  Spec => []OneSpender
BY OneAtATime, PTL

(* reset() "drops a run entirely so the next claimStart re-runs from         *)
(* scratch": however often a session is retried or resumed, and whatever    *)
(* its pipelines wait for, the log of a run under way has no reply and no   *)
(* error of another run's pipeline.  Expiry and retries again apart.        *)
THEOREM LogsAreOwn ==
    ASSUME ~MayExpire \/ ~MayRerun
    PROVE  Spec => []OwnFrames
BY OneAtATime, PTL

-----------------------------------------------------------------------------
(* A run that was started and is gone was dropped for a rerun.              *)
Dropped == bus.obj = 0 /\ (\E p \in Pipes : pc[p] # "idle") => asked

(* "run the pipeline EXACTLY ONCE" (index.ts:952), in a process that neither *)
(* restarts nor lives to the end of a run's TTL.                            *)
THEOREM StartsOnce ==
    ASSUME ~MayExpire, ~MayRestart
    PROVE  Spec => ExecutesOnce
<1> DEFINE Once == \A p \in Pipes :
                       /\ pc[p] = "idle" /\ pc'[p] # "idle"
                       /\ \E q \in Pipes : pc[q] # "idle"
                       => asked
<1>1. Init => Dropped
  BY DEF Init, Dropped
<1>2. Typed /\ Dropped /\ [Next]_vars => Dropped' /\ Once
  <2> SUFFICES ASSUME Typed, Dropped, [Next]_vars PROVE Dropped' /\ Once
    OBVIOUS
  <2> USE DEF Dropped
  <2>1. CASE Quiet
    BY <2>1 DEF Quiet
  <2>2. CASE Revived
    BY <2>2 DEF Revived
  <2>3. ASSUME NEW p \in Pipes, Begun(p) PROVE Dropped' /\ Once
    BY <2>3 DEF Begun
  <2>4. ASSUME NEW p \in Pipes, Piped(p) PROVE Dropped' /\ Once
    BY <2>4 DEF Piped, Active
  <2>5. CASE Rerun
    BY <2>5 DEF Rerun, pipeVars
  <2> QED BY <2>1, <2>2, <2>3, <2>4, <2>5, Steps
<1>3. Typed /\ [Next]_vars => Typed'
  BY Steps
<1>4. Typed /\ Dropped /\ [Next]_vars => [Once]_vars
  BY <1>2
<1> QED BY <1>1, <1>2, <1>3, <1>4, InitTyped, PTL DEF Spec, ExecutesOnce
=============================================================================
