------------------------- MODULE RunEventStoreProofs ------------------------
(***************************************************************************)
(* Proofs about RunEventStore, for any snapshots, inodes and bounds, with  *)
(* crashes and disk failures or without.                                   *)
(*                                                                         *)
(* The types hold whatever flushes overlap.  That the file is whole and    *)
(* that the store is the abstract cell holds of the behaviours in which    *)
(* they do not: two flushes that do share the temporary path and can put a *)
(* torn file in place.                                                     *)
(***************************************************************************)
EXTENDS RunEventStore, TLAPS

(* A queued snapshot has its timer, and a timer its snapshot.               *)
Armed == timer <=> pending # NoSnap

(* A flush under way has a snapshot to write, and an inode while it writes. *)
Staged ==
    \A w \in Writes :
        /\ write[w].step = "idle" => write[w] = Idle
        /\ write[w].step # "idle" => write[w].snap \in Snapshot
        /\ write[w].step = "open" <=> write[w].inode # NoInode

StagedOK == TypeOK /\ Armed /\ Staged

LEMMA InitStaged == Init => StagedOK
<1> SUFFICES ASSUME Init PROVE StagedOK
  OBVIOUS
<1> USE DEF Init, Idle, Truncated, Snapshot
<1>1. Idle \in [step : {"idle", "queued", "open", "written"},
                snap : Snapshot \cup {NoSnap}, inode : Inode \cup {NoInode}]
  OBVIOUS
<1>2. TypeOK
  <2>1. timer \in BOOLEAN /\ pending \in Snapshot \cup {NoSnap}
    BY Zenon
  <2>2. write \in [Writes -> [step : {"idle", "queued", "open", "written"},
                             snap : Snapshot \cup {NoSnap},
                             inode : Inode \cup {NoInode}]]
    BY <1>1
  <2>3. /\ unlinks \in 0..MaxRemoves /\ version \in 0..MaxSaves
        /\ content \in [Inode -> 0..(MaxSaves + 1)]
        /\ tmp \in Inode \cup {NoInode} /\ file \in Inode \cup {NoInode}
    BY BoundsAssumption
  <2> QED BY <2>1, <2>2, <2>3, Zenon DEF TypeOK
<1>3. Armed
  BY DEF Armed
<1>4. Staged
  BY DEF Staged
<1> QED BY <1>2, <1>3, <1>4 DEF StagedOK

LEMMA NextStaged == StagedOK /\ [Next]_vars => StagedOK'
<1> SUFFICES ASSUME StagedOK, [Next]_vars PROVE StagedOK'
  OBVIOUS
<1> DEFINE Flushing == [step : {"idle", "queued", "open", "written"},
                        snap : Snapshot \cup {NoSnap}, inode : Inode \cup {NoInode}]
<1>a. /\ TypeOK /\ Armed /\ Staged
      /\ write \in [Writes -> Flushing]
  BY DEF StagedOK, TypeOK
<1>b. Idle \in Flushing
  BY DEF Idle
<1>c. /\ MaxSaves \in Nat /\ MaxRemoves \in Nat
      /\ NoSnap \notin Snapshot /\ NoInode \notin Inode
  BY BoundsAssumption DEF Snapshot
<1>d. Snapshot = 1..MaxSaves /\ Truncated = 0 /\ Torn = MaxSaves + 1
  BY DEF Snapshot, Truncated, Torn
<1>1. CASE Save
  <2>1. /\ version' \in Snapshot /\ pending' = version' /\ timer' = TRUE
        /\ UNCHANGED <<write, unlinks, tmp, file, content>>
    BY <1>1, <1>a, <1>c, <1>d DEF Save, TypeOK, fsVars
  <2>2. TypeOK'
    BY <2>1, <1>a, <1>c, <1>d DEF TypeOK
  <2>3. Armed' /\ Staged'
    BY <2>1, <1>a, <1>c DEF Armed, Staged
  <2> QED BY <2>2, <2>3 DEF StagedOK
<1>2. CASE Remove
  <2>1. /\ unlinks' \in 0..MaxRemoves /\ pending' = NoSnap /\ timer' = FALSE
        /\ UNCHANGED <<write, version, tmp, file, content>>
    BY <1>2, <1>a, <1>c DEF Remove, TypeOK, fsVars
  <2>2. TypeOK'
    BY <2>1, <1>a, <1>c DEF TypeOK
  <2>3. Armed' /\ Staged'
    BY <2>1, <1>a, <1>c DEF Armed, Staged
  <2> QED BY <2>2, <2>3 DEF StagedOK
<1>3. ASSUME NEW w \in Writes, Flush(w) PROVE StagedOK'
  <2> DEFINE q == [write[w] EXCEPT !.step = "queued", !.snap = pending]
  <2>1. /\ timer /\ write[w] = Idle
        /\ write' = [write EXCEPT ![w] = q]
        /\ pending' = NoSnap /\ timer' = FALSE
        /\ UNCHANGED <<unlinks, version, tmp, file, content>>
    BY <1>3, <1>a DEF Flush, fsVars
  <2>2. pending \in Snapshot
    BY <2>1, <1>a DEF Armed, TypeOK
  <2>3. write[w] \in Flushing /\ write[w].inode = NoInode
    BY <2>1, <1>a DEF Idle
  <2>4. q \in Flushing /\ q.step = "queued" /\ q.snap = pending /\ q.inode = NoInode
    BY <2>2, <2>3
  <2> HIDE DEF q
  <2>5. TypeOK'
    BY <2>1, <2>4, <1>a DEF TypeOK
  <2>6. Armed'
    BY <2>1 DEF Armed
  <2>7. Staged'
    BY <2>1, <2>2, <2>4, <1>a DEF Staged
  <2> QED BY <2>5, <2>6, <2>7 DEF StagedOK
<1>4. ASSUME NEW w \in Writes, Open(w) PROVE StagedOK'
  <2>0. PICK i \in Inode :
        /\ tmp' = i
        /\ content' = [content EXCEPT ![i] = Truncated]
        /\ write' = [write EXCEPT ![w].step = "open", ![w].inode = i]
    BY <1>4 DEF Open
  <2> DEFINE q == [write[w] EXCEPT !.step = "open", !.inode = i]
  <2>1. /\ write[w].step = "queued"
        /\ write' = [write EXCEPT ![w] = q]
        /\ UNCHANGED <<pending, timer, unlinks, file, version>>
    BY <2>0, <1>4, <1>a DEF Open
  <2>2. write[w] \in Flushing /\ write[w].snap \in Snapshot
    BY <2>1, <1>a DEF Staged
  <2>3. q \in Flushing /\ q.step = "open" /\ q.snap \in Snapshot /\ q.inode = i /\ i # NoInode
    BY <2>2, <1>c
  <2> HIDE DEF q
  <2>c. content' \in [Inode -> 0..(MaxSaves + 1)]
    BY <2>0, <1>a, <1>c, <1>d DEF TypeOK
  <2>d. write' \in [Writes -> Flushing]
    BY <2>1, <2>3, <1>a
  <2>4. TypeOK'
    BY <2>0, <2>1, <2>d, <2>c, <1>a DEF TypeOK
  <2>5. Armed' /\ Staged'
    BY <2>1, <2>3, <1>a DEF Armed, Staged
  <2> QED BY <2>4, <2>5 DEF StagedOK
<1>5. ASSUME NEW w \in Writes, Write(w) PROVE StagedOK'
  <2>0. PICK c \in {write[w].snap, Torn} :
        content' = [content EXCEPT ![write[w].inode] = c]
    BY <1>5 DEF Write
  <2> DEFINE q == [write[w] EXCEPT !.step = "written", !.inode = NoInode]
  <2>1. /\ write[w].step = "open"
        /\ write' = [write EXCEPT ![w] = q]
        /\ UNCHANGED <<pending, timer, unlinks, tmp, file, version>>
    BY <1>5, <1>a DEF Write
  <2>2. /\ write[w] \in Flushing
        /\ write[w].snap \in Snapshot /\ write[w].inode \in Inode
    BY <2>1, <1>a DEF Staged
  <2>3. q \in Flushing /\ q.step = "written" /\ q.snap \in Snapshot /\ q.inode = NoInode
    BY <2>2, <1>c
  <2>c. c \in 0..(MaxSaves + 1)
    BY <2>0, <2>2, <1>c, <1>d
  <2> HIDE DEF q
  <2>4. TypeOK'
    BY <2>0, <2>1, <2>2, <2>3, <2>c, <1>a DEF TypeOK
  <2>5. Armed' /\ Staged'
    BY <2>1, <2>3, <1>a DEF Armed, Staged
  <2> QED BY <2>4, <2>5 DEF StagedOK
<1>6. ASSUME NEW w \in Writes, Rename(w) \/ Fail(w) PROVE StagedOK'
  <2>1. /\ write' = [write EXCEPT ![w] = Idle]
        /\ tmp' \in {tmp, NoInode} /\ file' \in {tmp, file}
        /\ UNCHANGED <<pending, timer, unlinks, content, version>>
    BY <1>6 DEF Rename, Fail, fsVars
  <2>2. TypeOK'
    BY <2>1, <1>a, <1>b DEF TypeOK
  <2>3. Armed' /\ Staged'
    BY <2>1, <1>a DEF Armed, Staged, Idle
  <2> QED BY <2>2, <2>3 DEF StagedOK
<1>7. CASE Unlink
  <2>1. /\ unlinks' \in 0..MaxRemoves /\ file' = NoInode
        /\ UNCHANGED <<pending, timer, write, tmp, content, version>>
    BY <1>7, <1>a, <1>c DEF Unlink, TypeOK
  <2>2. TypeOK' /\ Armed' /\ Staged'
    BY <2>1, <1>a DEF TypeOK, Armed, Staged
  <2> QED BY <2>2 DEF StagedOK
<1>8. CASE Crash
  <2>1. /\ pending' = NoSnap /\ timer' = FALSE /\ unlinks' = 0
        /\ write' = [w \in Writes |-> Idle]
        /\ UNCHANGED <<version, tmp, file, content>>
    BY <1>8 DEF Crash, fsVars
  <2>t. timer' \in BOOLEAN
    BY <2>1, Zenon
  <2>2. TypeOK'
    BY <2>1, <2>t, <1>a, <1>b, <1>c DEF TypeOK
  <2>3. Armed' /\ Staged'
    BY <2>1 DEF Armed, Staged, Idle
  <2> QED BY <2>2, <2>3 DEF StagedOK
<1>9. CASE UNCHANGED vars
  BY <1>9, <1>a DEF vars, StagedOK, TypeOK, Armed, Staged
<1> QED BY <1>1, <1>2, <1>3, <1>4, <1>5, <1>6, <1>7, <1>8, <1>9 DEF Next

(* The variables keep their types, for any flushes and however they overlap: *)
(* a flush under way has a real snapshot to write.                          *)
THEOREM TypeCorrect == Spec => []TypeOK
<1>1. StagedOK => TypeOK
  BY DEF StagedOK
<1> QED BY <1>1, InitStaged, NextStaged, PTL DEF Spec

-----------------------------------------------------------------------------
(* The next flush of the run starts when the one before it has ended.       *)
OneFlush == \A v, w \in InFlight : v = w

(* The flush under way alone has the temporary file: empty while it is open, *)
(* whole once it is written.                                                *)
Owned ==
    \A w \in Writes :
        /\ write[w].step = "open" =>
              write[w].inode = tmp /\ content[tmp] = Truncated
        /\ write[w].step = "written" =>
              tmp # NoInode /\ content[tmp] = write[w].snap

(* The temporary file is never the one that readers see.                    *)
Apart == tmp # NoInode => tmp # file

IInv == StagedOK /\ Owned /\ Apart /\ FileWhole

LEMMA InitIInv == Init => IInv
<1> SUFFICES ASSUME Init PROVE IInv
  OBVIOUS
<1>1. StagedOK
  BY InitStaged
<1>2. Owned /\ Apart /\ FileWhole
  BY DEF Init, Idle, Owned, Apart, FileWhole
<1> QED BY <1>1, <1>2 DEF IInv

LEMMA NextIInv ==
    ASSUME OneFlush, IInv, [Next]_vars
    PROVE  IInv'
<1>a. /\ TypeOK /\ Staged /\ Owned /\ Apart /\ FileWhole
      /\ \A v, w \in Writes : write[v].step # "idle" /\ write[w].step # "idle" => v = w
  BY DEF IInv, StagedOK, OneFlush, InFlight, Idle
<1>b. StagedOK'
  BY NextStaged DEF IInv
<1>c. NoInode \notin Inode /\ 0 \notin Snapshot /\ Truncated = 0
  BY BoundsAssumption DEF Snapshot, Truncated
<1> USE DEF Owned, Apart, FileWhole
<1> SUFFICES Owned' /\ Apart' /\ FileWhole'
  BY <1>b DEF IInv
<1>1. CASE Save \/ Remove
  BY <1>1, <1>a DEF Save, Remove, fsVars, Snapshot
<1>2. ASSUME NEW w \in Writes, Flush(w) PROVE Owned' /\ Apart' /\ FileWhole'
  <2>1. /\ write'[w].step = "queued" /\ UNCHANGED <<tmp, file, content>>
    BY <1>2, <1>a DEF Flush, fsVars, TypeOK
  <2>o. \A v \in Writes : v # w => write'[v] = write[v]
    BY <1>2, <1>a DEF Flush, TypeOK
  <2> QED BY <2>o, <2>1, <1>a DEF Snapshot
<1>3. ASSUME NEW w \in Writes, Open(w) PROVE Owned' /\ Apart' /\ FileWhole'
  <2>1. PICK i \in Inode :
        /\ IF tmp = NoInode THEN i \notin Used ELSE i = tmp
        /\ tmp' = i
        /\ content' = [content EXCEPT ![i] = Truncated]
        /\ write' = [write EXCEPT ![w].step = "open", ![w].inode = i]
    BY <1>3 DEF Open
  <2>2. file' = file /\ i # file
    BY <2>1, <1>3, <1>a DEF Open, Used
  <2>3. write'[w].step = "open" /\ write'[w].inode = i /\ content'[i] = Truncated
    BY <2>1, <1>a DEF TypeOK
  <2>4. file # NoInode => content'[file] = content[file]
    BY <2>1, <2>2, <1>a DEF TypeOK
  <2>o. \A v \in Writes : v # w => write'[v] = write[v] /\ write[v].step = "idle"
    BY <1>3, <1>a DEF Open, TypeOK
  <2> QED BY <2>o, <2>1, <2>2, <2>3, <2>4, <1>a DEF Snapshot
<1>4. ASSUME NEW w \in Writes, Write(w) PROVE Owned' /\ Apart' /\ FileWhole'
  <2>1. /\ write[w].step = "open" /\ write[w].inode = tmp /\ content[tmp] = Truncated
        /\ tmp \in Inode /\ write[w].snap \in Snapshot
    BY <1>4, <1>a, <1>c DEF Write, Staged, TypeOK
  <2>2. /\ content' = [content EXCEPT ![tmp] = write[w].snap]
        /\ UNCHANGED <<tmp, file>>
    BY <1>4, <2>1 DEF Write
  <2>3. write'[w].step = "written" /\ write'[w].snap = write[w].snap
    BY <1>4, <1>a DEF Write, TypeOK
  <2>4. content'[tmp] = write[w].snap
    BY <2>1, <2>2, <1>a DEF TypeOK
  <2>5. file # NoInode => content'[file] = content[file]
    BY <2>1, <2>2, <1>a, <1>c DEF TypeOK
  <2>o. \A v \in Writes : v # w => write'[v] = write[v] /\ write[v].step = "idle"
    BY <1>4, <1>a DEF Write, TypeOK
  <2> QED BY <2>o, <2>1, <2>2, <2>3, <2>4, <2>5, <1>a, <1>c DEF Snapshot
<1>5. ASSUME NEW w \in Writes, Rename(w) PROVE Owned' /\ Apart' /\ FileWhole'
  <2>1. /\ tmp # NoInode /\ content[tmp] \in Snapshot
        /\ file' = tmp /\ tmp' = NoInode /\ content' = content
    BY <1>5, <1>a DEF Rename, Staged
  <2>2. write'[w] = Idle
    BY <1>5, <1>a DEF Rename, TypeOK
  <2>o. \A v \in Writes : v # w => write'[v] = write[v] /\ write[v].step = "idle"
    BY <1>5, <1>a DEF Rename, TypeOK
  <2> QED BY <2>o, <2>1, <2>2, <1>a DEF Idle, Snapshot
<1>6. ASSUME NEW w \in Writes, Fail(w) PROVE Owned' /\ Apart' /\ FileWhole'
  <2>1. write'[w] = Idle /\ UNCHANGED <<tmp, file, content>>
    BY <1>6, <1>a DEF Fail, TypeOK, fsVars
  <2>o. \A v \in Writes : v # w => write'[v] = write[v] /\ write[v].step = "idle"
    BY <1>6, <1>a DEF Fail, TypeOK
  <2> QED BY <2>o, <2>1, <1>a DEF Idle, Snapshot
<1>7. CASE Unlink
  BY <1>7, <1>a DEF Unlink
<1>8. CASE Crash
  BY <1>8, <1>a DEF Crash, fsVars, Idle, Snapshot
<1>9. CASE UNCHANGED vars
  BY <1>9, <1>a DEF vars, Snapshot
<1> QED BY <1>1, <1>2, <1>3, <1>4, <1>5, <1>6, <1>7, <1>8, <1>9 DEF Next

(* "Never a half-written file" (run-event-store.ts:18): whatever a crash or  *)
(* a failing disk interrupts, the file a new process reads is absent or one *)
(* whole snapshot, as long as the flushes of a run follow one another.      *)
THEOREM FileIsWhole ==
    Spec /\ []OneFlush => []FileWhole
<1>1. OneFlush /\ IInv /\ [Next]_vars => IInv'
  BY NextIInv
<1>2. IInv => FileWhole
  BY DEF IInv
<1> QED BY <1>1, <1>2, InitIInv, PTL DEF Spec

-----------------------------------------------------------------------------
(* Every step of the store is a step of the cell, or one it does not see:    *)
(* opening and writing the temporary file change nothing a reader gets.     *)
LEMMA StepImplementsCell ==
    ASSUME OneFlush, OneFlush', IInv, [Next]_vars
    PROVE  [Cell!CellNext]_<<pending, Flight, unlinks, Readable>>
<1>a. /\ TypeOK /\ Armed /\ Staged /\ Owned /\ Apart /\ FileWhole
  BY DEF IInv, StagedOK
<1>b. \A w \in Writes : write[w].step # "idle" => InFlight = {w}
  BY DEF OneFlush, InFlight, Idle
<1>c. \A w \in Writes : write'[w].step # "idle" => InFlight' = {w}
  BY DEF OneFlush, InFlight, Idle
<1>d. NoSnap \notin Snapshot /\ NoInode \notin Inode
  BY BoundsAssumption DEF Snapshot
<1> DEFINE Step == [Cell!CellNext]_<<pending, Flight, unlinks, Readable>>
<1>e. Cell!CellNext => Step
  OBVIOUS
<1> HIDE DEF Step
<1>1. CASE Save
  <2>1. /\ pending' \in Snapshot
        /\ UNCHANGED <<write, unlinks, file, content>>
    BY <1>1, <1>a, BoundsAssumption DEF Save, TypeOK, fsVars, Snapshot
  <2>2. Flight' = Flight /\ Readable' = Readable
    BY <2>1 DEF Flight, InFlight, Readable
  <2>3. Cell!Save(pending')
    BY <2>1, <2>2 DEF Cell!Save
  <2> QED BY <2>1, <2>3, <1>e DEF Cell!CellNext
<1>2. CASE Remove
  <2>1. UNCHANGED <<write, file, content>>
    BY <1>2 DEF Remove, fsVars
  <2>2. Flight' = Flight /\ Readable' = Readable
    BY <2>1 DEF Flight, InFlight, Readable
  <2>3. Cell!Remove
    BY <1>2, <2>2 DEF Remove, Cell!Remove
  <2> QED BY <2>3, <1>e DEF Cell!CellNext
<1>3. ASSUME NEW w \in Writes, Flush(w) PROVE Step
  <2>1. /\ pending # NoSnap /\ write[w] = Idle
        /\ pending' = NoSnap
        /\ UNCHANGED <<unlinks, file, content>>
    BY <1>3, <1>a DEF Flush, Armed, fsVars
  <2>2. /\ write'[w].step = "queued" /\ write'[w].snap = pending
        /\ \A v \in Writes : v # w => write'[v] = write[v]
    BY <1>3, <1>a DEF Flush, TypeOK
  <2>3. InFlight' = {w} /\ InFlight = {}
    BY <2>1, <2>2, <1>c DEF InFlight
  <2>4. Flight = NoSnap /\ Flight' = pending /\ Readable' = Readable
    BY <2>1, <2>2, <2>3 DEF Flight, Readable
  <2>5. Cell!StartFlush
    BY <2>1, <2>4 DEF Cell!StartFlush
  <2> QED BY <2>5, <1>e DEF Cell!CellNext, Cell!CellStep
<1>4. ASSUME NEW w \in Writes, Open(w) PROVE Step
  <2>1. PICK i \in Inode :
        /\ IF tmp = NoInode THEN i \notin Used ELSE i = tmp
        /\ content' = [content EXCEPT ![i] = Truncated]
        /\ write' = [write EXCEPT ![w].step = "open", ![w].inode = i]
    BY <1>4 DEF Open
  <2>2. /\ UNCHANGED <<pending, unlinks, file>>
        /\ i # file
    BY <2>1, <1>4, <1>a DEF Open, Used, Apart
  <2>3. /\ write[w].step # "idle" /\ write'[w].step # "idle"
        /\ write'[w].snap = write[w].snap
    BY <2>1, <1>4, <1>a DEF Open, TypeOK
  <2>4. file # NoInode => content'[file] = content[file]
    BY <2>1, <2>2, <1>a DEF TypeOK
  <2>5. Flight' = Flight /\ Readable' = Readable
    BY <2>2, <2>3, <2>4, <1>b, <1>c DEF Flight, Readable
  <2> QED BY <2>2, <2>5 DEF Step
<1>5. ASSUME NEW w \in Writes, Write(w) PROVE Step
  <2>1. /\ write[w].inode # NoInode /\ write[w].inode = tmp
        /\ UNCHANGED <<pending, unlinks, file>>
    BY <1>5, <1>a DEF Write, Staged, Owned
  <2>2. \A i \in Inode : i # tmp => content'[i] = content[i]
    BY <1>5, <2>1, <1>a DEF Write, TypeOK
  <2>3. /\ write[w].step # "idle" /\ write'[w].step # "idle"
        /\ write'[w].snap = write[w].snap
    BY <1>5, <1>a DEF Write, TypeOK
  <2>4. file # NoInode => content'[file] = content[file]
    BY <2>1, <2>2, <1>a DEF TypeOK, Apart
  <2>5. Flight' = Flight /\ Readable' = Readable
    BY <2>1, <2>3, <2>4, <1>b, <1>c DEF Flight, Readable
  <2> QED BY <2>1, <2>5 DEF Step
<1>6. ASSUME NEW w \in Writes, Rename(w) PROVE Step
  <2>1. /\ tmp # NoInode /\ content[tmp] = write[w].snap /\ write[w].snap \in Snapshot
        /\ file' = tmp
        /\ UNCHANGED <<pending, unlinks, content>>
    BY <1>6, <1>a DEF Rename, Staged, Owned
  <2>2. InFlight = {w} /\ InFlight' = {}
    BY <1>6, <1>a, <1>b DEF Rename, TypeOK, InFlight
  <2>3. Flight = write[w].snap /\ Flight' = NoSnap
    BY <2>2 DEF Flight
  <2>4. Readable' = write[w].snap
    BY <2>1 DEF Readable, Snapshot
  <2>5. Cell!Commit
    BY <2>1, <2>3, <2>4, <1>d DEF Cell!Commit
  <2> QED BY <2>5, <1>e DEF Cell!CellNext, Cell!CellStep
<1>7. ASSUME NEW w \in Writes, Fail(w) PROVE Step
  <2>1. /\ DiskFails /\ write[w].snap \in Snapshot
        /\ UNCHANGED <<pending, unlinks, file, content>>
    BY <1>7, <1>a DEF Fail, Staged, fsVars
  <2>2. InFlight = {w} /\ InFlight' = {}
    BY <1>7, <1>a, <1>b DEF Fail, TypeOK, InFlight
  <2>3. Flight # NoSnap /\ Flight' = NoSnap /\ Readable' = Readable
    BY <2>1, <2>2, <1>d DEF Flight, Readable
  <2>4. Cell!Drop
    BY <2>1, <2>3 DEF Cell!Drop
  <2> QED BY <2>4, <1>e DEF Cell!CellNext, Cell!CellStep
<1>8. CASE Unlink
  <2>1. /\ unlinks > 0 /\ unlinks' = unlinks - 1 /\ file' = NoInode
        /\ UNCHANGED <<pending, write>>
    BY <1>8 DEF Unlink
  <2>2. Flight' = Flight /\ Readable' = NoSnap
    BY <2>1 DEF Flight, InFlight, Readable
  <2>3. Cell!Erase
    BY <2>1, <2>2 DEF Cell!Erase
  <2> QED BY <2>3, <1>e DEF Cell!CellNext, Cell!CellStep
<1>9. CASE Crash
  <2>1. /\ pending' = NoSnap /\ unlinks' = 0
        /\ write' = [w \in Writes |-> Idle]
        /\ UNCHANGED <<file, content>>
    BY <1>9 DEF Crash, fsVars
  <2>2. InFlight' = {} /\ Readable' = Readable
    BY <2>1 DEF InFlight, Readable
  <2>3. Cell!Lose
    BY <2>1, <2>2 DEF Cell!Lose, Flight
  <2> QED BY <2>3, <1>e DEF Cell!CellNext
<1>10. CASE UNCHANGED vars
  BY <1>10 DEF vars, Flight, InFlight, Readable, Step
<1> QED
  BY <1>1, <1>2, <1>3, <1>4, <1>5, <1>6, <1>7, <1>8, <1>9, <1>10 DEF Next, Step

(* The store implements the cell that the bus and the routes rely on: save() *)
(* queues, a flush replaces the whole file at once, remove() erases later,  *)
(* and a crash loses what is not on disk -- as long as the flushes of a run  *)
(* follow one another.                                                      *)
THEOREM StoreImplementsCell ==
    Spec /\ []OneFlush => ImplementsCell
<1>1. Init => Cell!CellInit
  BY DEF Init, Cell!CellInit, Cell!MaybeSnapshot, Flight, InFlight, Readable
<1>2. OneFlush /\ IInv /\ [Next]_vars => IInv'
  BY NextIInv
<1>3. OneFlush /\ OneFlush' /\ IInv /\ [Next]_vars => [Cell!CellNext]_Cell!cellVars
  BY StepImplementsCell DEF Cell!cellVars
<1> QED BY <1>1, <1>2, <1>3, InitIInv, PTL DEF Spec, ImplementsCell, Cell!CellSpec
=============================================================================
