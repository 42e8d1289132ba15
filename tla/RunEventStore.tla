---------------------------- MODULE RunEventStore ---------------------------
(***************************************************************************)
(* lib/run-event-store.ts for one run id, down to the file system calls:   *)
(* the debounced save(), flush() = writeFile(tmp) then rename(tmp, file),  *)
(* the fire-and-forget unlink of remove(), and the crash of the process.   *)
(*                                                                         *)
(* Two flushes of one run share the path <id>.json.tmp.  writeFile opens   *)
(* it with O_TRUNC and keeps writing to the inode it opened, whatever the  *)
(* path names by then, so paths and inodes are told apart.                 *)
(***************************************************************************)
EXTENDS Naturals, FiniteSets

CONSTANTS
    MaxSaves,      \* bound: snapshots handed to save() in a behaviour
    MaxRemoves,    \* bound: calls of remove()
    MayCrash,      \* whether the process may die
    Writes,        \* flushes that can be under way at once
    Inode,         \* inodes the two paths and the open files can name
    NoSnap,        \* no snapshot queued / no readable snapshot
    NoInode,       \* the path does not exist
    DiskFails      \* whether writeFile may fail half way

ASSUME BoundsAssumption ==
    /\ MaxSaves \in Nat /\ MaxRemoves \in Nat
    /\ DiskFails \in BOOLEAN /\ MayCrash \in BOOLEAN
    /\ NoSnap \notin 1..MaxSaves
    /\ NoInode \notin Inode
    /\ IsFiniteSet(Inode) /\ IsFiniteSet(Writes)
    /\ Cardinality(Inode) >= Cardinality(Writes) + 2

VARIABLES
    pending,       \* Map pending: the latest snapshot not yet flushed
    timer,         \* Map timers: a debounce timer is armed
    write,         \* per flush under way: its snapshot, its step, its open inode
    unlinks,       \* unlinks issued by remove() and not yet executed
    tmp,           \* the inode <id>.json.tmp names
    file,          \* the inode <id>.json names
    content,       \* what each inode holds
    version        \* history: number of save() calls; a snapshot IS its number

vars == <<pending, timer, write, unlinks, tmp, file, content, version>>
fsVars == <<tmp, file, content>>

Snapshot == 1..MaxSaves
Truncated == 0              \* an inode that was opened and not written yet
Torn == MaxSaves + 1        \* a shorter snapshot written over a longer one
Idle == [step |-> "idle", snap |-> NoSnap, inode |-> NoInode]

(* The variables have their types; a queued or written snapshot is a real one. *)
TypeOK ==
    /\ pending \in Snapshot \cup {NoSnap}
    /\ timer \in BOOLEAN
    /\ write \in [Writes -> [step : {"idle", "queued", "open", "written"},
                             snap : Snapshot \cup {NoSnap},
                             inode : Inode \cup {NoInode}]]
    /\ unlinks \in 0..MaxRemoves
    /\ tmp \in Inode \cup {NoInode}
    /\ file \in Inode \cup {NoInode}
    /\ content \in [Inode -> 0..(MaxSaves + 1)]
    /\ version \in 0..MaxSaves

Init ==
    /\ pending = NoSnap /\ timer = FALSE
    /\ write = [w \in Writes |-> Idle]
    /\ unlinks = 0
    /\ tmp = NoInode /\ file = NoInode
    /\ content = [i \in Inode |-> Truncated]
    /\ version = 0

(* save(snap) *)
Save ==
    /\ version < MaxSaves
    /\ version' = version + 1
    /\ pending' = version'
    /\ timer' = TRUE
    /\ UNCHANGED <<write, unlinks, fsVars>>

(* remove(id) *)
Remove ==
    /\ unlinks < MaxRemoves
    /\ timer' = FALSE
    /\ pending' = NoSnap
    /\ unlinks' = unlinks + 1
    /\ UNCHANGED <<write, version, fsVars>>

(* Mutant: flush() without pending.delete. *)
FlushKeepsPending(w) ==
    /\ timer
    /\ write[w] = Idle
    /\ write' = [write EXCEPT ![w].step = "queued", ![w].snap = pending]
    /\ timer' = FALSE
    /\ UNCHANGED <<pending, unlinks, version, fsVars>>

(* The timer fires and flush(id) runs up to its first await. *)
Flush(w) ==
    /\ timer
    /\ write[w] = Idle
    /\ write' = [write EXCEPT ![w].step = "queued", ![w].snap = pending]
    /\ pending' = NoSnap
    /\ timer' = FALSE
    /\ UNCHANGED <<unlinks, version, fsVars>>

Used == {tmp, file} \cup {write[w].inode : w \in Writes}

(* writeFile opens the tmp path: an existing file is truncated and shared. *)
Open(w) ==
    /\ write[w].step = "queued"
    /\ \E i \in Inode :
          /\ IF tmp = NoInode THEN i \notin Used ELSE i = tmp
          /\ tmp' = i
          /\ content' = [content EXCEPT ![i] = Truncated]
          /\ write' = [write EXCEPT ![w].step = "open", ![w].inode = i]
    /\ UNCHANGED <<pending, timer, unlinks, file, version>>

(* The bytes reach the inode; over longer bytes they leave a tail behind. *)
Write(w) ==
    /\ write[w].step = "open"
    /\ LET i == write[w].inode
       IN  \E c \in {write[w].snap} \cup (IF content[i] = Truncated THEN {} ELSE {Torn}) :
              content' = [content EXCEPT ![i] = c]
    /\ write' = [write EXCEPT ![w].step = "written", ![w].inode = NoInode]
    /\ UNCHANGED <<pending, timer, unlinks, tmp, file, version>>

(* Mutant: flush() that does not await writeFile. *)
RenameUnawaited(w) ==
    /\ write[w].step \in {"open", "written"}
    /\ IF tmp = NoInode
       THEN UNCHANGED <<tmp, file>>
       ELSE file' = tmp /\ tmp' = NoInode
    /\ write' = [write EXCEPT ![w] = Idle]
    /\ UNCHANGED <<pending, timer, unlinks, content, version>>

(* rename(tmp, fp); ENOENT when another flush already renamed the tmp path. *)
Rename(w) ==
    /\ write[w].step = "written"
    /\ IF tmp = NoInode
       THEN UNCHANGED <<tmp, file>>
       ELSE file' = tmp /\ tmp' = NoInode
    /\ write' = [write EXCEPT ![w] = Idle]
    /\ UNCHANGED <<pending, timer, unlinks, content, version>>

(* writeFile throws: flush() logs and ends, the truncated tmp file stays. *)
Fail(w) ==
    /\ DiskFails
    /\ write[w].step = "open"
    /\ write' = [write EXCEPT ![w] = Idle]
    /\ UNCHANGED <<pending, timer, unlinks, version, fsVars>>

Unlink ==
    /\ unlinks > 0
    /\ unlinks' = unlinks - 1
    /\ file' = NoInode
    /\ UNCHANGED <<pending, timer, write, tmp, content, version>>

(* The process dies between any two steps; the file system stays. *)
Crash ==
    /\ MayCrash
    /\ pending' = NoSnap /\ timer' = FALSE
    /\ write' = [w \in Writes |-> Idle]
    /\ unlinks' = 0
    /\ UNCHANGED <<version, fsVars>>

Next ==
    \/ Save
    \/ Remove
    \/ \E w \in Writes : Flush(w) \/ Open(w) \/ Write(w) \/ Rename(w) \/ Fail(w)
    \/ Unlink
    \/ Crash

Spec == Init /\ [][Next]_vars

-----------------------------------------------------------------------------
(* What loadAllSync() and loadOneSync() get from the file: JSON.parse of a  *)
(* truncated or torn file throws and the snapshot is skipped.               *)
Readable == IF file # NoInode /\ content[file] \in Snapshot
            THEN content[file] ELSE NoSnap

(* "Atomic writes: <id>.json.tmp then rename -- never a half-written file"  *)
(* (run-event-store.ts:18): whatever a crash interrupts, the file a new     *)
(* process reads is absent or one whole snapshot.                           *)
FileWhole == file # NoInode => content[file] \in Snapshot

(* With one write at a time the store implements the abstract cell: the     *)
(* temporary file, the inodes and the order of the system calls are hidden. *)
InFlight == {w \in Writes : write[w] # Idle}
Flight == IF InFlight = {} THEN NoSnap
          ELSE write[CHOOSE w \in InFlight : TRUE].snap
Cell == INSTANCE SnapshotCell WITH
    flight  <- Flight,
    erasing <- unlinks,
    disk    <- Readable

ImplementsCell == Cell!CellSpec
=============================================================================
