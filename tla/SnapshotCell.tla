---------------------------- MODULE SnapshotCell ----------------------------
(***************************************************************************)
(* What lib/run-event-store.ts promises about the persisted snapshot of    *)
(* ONE run, and what the bus and the session routes rely on: save() only   *)
(* queues the latest snapshot, a debounced flush later replaces the file   *)
(* as a whole, remove() drops what is queued and erases the file some time *)
(* afterwards, and a crash loses everything that is not on disk.           *)
(*                                                                         *)
(* Runs are independent (every map of the store and every file is keyed by *)
(* the run id), so one cell stands for all of them.                        *)
(***************************************************************************)
EXTENDS Naturals

CONSTANTS
    Snapshot,      \* the values save() may be given
    NoSnap,        \* "no snapshot": Map.get() === undefined, or no file
    DiskFails      \* whether a write may fail (ENOSPC, EACCES, ...)

VARIABLES
    pending,       \* pending.get(id); its debounce timer is armed iff it is set
    flight,        \* the snapshot of the flush whose write is under way
    erasing,       \* unlinks issued by remove() that have not happened yet
    disk           \* what a reader of <id>.json gets

cellVars == <<pending, flight, erasing, disk>>

MaybeSnapshot == Snapshot \cup {NoSnap}

CellTypeOK ==
    /\ pending \in MaybeSnapshot
    /\ flight \in MaybeSnapshot
    /\ erasing \in Nat
    /\ disk \in MaybeSnapshot

CellInit ==
    /\ pending = NoSnap
    /\ flight = NoSnap
    /\ erasing = 0
    /\ disk \in MaybeSnapshot

(* save(): the latest snapshot wins; the timer, once armed, is kept. *)
Save(s) ==
    /\ pending' = s
    /\ UNCHANGED <<flight, erasing, disk>>

(* remove(): the queued write is cancelled, the unlink is fire-and-forget. *)
Remove ==
    /\ pending' = NoSnap
    /\ erasing' = erasing + 1
    /\ UNCHANGED <<flight, disk>>

(* The debounce timer fires: flush() takes the queued snapshot. *)
StartFlush ==
    /\ pending # NoSnap
    /\ flight = NoSnap
    /\ flight' = pending
    /\ pending' = NoSnap
    /\ UNCHANGED <<erasing, disk>>

(* The rename that ends a flush replaces the whole file at once. *)
Commit ==
    /\ flight # NoSnap
    /\ disk' = flight
    /\ flight' = NoSnap
    /\ UNCHANGED <<pending, erasing>>

(* A failed write is logged and forgotten: nothing retries it. *)
Drop ==
    /\ DiskFails
    /\ flight # NoSnap
    /\ flight' = NoSnap
    /\ UNCHANGED <<pending, erasing, disk>>

Erase ==
    /\ erasing > 0
    /\ erasing' = erasing - 1
    /\ disk' = NoSnap
    /\ UNCHANGED <<pending, flight>>

(* The process dies; only the file survives. *)
Lose ==
    /\ pending' = NoSnap
    /\ flight' = NoSnap
    /\ erasing' = 0
    /\ UNCHANGED disk

CellStep == StartFlush \/ Commit \/ Drop \/ Erase

CellNext ==
    \/ \E s \in Snapshot : Save(s)
    \/ Remove
    \/ CellStep
    \/ Lose

CellSpec == CellInit /\ [][CellNext]_cellVars

(* loadOneSync(): prefer what is queued over the file. *)
LoadOne == IF pending # NoSnap THEN pending ELSE disk
=============================================================================
