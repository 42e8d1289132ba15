-------------------------- MODULE RunEventBusProofs -------------------------
(***************************************************************************)
(* Proofs about RunEventBus, for any set of views, waiters, cards and rows, *)
(* any buffer cap and any bounds.                                          *)
(*                                                                         *)
(* One inductive invariant carries most of it: the types (with the buffer   *)
(* numbered below nextId, in memory and in every persisted snapshot), the  *)
(* absence of hanging views and callers, and the completeness of attached  *)
(* views.  NoMissedRecord leans on NobodyHangs: reset, expiry and hydration *)
(* replace the log, and only because no view is live then can none miss a  *)
(* record of it.                                                           *)
(*                                                                         *)
(* On top of it: a run keeps its outcome, the log it ends with is settled, *)
(* the buffer keeps to its cap while the run goes on, and no page is sent  *)
(* a record twice.                                                         *)
(***************************************************************************)
EXTENDS RunEventBus, FiniteSetTheorems, TLAPS

(* SetToSeq lists every element of a finite set, and nothing else. *)
LEMMA Enumerated ==
    ASSUME NEW S, IsFiniteSet(S)
    PROVE  /\ Cardinality(S) \in Nat
           /\ SetToSeq(S) \in [1..Cardinality(S) -> S]
           /\ \A x \in S : \E k \in 1..Cardinality(S) : SetToSeq(S)[k] = x
<1>1. /\ Cardinality(S) \in Nat
      /\ ExistsBijection(1..Cardinality(S), S)
  BY FS_CardinalityType
<1> DEFINE n == Cardinality(S)
           F == [1..n -> S]
<1>2. PICK f \in F : IsInjective(f)
  BY <1>1 DEF ExistsBijection, Bijection, Injection, IsInjective
<1>3. SetToSeq(S) \in F /\ IsInjective(SetToSeq(S))
  BY <1>2 DEF SetToSeq
<1>4. SetToSeq(S) \in Injection(1..n, S)
  BY <1>3 DEF Injection, IsInjective
<1>5. Cardinality(1..n) = n
  BY <1>1, FS_Interval
<1>6. SetToSeq(S) \in Surjection(1..n, S)
  BY <1>4, <1>5, FS_Injection
<1> QED BY <1>1, <1>3, <1>6 DEF Surjection

(* A non-empty set of ids below a bound has a highest one.  By well-founded *)
(* subset ordering: the smallest initial segment that covers the set ends   *)
(* with an element of it.                                                   *)
LEMMA HighestIdExists ==
    ASSUME NEW n \in Nat, NEW S \in SUBSET (1..n), S # {}
    PROVE  /\ HighestId(S) \in S
           /\ \A m \in S : m <= HighestId(S)
<1> DEFINE I(k) == 1..k
           Covers == {T \in SUBSET (1..n) : \E k \in 0..n : T = I(k) /\ S \subseteq I(k)}
           R == StrictSubsetOrdering(1..n)
           D == FiniteSubsetsOf(1..n)
<1>1. IsWellFoundedOn(R, D)
  <2> DEFINE N == 1..n
  <2> HIDE DEF N
  <2>1. IsWellFoundedOn(StrictSubsetOrdering(N), FiniteSubsetsOf(N))
    BY FS_StrictSubsetOrderingWellFounded
  <2> QED BY <2>1 DEF N
<1>2. D = SUBSET (1..n)
  <2>1. IsFiniteSet(1..n)
    BY FS_Interval
  <2> DEFINE N == 1..n
  <2> HIDE DEF N
  <2>2. FiniteSubsetsOf(N) = SUBSET N
    BY <2>1, FS_FiniteSubsetsOfFinite DEF N
  <2> QED BY <2>2 DEF N
<1>3. I(n) \in Covers
  OBVIOUS
<1>4. Covers \subseteq D /\ Covers # {}
  BY <1>2, <1>3
<1>5. PICK T \in Covers : \A U \in Covers : <<U, T>> \notin R
  <2> HIDE DEF I, Covers, R, D
  <2> QED BY <1>1, <1>4, WFMin
<1>6. PICK k \in 0..n : T = I(k) /\ S \subseteq I(k)
  OBVIOUS
<1>7. k \in S
  <2> SUFFICES ASSUME k \notin S PROVE FALSE
    OBVIOUS
  <2>1. k # 0
    <3> PICK s \in S : TRUE
      OBVIOUS
    <3> s \in 1..k
      BY <1>6
    <3> QED OBVIOUS
  <2>2. I(k-1) \in Covers
    BY <1>6, <2>1
  <2>3. I(k-1) \subseteq T /\ I(k-1) # T
    BY <1>6, <2>1
  <2>4. <<I(k-1), T>> \in R
    BY <2>2, <2>3 DEF StrictSubsetOrdering
  <2> QED BY <1>5, <2>2, <2>4
<1>8. \A m \in S : m <= k
  BY <1>6
<1> QED BY <1>7, <1>8 DEF HighestId

(* The frames the sweep adds, as a set. *)
CardFinal(c) == [ev |-> "final", card |-> c]
RowFailed(r) == [ev |-> "row", row |-> r, to |-> "failed"]
Closing(L) == {CardFinal(c) : c \in OpenCards(L)} \cup {RowFailed(r) : r \in RunningRows(L)}

(* The sweep closes finitely many cards and rows. *)
LEMMA ClosingFinite ==
    ASSUME NEW L
    PROVE  IsFiniteSet(Closing(L))
<1> DEFINE C == OpenCards(L)
           R == RunningRows(L)
           A == {CardFinal(c) : c \in C}
           B == {RowFailed(r) : r \in R}
           f == [c \in C |-> CardFinal(c)]
           g == [r \in R |-> RowFailed(r)]
<1>1. C \in SUBSET Cards /\ R \in SUBSET Rows
  BY DEF OpenCards, RunningRows
<1>2. IsFiniteSet(C) /\ IsFiniteSet(R)
  BY <1>1, FS_Subset, BusAssumption
<1>3. f \in Surjection(C, A)
  BY DEF Surjection
<1>4. g \in Surjection(R, B)
  BY DEF Surjection
<1> HIDE DEF C, R, A, B, f, g
<1>5. IsFiniteSet(A) /\ IsFiniteSet(B)
  BY <1>2, <1>3, <1>4, FS_Surjection
<1> QED BY <1>5, FS_Union DEF Closing, A, B, C, R

(* ClosingFrames is a sequence of frames that lists exactly Closing. *)
LEMMA ClosingFramesType ==
    ASSUME NEW L
    PROVE  /\ ClosingFrames(L) \in Seq(Frame)
           /\ \A x \in Closing(L) : \E k \in 1..Len(ClosingFrames(L)) : ClosingFrames(L)[k] = x
           /\ \A k \in 1..Len(ClosingFrames(L)) : ClosingFrames(L)[k] \in Closing(L)
<1>1. ClosingFrames(L) = SetToSeq(Closing(L))
  BY DEF ClosingFrames, Closing, CardFinal, RowFailed
<1> DEFINE n == Cardinality(Closing(L))
<1>2. /\ n \in Nat
      /\ ClosingFrames(L) \in [1..n -> Closing(L)]
      /\ \A x \in Closing(L) : \E k \in 1..n : ClosingFrames(L)[k] = x
  BY <1>1, ClosingFinite, Enumerated
<1>3. Closing(L) \subseteq Frame
  BY DEF Closing, CardFinal, RowFailed, Frame, OpenCards, RunningRows
<1> HIDE DEF n
<1>4. ClosingFrames(L) \in Seq(Closing(L)) /\ Len(ClosingFrames(L)) = n
  BY <1>2
<1> QED BY <1>2, <1>3, <1>4

(* Eviction only drops records. *)
LEMMA TrimIsLog ==
    ASSUME NEW L, NEW n, IsLog(L, n)
    PROVE  /\ IsLog(Trim(L), n)
           /\ Pairs(Trim(L)) \subseteq Pairs(L)
<1>1. Retained(L) \subseteq DOMAIN L
  BY DEF Retained
<1> QED BY <1>1 DEF IsLog, Trim, Pairs

(* A frame numbered with nextId extends a well numbered buffer. *)
LEMMA AppendedIsLog ==
    ASSUME NEW L, NEW n, NEW f \in Frame, IsLog(L, n)
    PROVE  IsLog([i \in DOMAIN L \cup {n} |-> IF i = n THEN f ELSE L[i]], n + 1)
BY DEF IsLog

(* So does the sweep, which numbers its frames from nextId on. *)
LEMMA ExtendedIsLog ==
    ASSUME NEW L, NEW n, NEW frames \in Seq(Frame), IsLog(L, n)
    PROVE  IsLog(Extended(L, n, frames), n + Len(frames))
<1> DEFINE M == Extended(L, n, frames)
           m == n + Len(frames)
<1>1. n \in Nat \ {0} /\ Len(frames) \in Nat /\ m \in Nat \ {0}
  BY DEF IsLog
<1>2. DOMAIN M = DOMAIN L \cup n..(m - 1)
  BY <1>1 DEF Extended
<1>3. DOMAIN M \subseteq 1..(m - 1)
  BY <1>1, <1>2 DEF IsLog
<1>4. \A i \in DOMAIN M : M[i] \in Frame
  <2> TAKE i \in DOMAIN M
  <2>1. CASE i < n
    BY <2>1, <1>1, <1>2 DEF IsLog, Extended
  <2>2. CASE ~(i < n)
    <3>1. i - n + 1 \in 1..Len(frames)
      BY <2>2, <1>1, <1>2 DEF IsLog
    <3> QED BY <2>2, <3>1, <1>2 DEF Extended
  <2> QED BY <2>1, <2>2
<1>5. M = [i \in DOMAIN M |-> M[i]]
  BY DEF Extended
<1> QED BY <1>1, <1>3, <1>4, <1>5 DEF IsLog

(* Saving a well formed snapshot, and removing, keep the cell well formed. *)
LEMMA SavedCellOK ==
    ASSUME CellOK, Saved, IsSnapshot(NewSnapshot)
    PROVE  CellOK'
BY DEF CellOK, Saved, Cell!Save, cellVars, IsSnapshot

(* (the same for remove) *)
LEMMA RemovedCellOK ==
    ASSUME CellOK, Removed, Persist => erasing < MaxUnlinks
    PROVE  CellOK'
BY BusAssumption DEF CellOK, Removed, Cell!Remove, cellVars

(* A run rebuilt from a well formed snapshot is terminal and well numbered. *)
LEMMA ReconstructedIsLog ==
    ASSUME NEW s, IsSnapshot(s), Reconstructed(s)
    PROVE  status' \in Terminal /\ IsLog(log', nextId')
<1> DEFINE closing == Append(ClosingFrames(s.log), [ev |-> "error"])
<1>1. closing \in Seq(Frame)
  BY ClosingFramesType DEF Frame
<1> HIDE DEF closing
<1>2. CASE s.status \in Terminal
  BY <1>2 DEF Reconstructed, IsSnapshot
<1>3. CASE s.status \notin Terminal
  <2>1. IsLog(Extended(s.log, s.next, closing), s.next + Len(closing))
    BY <1>1, ExtendedIsLog DEF IsSnapshot
  <2> QED BY <1>3, <2>1 DEF Reconstructed, Terminal, closing
<1> QED BY <1>2, <1>3

(* The sweep's own reading of a log: it finds nothing more to close.         *)
Swept(L) == OpenCards(L) = {} /\ RunningRows(L) = {}

(* The sweep leaves nothing open behind it: whatever the frames are that it  *)
(* adds after the ones it computes, as long as they open nothing.            *)
LEMMA SweepSettles ==
    ASSUME NEW L, NEW n, IsLog(L, n), NEW frames \in Seq(Frame),
           \A x \in Closing(L) : \E k \in 1..Len(frames) : frames[k] = x,
           \A k \in 1..Len(frames) : frames[k] \in Closing(L) \/ frames[k] = [ev |-> "error"]
    PROVE  Swept(Extended(L, n, frames))
<1> DEFINE M == Extended(L, n, frames)
           len == Len(frames)
<1>1. /\ n \in Nat \ {0} /\ len \in Nat
      /\ DOMAIN L \subseteq 1..(n - 1)
      /\ \A i \in DOMAIN L : i < n
  BY DEF IsLog
<1>2. DOMAIN M = DOMAIN L \cup n..(n + len - 1)
  BY DEF Extended
<1>3. \A i \in DOMAIN L : i \in DOMAIN M /\ M[i] = L[i]
  BY <1>1, <1>2 DEF Extended
<1>4. \A k \in 1..len : n + k - 1 \in DOMAIN M /\ M[n + k - 1] = frames[k]
  BY <1>1, <1>2 DEF Extended
<1>5. \A i \in DOMAIN M : i >= n => M[i] \in Closing(L) \/ M[i] = [ev |-> "error"]
  <2> SUFFICES ASSUME NEW i \in DOMAIN M, i >= n
               PROVE  M[i] \in Closing(L) \/ M[i] = [ev |-> "error"]
    OBVIOUS
  <2>1. i - n + 1 \in 1..len /\ M[i] = frames[i - n + 1]
    BY <1>1, <1>2 DEF Extended
  <2> QED BY <2>1
<1>6. \A x \in Closing(L) : \E i \in DOMAIN M : i >= n /\ M[i] = x
  <2> SUFFICES ASSUME NEW x \in Closing(L) PROVE \E i \in DOMAIN M : i >= n /\ M[i] = x
    OBVIOUS
  <2>1. PICK k \in 1..len : frames[k] = x
    OBVIOUS
  <2>2. n + k - 1 >= n
    BY <1>1
  <2> QED BY <2>1, <2>2, <1>4
<1>7. \A i \in DOMAIN M : i \in DOMAIN L \/ i >= n
  BY <1>1, <1>2
<1>8. DOMAIN M \subseteq 1..(n + len - 1)
  BY <1>1, <1>2
<1> HIDE DEF M, len
<1>9. \A x \in Closing(L) :
         /\ x.ev # "open" /\ x.ev # "plan"
         /\ x.ev = "row" => x.to = "failed"
  BY DEF Closing, CardFinal, RowFailed
<1>10. \A i \in DOMAIN M : M[i].ev \in {"open", "plan"} => i \in DOMAIN L
  BY <1>5, <1>7, <1>9
<1>11. OpenCards(M) = {}
  <2> SUFFICES ASSUME NEW c \in Cards,
                      NEW i \in DOMAIN M, M[i] = [ev |-> "open", card |-> c],
                      \A j \in DOMAIN M : M[j] # [ev |-> "final", card |-> c]
               PROVE  FALSE
    BY DEF OpenCards
  <2>1. i \in DOMAIN L
    BY <1>10
  <2>2. c \in OpenCards(L)
    BY <2>1, <1>3 DEF OpenCards
  <2>3. CardFinal(c) \in Closing(L)
    BY <2>2 DEF Closing
  <2> QED BY <2>3, <1>6 DEF CardFinal
<1>12. RunningRows(M) = {}
  <2> SUFFICES ASSUME NEW r \in Rows, r \in RunningRows(M) PROVE FALSE
    BY DEF RunningRows
  <2> DEFINE P == RowPatches(M, r)
  <2>1. PICK i \in DOMAIN M :
           /\ M[i].ev = "plan"
           /\ IF P = {} THEN r \in M[i].running ELSE M[HighestId(P)].to = "running"
    BY DEF RunningRows
  <2>2. i \in DOMAIN L /\ L[i].ev = "plan" /\ L[i].running = M[i].running
    BY <2>1, <1>3, <1>10
  <2>3. RowPatches(L, r) \subseteq P
    BY <1>3 DEF RowPatches
  <2>4. r \in RunningRows(L) => \E j \in P : j >= n
    <3> SUFFICES ASSUME r \in RunningRows(L) PROVE \E j \in P : j >= n
      OBVIOUS
    <3>1. RowFailed(r) \in Closing(L)
      BY DEF Closing
    <3>2. PICK j \in DOMAIN M : j >= n /\ M[j] = RowFailed(r)
      BY <3>1, <1>6
    <3>3. j \in P
      BY <3>2 DEF RowPatches, RowFailed
    <3> QED BY <3>2, <3>3
  <2>5. CASE P = {}
    <3>1. r \in RunningRows(L)
      BY <2>1, <2>2, <2>3, <2>5 DEF RunningRows
    <3> QED BY <3>1, <2>4, <2>5
  <2>6. CASE P # {}
    <3> DEFINE h == HighestId(P)
               top == n + len - 1
    <3>1. P \in SUBSET (1..top) /\ top \in Nat
      BY <1>1, <1>8 DEF RowPatches
    <3>2. h \in P /\ \A j \in P : j <= h
      <4> HIDE DEF P, top
      <4> QED BY <2>6, <3>1, HighestIdExists
    <3>3. h \in DOMAIN M /\ M[h].ev = "row" /\ M[h].to = "running"
      BY <2>1, <2>6, <3>2 DEF RowPatches
    <3>4. h \in DOMAIN L
      BY <3>3, <1>5, <1>7, <1>9
    <3>5. \A j \in P : ~(j >= n)
      <4> SUFFICES ASSUME NEW j \in P PROVE ~(j >= n)
        OBVIOUS
      <4>1. j \in Nat /\ h \in Nat /\ j <= h /\ h < n
        BY <3>1, <3>2, <3>4, <1>1
      <4> QED BY <4>1, <1>1
    <3>6. RowPatches(L, r) = P
      <4>1. \A j \in P : j \in DOMAIN L
        BY <3>5, <1>7 DEF RowPatches
      <4>2. P \subseteq RowPatches(L, r)
        BY <4>1, <1>3 DEF RowPatches
      <4> QED BY <4>2, <2>3
    <3>7. r \in RunningRows(L)
      BY <2>2, <2>6, <3>3, <3>4, <3>6, <1>3 DEF RunningRows
    <3> QED BY <3>5, <3>7, <2>4
  <2> QED BY <2>5, <2>6
<1> QED BY <1>11, <1>12 DEF Swept, M

(* The producers' order, as a log shows it: no frame of a card or row comes   *)
(* before the message that brings it; and all were announced.                *)
InOrder(L) ==
    \A i, j \in DOMAIN L : \A x \in Introduces(L[i]) :
        x \in Introduces(L[j]) \cup Patches(L[j]) => i <= j
Told(L, A) ==
    \A i \in DOMAIN L : Introduces(L[i]) \cup Patches(L[i]) \subseteq A

(* In such a log a replay ends where the sweep thinks it does: a card that    *)
(* spins though an end of it is in the log was started again after it.       *)
LEMMA SweptSettles ==
    ASSUME NEW L, NEW n, IsLog(L, n), InOrder(L), Swept(L)
    PROVE  Settled(L)
<1>n. \A i \in DOMAIN L : i \in Nat
  BY DEF IsLog
<1>1. ASSUME NEW c \in Cards, Spins(L, c) PROVE StartedAgain(L, c)
  <2>1. PICK i \in DOMAIN L :
           /\ L[i] = [ev |-> "open", card |-> c]
           /\ \A j \in DOMAIN L : j > i /\ L[j] = [ev |-> "final", card |-> c]
                 => \E k \in DOMAIN L : k > j /\ L[k] = [ev |-> "start", card |-> c]
    BY <1>1 DEF Spins
  <2>2. PICK j \in DOMAIN L : L[j] = [ev |-> "final", card |-> c]
    BY <2>1 DEF Swept, OpenCards
  <2>3. <<"card", c>> \in Introduces(L[i]) /\ <<"card", c>> \in Patches(L[j])
    BY <2>1, <2>2 DEF Introduces, Patches
  <2>4. i <= j
    BY <2>3 DEF InOrder
  <2>5. L[i].ev # L[j].ev
    BY <2>1, <2>2
  <2>6. i # j
    BY <2>5
  <2>7. j > i
    BY <1>n, <2>4, <2>6
  <2>8. PICK k \in DOMAIN L : k > j /\ L[k] = [ev |-> "start", card |-> c]
    BY <2>1, <2>2, <2>7
  <2>9. j < k
    BY <1>n, <2>8
  <2> QED BY <2>2, <2>8, <2>9 DEF StartedAgain
<1>2. ASSUME NEW r \in Rows, RowSpins(L, r) PROVE FALSE
  <2> DEFINE P == RowPatches(L, r)
             Says(k, running) == L[k].ev = "row" /\ L[k].row = r /\ (L[k].to = "running") = running
  <2>1. PICK i \in DOMAIN L :
           /\ L[i].ev = "plan"
           /\ r \in L[i].running \/ (\E j \in DOMAIN L : j > i /\ Says(j, TRUE))
           /\ \A j \in DOMAIN L : j > i /\ Says(j, FALSE)
                 => \E k \in DOMAIN L : k > j /\ Says(k, TRUE)
    BY <1>2 DEF RowSpins
  <2>2. \A j \in P : j \in DOMAIN L /\ j > i
    <3> SUFFICES ASSUME NEW j \in P PROVE j \in DOMAIN L /\ j > i
      OBVIOUS
    <3>1. j \in DOMAIN L /\ L[j].ev = "row" /\ L[j].row = r
      BY DEF RowPatches
    <3>2. <<"row", r>> \in Introduces(L[i]) /\ <<"row", r>> \in Patches(L[j])
      BY <2>1, <3>1 DEF Introduces, Patches
    <3>3. i <= j
      BY <3>1, <3>2 DEF InOrder
    <3>4. i # j
      BY <2>1, <3>1
    <3> QED BY <1>n, <3>1, <3>3, <3>4
  <2>3. IF P = {} THEN r \notin L[i].running ELSE L[HighestId(P)].to # "running"
    BY <2>1 DEF Swept, RunningRows
  <2>4. P # {}
    <3>1. \A j \in DOMAIN L : Says(j, TRUE) => j \in P
      BY DEF RowPatches
    <3> QED BY <2>1, <2>3, <3>1
  <2>5. HighestId(P) \in P /\ \A j \in P : j <= HighestId(P)
    <3> DEFINE top == n - 1
    <3>1. P \in SUBSET (1..top) /\ top \in Nat
      BY DEF IsLog, RowPatches
    <3> HIDE DEF P, top
    <3> QED BY <2>4, <3>1, HighestIdExists
  <2> DEFINE h == HighestId(P)
  <2>6. h \in DOMAIN L /\ h > i /\ Says(h, FALSE)
    BY <2>2, <2>3, <2>4, <2>5 DEF RowPatches
  <2>7. PICK k \in DOMAIN L : k > h /\ Says(k, TRUE)
    BY <2>1, <2>6
  <2>8. k \in P
    BY <2>7 DEF RowPatches
  <2>9. k <= h
    BY <2>5, <2>8
  <2> HIDE DEF h
  <2> QED BY <1>n, <2>6, <2>7, <2>9
<1> QED BY <1>1, <1>2 DEF Settled

(* Eviction keeps the order and drops mentions. *)
LEMMA TrimInOrder ==
    ASSUME NEW L, NEW A, InOrder(L), Told(L, A)
    PROVE  InOrder(Trim(L)) /\ Told(Trim(L), A)
<1>1. Retained(L) \subseteq DOMAIN L
  BY DEF Retained
<1> QED BY <1>1 DEF Trim, InOrder, Told

(* The closing frames patch what is in the log, and come after it. *)
LEMMA SweepInOrder ==
    ASSUME NEW L, NEW n, IsLog(L, n), NEW A, NEW frames \in Seq(Frame),
           \A k \in 1..Len(frames) : frames[k] \in Closing(L) \/ frames[k] = [ev |-> "error"],
           InOrder(L), Told(L, A)
    PROVE  InOrder(Extended(L, n, frames)) /\ Told(Extended(L, n, frames), A)
<1> DEFINE M == Extended(L, n, frames)
           len == Len(frames)
<1>1. /\ n \in Nat \ {0} /\ len \in Nat
      /\ \A i \in DOMAIN L : i \in Nat /\ i < n
  BY DEF IsLog
<1>2. DOMAIN M = DOMAIN L \cup n..(n + len - 1)
  BY DEF Extended
<1>3. \A i \in DOMAIN L : M[i] = L[i]
  BY <1>1, <1>2 DEF Extended
<1>4. \A x \in Closing(L) \cup {[ev |-> "error"]} :
         Introduces(x) = {} /\ Patches(x) \subseteq A
  <2>1. ASSUME NEW c \in OpenCards(L)
        PROVE  Introduces(CardFinal(c)) = {} /\ Patches(CardFinal(c)) \subseteq A
    <3>1. PICK i \in DOMAIN L : L[i] = [ev |-> "open", card |-> c]
      BY <2>1 DEF OpenCards
    <3>2. Introduces(L[i]) = {<<"card", c>>}
      BY <3>1 DEF Introduces
    <3>3. <<"card", c>> \in A
      BY <3>2 DEF Told
    <3> QED BY <3>3 DEF Introduces, Patches, CardFinal
  <2>2. ASSUME NEW r \in RunningRows(L)
        PROVE  Introduces(RowFailed(r)) = {} /\ Patches(RowFailed(r)) \subseteq A
    <3>1. r \in Rows /\ \E i \in DOMAIN L : L[i].ev = "plan"
      BY <2>2 DEF RunningRows
    <3>2. PICK i \in DOMAIN L : L[i].ev = "plan"
      BY <3>1
    <3>3. <<"row", r>> \in Introduces(L[i])
      BY <3>1, <3>2 DEF Introduces
    <3>4. <<"row", r>> \in A
      BY <3>3 DEF Told
    <3> QED BY <3>4 DEF Introduces, Patches, RowFailed
  <2>3. Introduces([ev |-> "error"]) = {} /\ Patches([ev |-> "error"]) = {}
    BY DEF Introduces, Patches
  <2> QED BY <2>1, <2>2, <2>3 DEF Closing
<1>5. \A i \in DOMAIN M : i \in DOMAIN L \/ (i \in Nat /\ i >= n /\ M[i] \in Closing(L) \cup {[ev |-> "error"]})
  <2> SUFFICES ASSUME NEW i \in DOMAIN M, i \notin DOMAIN L
               PROVE  i \in Nat /\ i >= n /\ M[i] \in Closing(L) \cup {[ev |-> "error"]}
    OBVIOUS
  <2>1. i \in n..(n + len - 1)
    BY <1>2
  <2>2. i \in Nat /\ i >= n /\ i - n + 1 \in 1..len /\ M[i] = frames[i - n + 1]
    BY <1>1, <1>2, <2>1 DEF Extended
  <2> QED BY <2>2
<1> HIDE DEF M, len
<1>6. InOrder(M)
  <2> SUFFICES ASSUME NEW i \in DOMAIN M, NEW j \in DOMAIN M, NEW x \in Introduces(M[i]),
                      x \in Introduces(M[j]) \cup Patches(M[j])
               PROVE  i <= j
    BY DEF InOrder
  <2>1. i \in DOMAIN L
    BY <1>4, <1>5
  <2>2. CASE j \in DOMAIN L
    <3>1. x \in Introduces(L[i]) /\ x \in Introduces(L[j]) \cup Patches(L[j])
      BY <1>3, <2>1, <2>2
    <3> QED BY <2>1, <2>2, <3>1 DEF InOrder
  <2>3. CASE j \notin DOMAIN L
    BY <1>1, <1>5, <2>1, <2>3
  <2> QED BY <2>2, <2>3
<1>7. Told(M, A)
  <2> SUFFICES ASSUME NEW i \in DOMAIN M
               PROVE  Introduces(M[i]) \cup Patches(M[i]) \subseteq A
    BY DEF Told
  <2>1. CASE i \in DOMAIN L
    <3>1. M[i] = L[i]
      BY <1>3, <2>1
    <3> QED BY <2>1, <3>1 DEF Told
  <2>2. CASE i \notin DOMAIN L
    BY <1>4, <1>5, <2>2
  <2> QED BY <2>1, <2>2
<1> QED BY <1>6, <1>7 DEF M

(* A frame that keeps to the producers' order extends the log in order. *)
LEMMA AppendInOrder ==
    ASSUME NEW L, NEW n, IsLog(L, n), NEW A, NEW f, InOrder(L), Told(L, A),
           Introduces(f) \cap A = {}, Patches(f) \subseteq A
    PROVE  LET M == [i \in DOMAIN L \cup {n} |-> IF i = n THEN f ELSE L[i]]
           IN  InOrder(M) /\ Told(M, A \cup Introduces(f))
<1> DEFINE M == [i \in DOMAIN L \cup {n} |-> IF i = n THEN f ELSE L[i]]
<1>1. n \in Nat /\ \A i \in DOMAIN L : i \in Nat /\ i < n
  BY DEF IsLog
<1>2. /\ DOMAIN M = DOMAIN L \cup {n} /\ M[n] = f
      /\ \A i \in DOMAIN L : M[i] = L[i]
  BY <1>1
<1> HIDE DEF M
<1>3. InOrder(M)
  <2> SUFFICES ASSUME NEW i \in DOMAIN M, NEW j \in DOMAIN M, NEW x \in Introduces(M[i]),
                      x \in Introduces(M[j]) \cup Patches(M[j])
               PROVE  i <= j
    BY DEF InOrder
  <2>1. CASE j = n
    BY <1>1, <1>2, <2>1
  <2>2. CASE j # n
    <3>1. j \in DOMAIN L /\ M[j] = L[j]
      BY <1>2, <2>2
    <3>2. x \in A
      BY <3>1 DEF Told
    <3>3. i # n
      BY <1>2, <3>2
    <3>4. i \in DOMAIN L /\ M[i] = L[i]
      BY <1>2, <3>3
    <3> QED BY <3>1, <3>4 DEF InOrder
  <2> QED BY <2>1, <2>2
<1>4. Told(M, A \cup Introduces(f))
  BY <1>2 DEF Told
<1> QED BY <1>3, <1>4 DEF M

(* The inductive invariant. *)
IInv == TypeOK /\ NobodyHangs /\ NoMissedRecord

(* The part of TypeOK that ensure() touches. *)
RunOK ==
    /\ status \in Terminal \cup {"running", "absent"}
    /\ IsLog(log, nextId)
    /\ aborted \in BOOLEAN /\ exited \in BOOLEAN
    /\ runs \in 0..MaxRuns

(* A new Run object has an empty buffer numbered from 1. *)
LEMMA EmptyIsLog == IsLog(EmptyLog, 1)
BY DEF IsLog, EmptyLog

(* ensure() leaves an existing run alone and creates a running one. *)
LEMMA EnsuredOK ==
    ASSUME RunOK, Ensured
    PROVE  /\ RunOK'
           /\ status' # "absent"
           /\ Present => status' = status /\ log' = log
           /\ ~Present => status' = "running" /\ runs' = runs + 1
           /\ runs <= runs'
<1>1. CASE Present
  BY <1>1 DEF RunOK, Ensured, Present
<1>2. CASE ~Present
  <2>1. /\ runs < MaxRuns /\ runs' = runs + 1
        /\ status' = "running" /\ log' = EmptyLog /\ nextId' = 1
        /\ aborted' = FALSE /\ exited' = FALSE
    BY <1>2, Zenon DEF Ensured
  <2>2. runs' \in 0..MaxRuns /\ runs <= runs'
    BY <2>1, BusAssumption DEF RunOK
  <2>3. aborted' \in BOOLEAN /\ exited' \in BOOLEAN
    BY <2>1, Zenon
  <2> QED BY <1>2, <2>1, <2>2, <2>3, EmptyIsLog DEF RunOK
<1> QED BY <1>1, <1>2

(* The invariant holds initially ... *)
LEMMA InitIInv == Init => IInv
<1> SUFFICES ASSUME Init PROVE IInv
  OBVIOUS
<1>1. /\ started \in BOOLEAN /\ aborted \in BOOLEAN /\ exited \in BOOLEAN
      /\ honest \in [Views -> BOOLEAN]
  BY Zenon DEF Init
<1>2. CellOK /\ IsLog(log, nextId)
  BY EmptyIsLog, BusAssumption DEF Init, CellOK
<1>3. TypeOK
  BY <1>1, <1>2, BusAssumption DEF Init, TypeOK
<1>4. NobodyHangs /\ NoMissedRecord
  BY DEF Init, NobodyHangs, NoMissedRecord
<1> QED BY <1>3, <1>4 DEF IInv

(* ... and every action preserves it, one lemma per action. *)
LEMMA ClaimStartIInv == IInv /\ ClaimStart => IInv'
<1> SUFFICES ASSUME TypeOK, NobodyHangs, NoMissedRecord, ClaimStart PROVE IInv'
  BY DEF IInv
<1>1. RunOK' /\ runs <= runs' /\ status' # "absent"
  BY EnsuredOK DEF ClaimStart, TypeOK, RunOK
<1>2. TypeOK'
  BY <1>1 DEF ClaimStart, TypeOK, RunOK, CellOK, cellVars, viewVars
<1>3. NobodyHangs'
  BY EnsuredOK DEF ClaimStart, TypeOK, RunOK, NobodyHangs, Present
<1>4. NoMissedRecord'
  BY EnsuredOK DEF ClaimStart, TypeOK, RunOK, NobodyHangs, Present, NoMissedRecord, Pairs
<1> QED BY <1>2, <1>3, <1>4 DEF IInv

(* emit: a live view gets exactly the record the log gains. *)
LEMMA EmitIInv == ASSUME NEW f \in Emits PROVE IInv /\ Emit(f) => IInv'
<1> SUFFICES ASSUME TypeOK, NobodyHangs, NoMissedRecord, Emit(f) PROVE IInv'
  BY DEF IInv
<1> DEFINE L == [i \in DOMAIN log \cup {nextId} |-> IF i = nextId THEN f ELSE log[i]]
<1>1. IsLog(L, nextId + 1) /\ f \in Frame
  <2>1. f \in Frame
    BY BusAssumption, Zenon
  <2>2. IsLog(log, nextId)
    BY Zenon DEF TypeOK
  <2>3. IsLog(L, nextId + 1)
    BY <2>1, <2>2, AppendedIsLog, Zenon
  <2> QED BY <2>1, <2>3
<1>2. IsLog(log', nextId') /\ Pairs(log') \subseteq Pairs(L)
  BY <1>1, TrimIsLog DEF Emit
<1>3. IsSnapshot(NewSnapshot)
  BY <1>2 DEF Emit, TypeOK, Present, IsSnapshot, NewSnapshot
<1>4. CellOK'
  BY <1>3, SavedCellOK DEF Emit, TypeOK
<1>5. TypeOK'
  <2>1. nextId \in Nat
    BY DEF TypeOK, IsLog
  <2>2. /\ cursor' \in [Views -> Nat]
        /\ sent' \in [Views -> Nat]
        /\ \A v \in Views : seen'[v] \subseteq Nat \X Frame
    BY <1>1, <2>1 DEF Emit, TypeOK
  <2> QED BY <1>2, <1>4, <2>2 DEF Emit, TypeOK
<1>6. NobodyHangs'
  BY DEF Emit, NobodyHangs
<1>7. NoMissedRecord'
  <2>1. Pairs(log') \subseteq Pairs(log) \cup {<<nextId, f>>}
    BY <1>2 DEF Pairs
  <2> QED BY <2>1 DEF Emit, NoMissedRecord
<1> QED BY <1>5, <1>6, <1>7 DEF IInv

(* attach: what the cursor does not cover is replayed; what it covers has   *)
(* been received, which is what "honest" records.                           *)
LEMMA AttachIInv ==
    ASSUME NEW v \in Views, NEW fresh \in BOOLEAN
    PROVE  IInv /\ Attach(v, fresh) => IInv'
<1> SUFFICES ASSUME TypeOK, NobodyHangs, NoMissedRecord, Attach(v, fresh) PROVE IInv'
  BY DEF IInv
<1> DEFINE after == IF fresh THEN 0 ELSE cursor[v]
           had   == IF fresh \/ ~Present THEN {} ELSE seen[v]
           count == IF fresh \/ ~Present THEN 0 ELSE sent[v]
           new   == {i \in DOMAIN log' : i > after}
<1>1. /\ RunOK' /\ runs <= runs' /\ status' # "absent"
      /\ Present => status' = status /\ log' = log
      /\ ~Present => status' = "running"
  BY EnsuredOK DEF Attach, TypeOK, RunOK
<1>2. after \in Nat /\ count \in Nat /\ had \subseteq Nat \X Frame
  BY DEF TypeOK
<1>3. nextId' - 1 \in Nat /\ new \in SUBSET (1..(nextId' - 1))
  BY <1>1 DEF RunOK, IsLog
<1>4. new # {} => HighestId(new) \in Nat
  <2> HIDE DEF new
  <2> SUFFICES ASSUME new # {} PROVE HighestId(new) \in Nat
    OBVIOUS
  <2> DEFINE top == nextId' - 1
  <2> HIDE DEF top
  <2>1. top \in Nat /\ new \in SUBSET (1..top)
    BY <1>3 DEF top
  <2>2. HighestId(new) \in new
    BY <2>1, HighestIdExists
  <2>3. new \subseteq Nat
    BY <2>1
  <2> QED BY <2>2, <2>3, Zenon
<1>5. Cardinality(new) \in Nat
  <2> HIDE DEF new
  <2>1. IsFiniteSet(1..(nextId' - 1))
    BY <1>3, FS_Interval
  <2>2. IsFiniteSet(new)
    BY <1>3, <2>1, FS_Subset
  <2> QED BY <2>2, FS_CardinalityType
<1>6. {<<i, log'[i]>> : i \in new} \subseteq Nat \X Frame
  BY <1>1 DEF RunOK, IsLog
<1>7. /\ seen' = [w \in Views |-> IF w = v THEN had \cup {<<i, log'[i]>> : i \in new}
                                  ELSE IF Present THEN seen[w] ELSE {}]
      /\ sent' = [w \in Views |-> IF w = v THEN count + Cardinality(new)
                                  ELSE IF Present THEN sent[w] ELSE 0]
      /\ cursor' = [cursor EXCEPT ![v] = IF new = {} THEN after ELSE HighestId(new)]
      /\ honest' = [honest EXCEPT ![v] =
                     \A i \in DOMAIN log' : i <= after => <<i, log'[i]>> \in had]
      /\ conn' = [conn EXCEPT ![v] = IF status' = "running" THEN "live" ELSE "ended"]
      /\ UNCHANGED <<started, answer, ttl, cellVars>>
  BY DEF Attach, Replay
<1>8. TypeOK'
  <2>1. CellOK'
    BY <1>7 DEF TypeOK, CellOK, cellVars
  <2> HIDE DEF after, had, count, new
  <2>2. /\ conn' \in [Views -> {"off", "live", "ended"}]
        /\ cursor' \in [Views -> Nat]
        /\ sent' \in [Views -> Nat]
        /\ honest' \in [Views -> BOOLEAN]
    BY <1>2, <1>4, <1>5, <1>7 DEF TypeOK
  <2>3. \A w \in Views : seen'[w] \subseteq Nat \X Frame
    BY <1>2, <1>6, <1>7 DEF TypeOK
  <2> QED BY <1>1, <1>7, <2>1, <2>2, <2>3 DEF TypeOK, RunOK
<1>9. NobodyHangs'
  BY <1>1, <1>7 DEF NobodyHangs, Present, TypeOK
<1>10. NoMissedRecord'
  <2> SUFFICES ASSUME NEW w \in Views, conn'[w] = "live", honest'[w]
               PROVE  Pairs(log') \subseteq seen'[w]
    BY DEF NoMissedRecord
  <2>1. CASE w = v
    <3>1. \A i \in DOMAIN log' : i <= after => <<i, log'[i]>> \in had
      BY <2>1, <1>7 DEF TypeOK
    <3>2. \A i \in DOMAIN log' : i <= after \/ i \in new
      BY <1>1, <1>2 DEF RunOK, IsLog
    <3> QED BY <2>1, <3>1, <3>2, <1>7 DEF Pairs
  <2>2. CASE w # v
    BY <2>2, <1>1, <1>7 DEF TypeOK, NobodyHangs, NoMissedRecord, Present, Pairs
  <2> QED BY <2>1, <2>2
<1> QED BY <1>8, <1>9, <1>10 DEF IInv

(* A detached view owes nothing any more. *)
LEMMA DetachIInv == ASSUME NEW v \in Views PROVE IInv /\ Detach(v) => IInv'
<1> SUFFICES ASSUME TypeOK, NobodyHangs, NoMissedRecord, Detach(v) PROVE IInv'
  BY DEF IInv
<1>1. TypeOK'
  BY DEF Detach, TypeOK, CellOK, runVars, cellVars
<1>2. NobodyHangs'
  BY DEF Detach, NobodyHangs, runVars, TypeOK
<1>3. NoMissedRecord'
  BY DEF Detach, NoMissedRecord, runVars, TypeOK, Pairs
<1> QED BY <1>1, <1>2, <1>3 DEF IInv

(* finish and cancel end every view and answer every waiter. *)
LEMMA FinishedIInv ==
    ASSUME NEW s \in Terminal, IInv, Present, aborted' \in BOOLEAN, Finished(s)
    PROVE  IInv'
<1> USE DEF IInv
<1>1. IsLog(log', nextId')
  BY ClosingFramesType, ExtendedIsLog DEF Finished, TypeOK
<1>2. IsSnapshot(NewSnapshot)
  BY <1>1 DEF Finished, TypeOK, IsSnapshot, NewSnapshot
<1>3. CellOK'
  BY <1>2, SavedCellOK DEF Finished, TypeOK
<1>4. /\ conn' \in [Views -> {"off", "ended"}]
      /\ answer' \in [Waiters -> Terminal \cup {"idle"}]
  BY DEF Finished, EndViews, Answered, TypeOK
<1>5. ttl' \subseteq 0..runs'
  BY DEF Finished, TypeOK
<1>6. TypeOK'
  BY <1>1, <1>3, <1>4, <1>5 DEF Finished, TypeOK
<1>7. NobodyHangs' /\ NoMissedRecord'
  BY <1>4 DEF NobodyHangs, NoMissedRecord, Terminal
<1> QED BY <1>6, <1>7

(* reset does too, before the Map entry goes. *)
LEMMA ResetIInv == IInv /\ Reset => IInv'
<1> SUFFICES ASSUME TypeOK, NobodyHangs, NoMissedRecord, Reset PROVE IInv'
  BY DEF IInv
<1>1. /\ conn' \in [Views -> {"off", "ended"}]
      /\ answer' \in [Waiters -> Terminal \cup {"idle"}]
  BY DEF Reset, EndViews, Answered, TypeOK, Terminal
<1>2. CellOK'
  BY RemovedCellOK DEF Reset, TypeOK
<1>3. TypeOK'
  BY <1>1, <1>2, EmptyIsLog DEF Reset, Deleted, TypeOK
<1>4. NobodyHangs' /\ NoMissedRecord'
  BY <1>1 DEF NobodyHangs, NoMissedRecord, Terminal
<1> QED BY <1>3, <1>4 DEF IInv

(* wait parks a caller on a running run only. *)
LEMMA WaitIInv == ASSUME NEW w \in Waiters PROVE IInv /\ Wait(w) => IInv'
<1> SUFFICES ASSUME TypeOK, NobodyHangs, NoMissedRecord, Wait(w) PROVE IInv'
  BY DEF IInv
<1>1. UNCHANGED <<runVars, viewVars, runs, ttl, cellVars>>
  BY DEF Wait
<1>2. answer' = [answer EXCEPT ![w] =
          CASE status = "absent"  -> "canceled"
            [] status = "running" -> "waiting"
            [] OTHER              -> status]
  BY DEF Wait
<1>3. TypeOK'
  BY <1>1, <1>2 DEF TypeOK, CellOK, runVars, viewVars, cellVars, Terminal
<1>4. NobodyHangs'
  BY <1>1, <1>2 DEF NobodyHangs, runVars, viewVars, TypeOK, Terminal
<1>5. NoMissedRecord'
  BY <1>1 DEF NoMissedRecord, runVars, viewVars, Pairs
<1> QED BY <1>3, <1>4, <1>5 DEF IInv

(* setExit records the exit and saves. *)
LEMMA SetExitIInv == IInv /\ SetExit => IInv'
<1> SUFFICES ASSUME TypeOK, NobodyHangs, NoMissedRecord, SetExit PROVE IInv'
  BY DEF IInv
<1>1. exited' \in BOOLEAN
  BY Zenon DEF SetExit
<1>2. IsSnapshot(NewSnapshot)
  BY <1>1 DEF SetExit, TypeOK, Present, IsSnapshot, NewSnapshot
<1>3. CellOK'
  BY <1>2, SavedCellOK DEF SetExit, TypeOK
<1>4. TypeOK'
  BY <1>1, <1>3 DEF SetExit, TypeOK, viewVars
<1>5. NobodyHangs' /\ NoMissedRecord'
  BY DEF SetExit, viewVars, NobodyHangs, NoMissedRecord, Pairs
<1> QED BY <1>4, <1>5 DEF IInv

(* The cleanup callback deletes a run that is over: nobody is attached. *)
LEMMA ExpireIInv == IInv /\ Expire => IInv'
<1> SUFFICES ASSUME TypeOK, NobodyHangs, NoMissedRecord, Expire PROVE IInv'
  BY DEF IInv
<1>1. UNCHANGED <<viewVars, answer, runs, cellVars>> /\ ttl' \subseteq ttl
  BY DEF Expire
<1>2. CASE status \in Terminal
  <2>1. Deleted
    BY <1>2 DEF Expire
  <2>2. \A v \in Views : conn[v] # "live"
    BY <1>2 DEF NobodyHangs, Terminal
  <2>3. TypeOK'
    BY <1>1, <2>1, EmptyIsLog DEF Deleted, TypeOK, CellOK, viewVars, cellVars
  <2>4. NobodyHangs' /\ NoMissedRecord'
    BY <1>1, <1>2, <2>2 DEF NobodyHangs, NoMissedRecord, viewVars, Terminal
  <2> QED BY <2>3, <2>4 DEF IInv
<1>3. CASE status \notin Terminal
  <2>1. UNCHANGED runVars
    BY <1>3 DEF Expire
  <2>2. TypeOK'
    BY <1>1, <2>1 DEF runVars, TypeOK, CellOK, viewVars, cellVars
  <2>3. NobodyHangs' /\ NoMissedRecord'
    BY <1>1, <2>1 DEF NobodyHangs, NoMissedRecord, runVars, viewVars, Pairs
  <2> QED BY <2>2, <2>3 DEF IInv
<1> QED BY <1>2, <1>3

(* Hydration from a well formed snapshot yields a well formed terminal run. *)
LEMMA RecoveredOK ==
    ASSUME NEW s, IsSnapshot(s), Recovered(s), runs \in 0..MaxRuns
    PROVE  /\ status' \in Terminal
           /\ IsLog(log', nextId')
           /\ started' \in BOOLEAN /\ aborted' \in BOOLEAN /\ exited' \in BOOLEAN
           /\ runs' \in 0..MaxRuns /\ runs <= runs'
           /\ IsSnapshot(NewSnapshot)
<1>1. status' \in Terminal /\ IsLog(log', nextId')
  BY ReconstructedIsLog DEF Recovered
<1>2. /\ started' \in BOOLEAN /\ aborted' \in BOOLEAN /\ exited' \in BOOLEAN
  BY Zenon DEF Recovered, IsSnapshot
<1>3. runs' \in 0..MaxRuns /\ runs <= runs'
  BY BusAssumption DEF Recovered
<1>4. IsSnapshot(NewSnapshot)
  BY <1>1, <1>2 DEF IsSnapshot, NewSnapshot
<1> QED BY <1>1, <1>2, <1>3, <1>4

(* Hydration only happens for an absent run, to which nobody is attached. *)
LEMMA HydrateOneIInv == IInv /\ HydrateOne => IInv'
<1> SUFFICES ASSUME TypeOK, NobodyHangs, NoMissedRecord, HydrateOne PROVE IInv'
  BY DEF IInv
<1>1. IsSnapshot(Cell!LoadOne) /\ Recovered(Cell!LoadOne)
  BY DEF HydrateOne, Cell!LoadOne, TypeOK, CellOK
<1>2. /\ status' \in Terminal
      /\ IsLog(log', nextId')
      /\ started' \in BOOLEAN /\ aborted' \in BOOLEAN /\ exited' \in BOOLEAN
      /\ runs' \in 0..MaxRuns /\ runs <= runs'
      /\ IsSnapshot(NewSnapshot)
  BY <1>1, RecoveredOK DEF TypeOK
<1>3. CellOK'
  BY <1>2, SavedCellOK DEF HydrateOne, TypeOK
<1>4. TypeOK'
  BY <1>2, <1>3 DEF HydrateOne, TypeOK, viewVars
<1>5. NobodyHangs' /\ NoMissedRecord'
  BY DEF HydrateOne, Present, NobodyHangs, NoMissedRecord, viewVars
<1> QED BY <1>4, <1>5 DEF IInv

(* A restart drops every connection and every parked caller. *)
LEMMA RestartIInv == IInv /\ Restart => IInv'
<1> SUFFICES ASSUME TypeOK, NobodyHangs, NoMissedRecord, Restart PROVE IInv'
  BY DEF IInv
<1>1. /\ conn' = [v \in Views |-> "off"]
      /\ answer' = [w \in Waiters |-> "idle"]
      /\ ttl' = {}
      /\ flight' = NoSnap /\ erasing' = 0 /\ disk' = disk
      /\ UNCHANGED <<cursor, seen, sent, honest>>
  BY DEF Restart
<1>2. NobodyHangs' /\ NoMissedRecord'
  BY <1>1 DEF NobodyHangs, NoMissedRecord
<1>3. CASE disk = NoSnap
  <2>1. Deleted /\ runs' = runs /\ pending' = NoSnap
    BY <1>3 DEF Restart
  <2>2. CellOK'
    BY <1>1, <2>1, BusAssumption DEF CellOK, TypeOK
  <2>3. TypeOK'
    BY <1>1, <2>1, <2>2, EmptyIsLog DEF Deleted, TypeOK
  <2> QED BY <1>2, <2>3 DEF IInv
<1>4. CASE disk # NoSnap
  <2>1. Recovered(disk) /\ pending' = NewSnapshot
    BY <1>4 DEF Restart
  <2>2. /\ status' \in Terminal
        /\ IsLog(log', nextId')
        /\ started' \in BOOLEAN /\ aborted' \in BOOLEAN /\ exited' \in BOOLEAN
        /\ runs' \in 0..MaxRuns /\ runs <= runs'
        /\ IsSnapshot(NewSnapshot)
    BY <1>4, <2>1, RecoveredOK DEF TypeOK, CellOK
  <2>3. CellOK'
    BY <1>1, <2>1, <2>2, BusAssumption DEF CellOK, TypeOK
  <2>4. TypeOK'
    BY <1>1, <2>2, <2>3 DEF TypeOK
  <2> QED BY <1>2, <2>4 DEF IInv
<1> QED BY <1>3, <1>4

(* The disk moves whole snapshots around. *)
LEMMA DiskStepIInv == IInv /\ DiskStep => IInv'
<1> SUFFICES ASSUME TypeOK, NobodyHangs, NoMissedRecord, DiskStep PROVE IInv'
  BY DEF IInv
<1>1. CellOK'
  <2> USE DEF TypeOK, CellOK
  <2>1. CASE Cell!StartFlush
    BY <2>1 DEF Cell!StartFlush
  <2>2. CASE Cell!Commit
    BY <2>2 DEF Cell!Commit
  <2>3. CASE Cell!Drop
    BY <2>3 DEF Cell!Drop
  <2>4. CASE Cell!Erase
    BY <2>4, BusAssumption DEF Cell!Erase
  <2> QED BY <2>1, <2>2, <2>3, <2>4 DEF DiskStep, Cell!CellStep
<1>2. TypeOK' /\ NobodyHangs' /\ NoMissedRecord'
  BY <1>1 DEF DiskStep, TypeOK, runVars, viewVars, NobodyHangs, NoMissedRecord, Pairs
<1> QED BY <1>1, <1>2 DEF IInv

(* The invariant holds in every reachable state. *)
THEOREM Invariance == Spec => []IInv
<1>1. IInv /\ [Next]_vars => IInv'
  <2> SUFFICES ASSUME IInv, [Next]_vars PROVE IInv'
    OBVIOUS
  <2>1. CASE ClaimStart
    BY <2>1, ClaimStartIInv
  <2>2. ASSUME NEW f \in Emits, Emit(f) PROVE IInv'
    BY <2>2, EmitIInv
  <2>3. ASSUME NEW v \in Views, NEW fresh \in BOOLEAN, Attach(v, fresh) PROVE IInv'
    BY <2>3, AttachIInv
  <2>4. ASSUME NEW v \in Views, Detach(v) PROVE IInv'
    BY <2>4, DetachIInv
  <2>5. ASSUME NEW s \in Outcomes, Finish(s) PROVE IInv'
    BY <2>5, FinishedIInv, BusAssumption DEF Finish, IInv, TypeOK, Present
  <2>6. CASE Cancel
    <3>1. aborted' \in BOOLEAN
      BY <2>6, Zenon DEF Cancel
    <3> QED BY <2>6, <3>1, FinishedIInv DEF Cancel, Terminal, Present
  <2>7. CASE Reset
    BY <2>7, ResetIInv
  <2>8. ASSUME NEW w \in Waiters, Wait(w) PROVE IInv'
    BY <2>8, WaitIInv
  <2>9. CASE SetExit
    BY <2>9, SetExitIInv
  <2>10. CASE Expire
    BY <2>10, ExpireIInv
  <2>11. CASE HydrateOne
    BY <2>11, HydrateOneIInv
  <2>12. CASE Restart
    BY <2>12, RestartIInv
  <2>13. CASE DiskStep
    BY <2>13, DiskStepIInv
  <2>14. CASE UNCHANGED vars
    BY <2>14 DEF vars, runVars, viewVars, cellVars, IInv, TypeOK, CellOK, NobodyHangs, NoMissedRecord, Pairs
  <2> QED BY <2>1, <2>2, <2>3, <2>4, <2>5, <2>6, <2>7, <2>8, <2>9, <2>10, <2>11, <2>12, <2>13, <2>14 DEF Next
<1> QED BY InitIInv, <1>1, PTL DEF Spec

(* Type correctness: in particular event ids, in memory and in every queued *)
(* or persisted snapshot, stay below the next id that will be handed out.   *)
THEOREM TypeCorrect == Spec => []TypeOK
BY Invariance, PTL DEF IInv

(* No view stays attached and no caller of wait() stays parked on a run     *)
(* that is over, reset, expired or lost.                                    *)
THEOREM EveryoneReleased == Spec => []NobodyHangs
BY Invariance, PTL DEF IInv

(* An attached view that told the truth about its cursor has every record   *)
(* the buffer retains, whatever was emitted, evicted, reset or restarted.   *)
THEOREM NothingMissed == Spec => []NoMissedRecord
BY Invariance, PTL DEF IInv

(* While its object lives, no step changes the outcome of a run that is      *)
(* over: the guards of finish() and cancel() and the absence of any other    *)
(* assignment to run.status; a restart makes a new object.                   *)
THEOREM OutcomeFixed == Spec => EndsOnce
<1> DEFINE Once == /\ status \in Terminal
                   /\ status' \in Terminal
                   /\ runs' = runs
                   => status' = status
<1>1. ASSUME TypeOK, [Next]_vars PROVE Once
  <2> SUFFICES ASSUME status \in Terminal, status' \in Terminal, runs' = runs
               PROVE  status' = status
    OBVIOUS
  <2>1. Present /\ status # "running"
    BY DEF Present, Terminal
  <2>2. CASE ClaimStart
    BY <2>1, <2>2 DEF ClaimStart, Ensured
  <2>3. ASSUME NEW f \in Emits, Emit(f) PROVE status' = status
    BY <2>3 DEF Emit
  <2>4. ASSUME NEW v \in Views, NEW fresh \in BOOLEAN, Attach(v, fresh) PROVE status' = status
    BY <2>1, <2>4 DEF Attach, Ensured
  <2>5. ASSUME NEW v \in Views, Detach(v) PROVE status' = status
    BY <2>5 DEF Detach, runVars
  <2>6. ASSUME NEW s \in Outcomes, Finish(s) PROVE status' = status
    BY <2>1, <2>6 DEF Finish
  <2>7. CASE Cancel
    BY <2>1, <2>7 DEF Cancel
  <2>8. CASE Reset
    BY <2>8 DEF Reset, Deleted, Terminal
  <2>9. ASSUME NEW w \in Waiters, Wait(w) PROVE status' = status
    BY <2>9 DEF Wait, runVars
  <2>10. CASE SetExit
    BY <2>10 DEF SetExit
  <2>11. CASE Expire
    BY <2>11 DEF Expire, Deleted, Terminal, runVars
  <2>12. CASE HydrateOne
    BY <2>1, <2>12 DEF HydrateOne
  <2>13. CASE Restart
    <3>1. runs \in Nat
      BY <1>1, BusAssumption DEF TypeOK
    <3>2. CASE disk = NoSnap
      BY <2>13, <3>2 DEF Restart, Deleted, Terminal
    <3>3. CASE disk # NoSnap
      BY <2>13, <3>1, <3>3 DEF Restart, Recovered
    <3> QED BY <3>2, <3>3
  <2>14. CASE DiskStep
    BY <2>14 DEF DiskStep, runVars
  <2>15. CASE UNCHANGED vars
    BY <2>15 DEF vars, runVars
  <2> QED
    BY <1>1, <2>2, <2>3, <2>4, <2>5, <2>6, <2>7, <2>8, <2>9, <2>10, <2>11, <2>12,
       <2>13, <2>14, <2>15 DEF Next
<1> QED BY <1>1, TypeCorrect, PTL DEF Spec, EndsOnce

-----------------------------------------------------------------------------
(* The log and the persisted ones keep the producers' order. *)
Orderly ==
    \A L \in {log, pending.log, flight.log, disk.log} : InOrder(L) /\ Told(L, announced)

(* A run that ends, or is rebuilt from the snapshot of one that was cut      *)
(* short, has no open card and no running row in its log.                   *)
LEMMA FinishedSettles ==
    ASSUME TypeOK, Orderly, NEW s, Finished(s)
    PROVE  InOrder(log') /\ Told(log', announced) /\ Settled(log')
<1>1. IsLog(log, nextId)
  BY DEF TypeOK
<1>2. log' = Extended(log, nextId, ClosingFrames(log))
  BY DEF Finished
<1>3. IsLog(log', nextId')
  BY <1>1, ClosingFramesType, ExtendedIsLog DEF Finished
<1>4. InOrder(log') /\ Told(log', announced)
  BY <1>1, <1>2, ClosingFramesType, SweepInOrder DEF Orderly
<1>5. Swept(log')
  BY <1>1, <1>2, ClosingFramesType, SweepSettles
<1> QED BY <1>3, <1>4, <1>5, SweptSettles

(* (the frame that says the run was interrupted comes after the sweep) *)
LEMMA RecoveredSettles ==
    ASSUME Orderly, NEW s \in {pending, disk}, IsSnapshot(s), Recovered(s)
    PROVE  /\ InOrder(log') /\ Told(log', announced)
           /\ TakenOver \/ Settled(log')
<1> DEFINE swept == ClosingFrames(s.log)
           closing == Append(swept, [ev |-> "error"])
<1>o. InOrder(s.log) /\ Told(s.log, announced)
  BY DEF Orderly
<1>t. CASE s.status \in Terminal
  <2>1. log' = s.log
    BY <1>t DEF Recovered, Reconstructed
  <2> QED BY <1>o, <1>t, <2>1 DEF TakenOver
<1> SUFFICES ASSUME s.status \notin Terminal
             PROVE  InOrder(log') /\ Told(log', announced) /\ Settled(log')
  BY <1>t
<1>1. IsLog(s.log, s.next)
  BY DEF IsSnapshot
<1>2. log' = Extended(s.log, s.next, closing)
  BY <1>1 DEF Recovered, Reconstructed
<1>3. /\ swept \in Seq(Frame)
      /\ \A x \in Closing(s.log) : \E k \in 1..Len(swept) : swept[k] = x
      /\ \A k \in 1..Len(swept) : swept[k] \in Closing(s.log)
  BY ClosingFramesType
<1> HIDE DEF swept
<1>4. /\ closing \in Seq(Frame) /\ Len(closing) = Len(swept) + 1
      /\ closing[Len(swept) + 1] = [ev |-> "error"]
      /\ \A k \in 1..Len(swept) : closing[k] = swept[k]
  BY <1>3 DEF Frame
<1> HIDE DEF closing
<1>5. Len(swept) \in Nat
  BY <1>3
<1>6. \A x \in Closing(s.log) : \E k \in 1..Len(closing) : closing[k] = x
  <2> SUFFICES ASSUME NEW x \in Closing(s.log) PROVE \E k \in 1..Len(closing) : closing[k] = x
    OBVIOUS
  <2>1. PICK k \in 1..Len(swept) : swept[k] = x
    BY <1>3
  <2>2. k \in 1..Len(closing) /\ closing[k] = x
    BY <2>1, <1>4, <1>5
  <2> QED BY <2>2
<1>7. \A k \in 1..Len(closing) : closing[k] \in Closing(s.log) \/ closing[k] = [ev |-> "error"]
  <2> SUFFICES ASSUME NEW k \in 1..Len(closing)
               PROVE  closing[k] \in Closing(s.log) \/ closing[k] = [ev |-> "error"]
    OBVIOUS
  <2>1. k \in 1..Len(swept) \/ k = Len(swept) + 1
    BY <1>4, <1>5
  <2> QED BY <2>1, <1>3, <1>4
<1>8. IsLog(log', nextId')
  BY ReconstructedIsLog DEF Recovered
<1>9. InOrder(log') /\ Told(log', announced)
  BY <1>o, <1>1, <1>2, <1>4, <1>7, SweepInOrder
<1>10. Swept(log')
  BY <1>1, <1>2, <1>4, <1>6, <1>7, SweepSettles
<1> QED BY <1>8, <1>9, <1>10, SweptSettles

(* Every step keeps the order of the log and of what is persisted. *)
LEMMA OrderlyKept ==
    ASSUME TypeOK, Orderly, [Next]_vars
    PROVE  Orderly'
<1> DEFINE Fine(L, A) == InOrder(L) /\ Told(L, A)
           Olds == {pending.log, flight.log, disk.log, EmptyLog}
<1>1. announced \subseteq announced'
  BY DEF Next, vars, Produced
<1>2. \A L, A, B : Told(L, A) /\ A \subseteq B => Told(L, B)
  BY DEF Told
<1>3. Fine(EmptyLog, announced) /\ NoSnap.log = EmptyLog
  BY DEF EmptyLog, NoSnap, InOrder, Told
<1>4. \A L \in Olds \cup {log} : Fine(L, announced')
  BY <1>1, <1>2, <1>3 DEF Orderly
<1>5. ASSUME Fine(log', announced'),
             \A x \in {pending'.log, flight'.log, disk'.log} : x \in Olds \cup {log'}
      PROVE  Orderly'
  BY <1>4, <1>5 DEF Orderly
<1>6. ASSUME UNCHANGED cellVars
      PROVE  \A x \in {pending'.log, flight'.log, disk'.log} : x \in Olds \cup {log'}
  BY <1>6 DEF cellVars
<1>7. ASSUME Saved
      PROVE  \A x \in {pending'.log, flight'.log, disk'.log} : x \in Olds \cup {log'}
  BY <1>6, <1>7 DEF Saved, Cell!Save, NewSnapshot
<1>8. ASSUME Removed
      PROVE  \A x \in {pending'.log, flight'.log, disk'.log} : x \in Olds \cup {log'}
  BY <1>3, <1>6, <1>8 DEF Removed, Cell!Remove
<1>9. ASSUME Deleted \/ UNCHANGED log \/ Ensured PROVE Fine(log', announced')
  BY <1>4, <1>9 DEF Deleted, Ensured
<1>10. ASSUME NEW f \in Emits, Emit(f), Produced(f) PROVE Orderly'
  <2> DEFINE M == [i \in DOMAIN log \cup {nextId} |-> IF i = nextId THEN f ELSE log[i]]
  <2>1. InOrder(log) /\ Told(log, announced) /\ IsLog(log, nextId)
    BY DEF Orderly, TypeOK
  <2>2. InOrder(M) /\ Told(M, announced \cup Introduces(f))
    BY <1>10, <2>1, AppendInOrder DEF Produced
  <2>3. log' = Trim(M) /\ announced' = announced \cup Introduces(f)
    BY <1>10 DEF Emit, Produced
  <2> HIDE DEF M
  <2>4. Fine(log', announced')
    BY <2>2, <2>3, TrimInOrder
  <2> QED BY <1>5, <1>7, <1>10, <2>4 DEF Emit
<1>11. ASSUME NEW s \in Terminal, Finished(s) PROVE Orderly'
  <2>1. Fine(log', announced')
    BY <1>1, <1>2, <1>11, FinishedSettles
  <2> QED BY <1>5, <1>7, <1>11, <2>1 DEF Finished
<1>12. ASSUME NEW s \in {pending, disk}, IsSnapshot(s), Recovered(s)
       PROVE  Fine(log', announced')
  BY <1>1, <1>2, <1>12, RecoveredSettles
<1> HIDE DEF Fine, Olds
<1>13. CASE ClaimStart
  BY <1>5, <1>6, <1>9, <1>13 DEF ClaimStart
<1>14. ASSUME NEW v \in Views, NEW fresh \in BOOLEAN, Attach(v, fresh) PROVE Orderly'
  BY <1>5, <1>6, <1>9, <1>14 DEF Attach
<1>15. ASSUME NEW v \in Views, Detach(v) PROVE Orderly'
  BY <1>5, <1>6, <1>9, <1>15 DEF Detach, runVars
<1>16. CASE \E s \in Outcomes : Finish(s)
  BY <1>11, <1>16, BusAssumption DEF Finish
<1>17. CASE Cancel
  BY <1>11, <1>17 DEF Cancel, Terminal
<1>18. CASE Reset
  BY <1>5, <1>8, <1>9, <1>18 DEF Reset
<1>19. ASSUME NEW w \in Waiters, Wait(w) PROVE Orderly'
  BY <1>5, <1>6, <1>9, <1>19 DEF Wait, runVars
<1>20. CASE SetExit
  BY <1>5, <1>7, <1>9, <1>20 DEF SetExit
<1>21. CASE Expire
  BY <1>5, <1>6, <1>9, <1>21 DEF Expire, runVars
<1>22. CASE HydrateOne
  <2> DEFINE s == Cell!LoadOne
  <2>1. s \in {pending, disk} /\ IsSnapshot(s) /\ Recovered(s) /\ Saved
    BY <1>22 DEF HydrateOne, Cell!LoadOne, TypeOK, CellOK
  <2> HIDE DEF s
  <2> QED BY <1>5, <1>7, <1>12, <2>1
<1>23. CASE Restart
  <2>1. CASE disk = NoSnap
    <3>1. \A x \in {pending'.log, flight'.log, disk'.log} : x \in Olds \cup {log'}
      BY <1>3, <1>23, <2>1 DEF Restart, Olds
    <3> QED BY <1>5, <1>9, <1>23, <2>1, <3>1 DEF Restart
  <2>2. CASE disk # NoSnap
    <3>1. IsSnapshot(disk) /\ Recovered(disk)
      BY <1>23, <2>2 DEF Restart, TypeOK, CellOK
    <3>2. \A x \in {pending'.log, flight'.log, disk'.log} : x \in Olds \cup {log'}
      BY <1>3, <1>23, <2>2 DEF Restart, Olds, NewSnapshot
    <3> QED BY <1>5, <1>12, <3>1, <3>2
  <2> QED BY <2>1, <2>2
<1>24. CASE DiskStep
  <2>1. \A x \in {pending'.log, flight'.log, disk'.log} : x \in Olds \cup {log'}
    BY <1>3, <1>24
    DEF DiskStep, Cell!CellStep, Cell!StartFlush, Cell!Commit, Cell!Drop, Cell!Erase, Olds
  <2> QED BY <1>5, <1>9, <1>24, <2>1 DEF DiskStep, runVars
<1>25. CASE UNCHANGED vars
  BY <1>5, <1>6, <1>9, <1>25 DEF vars, runVars
<1> QED
  BY <1>10, <1>13, <1>14, <1>15, <1>16, <1>17, <1>18, <1>19, <1>20, <1>21, <1>22, <1>23,
     <1>24, <1>25 DEF Next

(* "no dangling spinners": whatever was emitted and evicted before, by       *)
(* finish, cancel, hydration or restart; but for hops started again.        *)
THEOREM SweptAtTheEnd == Spec => EndsSettled
<1> DEFINE Ends == /\ status' \in Terminal
                   /\ \/ status = "running" /\ runs' = runs
                      \/ runs' # runs /\ ~TakenOver
                   => Settled(log')
<1>1. ASSUME TypeOK, Orderly, [Next]_vars PROVE Ends
  <2> SUFFICES ASSUME status' \in Terminal,
                      \/ status = "running" /\ runs' = runs
                      \/ runs' # runs /\ ~TakenOver
               PROVE  Settled(log')
    OBVIOUS
  <2>1. "running" \notin Terminal /\ "absent" \notin Terminal /\ runs \in Nat
    BY <1>1, BusAssumption DEF Terminal, TypeOK
  <2>2. ASSUME UNCHANGED <<status, runs>> PROVE FALSE
    BY <2>1, <2>2
  <2>3. ASSUME Ensured PROVE FALSE
    BY <2>1, <2>3 DEF Ensured, Present
  <2>4. CASE ClaimStart
    BY <2>3, <2>4 DEF ClaimStart
  <2>5. ASSUME NEW f \in Emits, Emit(f) PROVE FALSE
    BY <2>2, <2>5 DEF Emit
  <2>6. ASSUME NEW v \in Views, NEW fresh \in BOOLEAN, Attach(v, fresh) PROVE FALSE
    BY <2>3, <2>6 DEF Attach
  <2>7. ASSUME NEW v \in Views, Detach(v) PROVE FALSE
    BY <2>2, <2>7 DEF Detach, runVars
  <2>8. ASSUME NEW s \in Outcomes, Finish(s) PROVE Settled(log')
    BY <1>1, <2>8, FinishedSettles DEF Finish
  <2>9. CASE Cancel
    BY <1>1, <2>9, FinishedSettles DEF Cancel
  <2>10. CASE Reset
    BY <2>1, <2>10 DEF Reset, Deleted
  <2>11. ASSUME NEW w \in Waiters, Wait(w) PROVE FALSE
    BY <2>2, <2>11 DEF Wait, runVars
  <2>12. CASE SetExit
    BY <2>2, <2>12 DEF SetExit
  <2>13. CASE Expire
    BY <2>1, <2>2, <2>13 DEF Expire, Deleted, runVars
  <2>14. CASE HydrateOne
    <3> DEFINE s == Cell!LoadOne
    <3>1. s \in {pending, disk} /\ IsSnapshot(s) /\ Recovered(s)
      BY <1>1, <2>14 DEF HydrateOne, Cell!LoadOne, TypeOK, CellOK
    <3>2. runs' # runs
      BY <2>1, <3>1 DEF Recovered
    <3> HIDE DEF s
    <3> QED BY <1>1, <3>1, <3>2, RecoveredSettles
  <2>15. CASE Restart
    <3>1. CASE disk = NoSnap
      BY <2>1, <2>15, <3>1 DEF Restart, Deleted
    <3>2. CASE disk # NoSnap
      <4>1. IsSnapshot(disk) /\ Recovered(disk)
        BY <1>1, <2>15, <3>2 DEF Restart, TypeOK, CellOK
      <4>2. runs' # runs
        BY <2>1, <4>1 DEF Recovered
      <4> QED BY <1>1, <4>1, <4>2, RecoveredSettles
    <3> QED BY <3>1, <3>2
  <2>16. CASE DiskStep
    BY <2>2, <2>16 DEF DiskStep, runVars
  <2>17. CASE UNCHANGED vars
    BY <2>2, <2>17 DEF vars, runVars
  <2> QED
    BY <1>1, <2>4, <2>5, <2>6, <2>7, <2>8, <2>9, <2>10, <2>11, <2>12, <2>13, <2>14,
       <2>15, <2>16, <2>17 DEF Next
<1>2. Init => Orderly
  BY DEF Init, Orderly, InOrder, Told, EmptyLog, NoSnap
<1>3. ASSUME TypeOK, Orderly, [Next]_vars PROVE Orderly'
  BY <1>3, OrderlyKept
<1> QED BY <1>1, <1>2, <1>3, TypeCorrect, PTL DEF Spec, EndsSettled

-----------------------------------------------------------------------------
(* Lowest(S, k) has k elements, or all of S when S has fewer: an element's    *)
(* rank, the number of elements below it, numbers S from 0 on.               *)
LEMMA LowestCount ==
    ASSUME NEW S \in SUBSET Nat, IsFiniteSet(S), NEW k \in Nat
    PROVE  /\ IsFiniteSet(Lowest(S, k))
           /\ k <= Cardinality(S) => Cardinality(Lowest(S, k)) = k
           /\ Cardinality(S) <= k => Lowest(S, k) = S
<1> DEFINE Below(i) == {j \in S : j < i}
           n == Cardinality(S)
           rank == [i \in S |-> Cardinality(Below(i))]
<1>1. n \in Nat
  BY FS_CardinalityType
<1>2. \A i \in S : /\ IsFiniteSet(Below(i))
                   /\ Cardinality(Below(i)) \in Nat
                   /\ Cardinality(Below(i)) < n
  <2> SUFFICES ASSUME NEW i \in S
               PROVE  /\ IsFiniteSet(Below(i))
                      /\ Cardinality(Below(i)) \in Nat
                      /\ Cardinality(Below(i)) < n
    OBVIOUS
  <2> DEFINE B == Below(i)
  <2>1. B \in SUBSET S /\ i \notin B /\ B # S
    OBVIOUS
  <2> HIDE DEF B
  <2>2. IsFiniteSet(B) /\ Cardinality(B) <= n /\ (n = Cardinality(B) => S = B)
    BY <2>1, FS_Subset
  <2>3. Cardinality(B) \in Nat
    BY <2>2, FS_CardinalityType
  <2>4. Cardinality(B) < n
    BY <1>1, <2>1, <2>2, <2>3
  <2> QED BY <2>2, <2>3, <2>4 DEF B
<1>3. \A i, j \in S : i < j => rank[i] < rank[j]
  <2> SUFFICES ASSUME NEW i \in S, NEW j \in S, i < j PROVE rank[i] < rank[j]
    OBVIOUS
  <2> DEFINE B == Below(i)
             C == Below(j)
  <2>1. i \in Nat /\ j \in Nat
    OBVIOUS
  <2>2. B \in SUBSET C /\ i \in C /\ i \notin B
    <3>1. \A x \in S : x < i => x < j
      BY <2>1
    <3>2. ~(i < i)
      BY <2>1
    <3> QED BY <3>1, <3>2
  <2>3. IsFiniteSet(B) /\ IsFiniteSet(C) /\ Cardinality(B) \in Nat /\ Cardinality(C) \in Nat
    BY <1>2
  <2>4. rank[i] = Cardinality(B) /\ rank[j] = Cardinality(C)
    OBVIOUS
  <2> HIDE DEF B, C, rank
  <2>5. Cardinality(B) <= Cardinality(C) /\ (Cardinality(C) = Cardinality(B) => C = B)
    BY <2>2, <2>3, FS_Subset
  <2> QED BY <2>2, <2>3, <2>4, <2>5
<1>4. rank \in [S -> 0..(n - 1)]
  BY <1>1, <1>2
<1>5. rank \in Injection(S, 0..(n - 1))
  <2> HIDE DEF rank
  <2>1. \A i, j \in S : rank[i] = rank[j] => i = j
    <3> SUFFICES ASSUME NEW i \in S, NEW j \in S, rank[i] = rank[j], i # j PROVE FALSE
      OBVIOUS
    <3>1. i \in Nat /\ j \in Nat /\ rank[i] \in Nat /\ rank[j] \in Nat
      BY <1>1, <1>4
    <3>2. i < j \/ j < i
      BY <3>1
    <3> QED BY <3>1, <3>2, <1>3
  <2> QED BY <2>1, <1>4 DEF Injection, IsInjective
<1>6. IsFiniteSet(0..(n - 1)) /\ Cardinality(0..(n - 1)) = n
  <2>1. n - 1 \in Int /\ (0 > n - 1 => n = 0)
    BY <1>1
  <2> HIDE DEF n
  <2> QED BY <1>1, <2>1, FS_Interval
<1>7. rank \in Surjection(S, 0..(n - 1))
  <2> DEFINE T == 0..(n - 1)
  <2> HIDE DEF rank, T, n
  <2>1. rank \in Injection(S, T) /\ IsFiniteSet(T) /\ Cardinality(S) = Cardinality(T)
    BY <1>5, <1>6 DEF T, n
  <2>2. rank \in Surjection(S, T)
    BY <2>1, FS_Injection
  <2> QED BY <2>2 DEF T
<1>8. Lowest(S, k) = {i \in S : rank[i] < k}
  BY DEF Lowest
<1> HIDE DEF rank, Below
<1>9. Lowest(S, k) \in SUBSET S
  BY <1>8
<1>10. IsFiniteSet(Lowest(S, k))
  BY <1>9, FS_Subset
<1>11. ASSUME k <= n PROVE Cardinality(Lowest(S, k)) = k
  <2> DEFINE T == 0..(k - 1)
             U == Lowest(S, k)
             f == [i \in U |-> rank[i]]
  <2>1. U = {i \in S : rank[i] < k}
    BY <1>8
  <2>2. IsFiniteSet(T) /\ Cardinality(T) = k
    BY FS_Interval
  <2> HIDE DEF U
  <2>3. f \in [U -> T]
    <3> SUFFICES ASSUME NEW i \in U PROVE rank[i] \in T
      OBVIOUS
    <3>1. rank[i] \in Nat /\ rank[i] < k
      BY <2>1, <1>1, <1>4
    <3> QED BY <3>1
  <2>4. \A x \in T : \E i \in U : f[i] = x
    <3> SUFFICES ASSUME NEW x \in T PROVE \E i \in U : f[i] = x
      OBVIOUS
    <3>1. x \in 0..(n - 1) /\ x < k
      BY <1>1, <1>11
    <3>2. PICK i \in S : rank[i] = x
      BY <3>1, <1>7 DEF Surjection
    <3> QED BY <3>1, <3>2, <2>1
  <2>5. \A i, j \in U : f[i] = f[j] => i = j
    BY <2>1, <1>5 DEF Injection, IsInjective
  <2> HIDE DEF T, f
  <2>6. f \in Surjection(U, T) /\ f \in Injection(U, T)
    BY <2>3, <2>4, <2>5 DEF Surjection, Injection, IsInjective
  <2>7. Cardinality(U) = Cardinality(T)
    BY <2>2, <2>6, FS_Injection
  <2> QED BY <2>2, <2>7 DEF U
<1>12. ASSUME n <= k PROVE Lowest(S, k) = S
  <2>1. \A i \in S : rank[i] < k
    BY <1>1, <1>4, <1>12
  <2> QED BY <1>8, <2>1
<1> QED BY <1>10, <1>11, <1>12

(* The two passes of trim() together drop the whole excess: what the first    *)
(* does not find among the status lines the second takes from the rest.      *)
LEMMA TrimBounds ==
    ASSUME NEW L, DOMAIN L \in SUBSET Nat, IsFiniteSet(DOMAIN L)
    PROVE  Cardinality(DOMAIN Trim(L)) <= MaxEvents
<1> DEFINE D == DOMAIN L
           n == Cardinality(D)
           excess == IF n > MaxEvents THEN n - MaxEvents ELSE 0
           E == Expendable(L)
           lines == Lowest(E, excess)
           rest == D \ lines
           dropped == Lowest(rest, excess - Cardinality(lines))
<1>1. DOMAIN Trim(L) = rest \ dropped
  BY DEF Trim, Retained
<1>2. n \in Nat /\ MaxEvents \in Nat /\ excess \in Nat /\ n - excess <= MaxEvents /\ excess <= n
  BY FS_CardinalityType, BusAssumption
<1>3. E \in SUBSET D
  BY DEF Expendable
<1>4. D \in SUBSET Nat /\ IsFiniteSet(D)
  OBVIOUS
<1> HIDE DEF D, n, excess, E
<1>5. E \in SUBSET Nat /\ IsFiniteSet(E)
  BY <1>3, <1>4, FS_Subset
<1>6. /\ IsFiniteSet(lines) /\ lines \subseteq E
      /\ Cardinality(lines) \in Nat /\ Cardinality(lines) <= excess
  <2>1. IsFiniteSet(lines) /\ lines \subseteq E
    BY <1>2, <1>5, LowestCount DEF Lowest
  <2>2. Cardinality(E) \in Nat
    BY <1>5, FS_CardinalityType
  <2>3. CASE excess <= Cardinality(E)
    <3>1. Cardinality(lines) = excess
      BY <2>3, <1>2, <1>5, LowestCount
    <3> QED BY <2>1, <3>1, <1>2
  <2>4. CASE Cardinality(E) <= excess
    <3>1. lines = E
      BY <2>4, <1>2, <1>5, LowestCount
    <3> QED BY <2>1, <2>2, <2>4, <3>1
  <2> QED BY <2>2, <2>3, <2>4, <1>2
<1> HIDE DEF lines
<1>7. IsFiniteSet(rest) /\ Cardinality(rest) = n - Cardinality(lines)
  <2>1. D \cap lines = lines
    BY <1>3, <1>6
  <2> QED BY <2>1, <1>4, FS_Difference DEF n
<1>8. rest \in SUBSET Nat
  BY <1>4
<1> HIDE DEF rest
<1>9. excess - Cardinality(lines) \in Nat /\ excess - Cardinality(lines) <= Cardinality(rest)
  BY <1>2, <1>6, <1>7
<1>10. IsFiniteSet(dropped) /\ Cardinality(dropped) = excess - Cardinality(lines)
  BY <1>7, <1>8, <1>9, LowestCount
<1>11. dropped \subseteq rest
  BY DEF Lowest
<1> HIDE DEF dropped
<1>12. Cardinality(rest \ dropped) = Cardinality(rest) - Cardinality(dropped)
  <2>1. rest \cap dropped = dropped
    BY <1>11
  <2>2. Cardinality(rest \ dropped) = Cardinality(rest) - Cardinality(rest \cap dropped)
    BY <1>7, FS_Difference
  <2> QED BY <2>1, <2>2
<1> QED BY <1>1, <1>2, <1>6, <1>7, <1>10, <1>12

(* ensure() creates an empty buffer or leaves the one there is. *)
LEMMA EnsuredRing ==
    ASSUME RingBounded, Ensured
    PROVE  RingBounded'
<1>1. CASE Present
  BY <1>1 DEF Ensured, RingBounded
<1>2. CASE ~Present
  <2>1. DOMAIN log' = {}
    BY <1>2 DEF Ensured, EmptyLog
  <2>2. Cardinality({}) = 0
    BY FS_EmptySet
  <2>3. 0 <= MaxEvents
    BY BusAssumption
  <2> QED BY <2>1, <2>2, <2>3 DEF RingBounded
<1> QED BY <1>1, <1>2

(* The buffer of a run under way never exceeds its cap, for any cap and any  *)
(* mixture of frames: only the sweep at the end may go past it.             *)
THEOREM CapKept == Spec => []RingBounded
<1>1. Init => RingBounded
  BY DEF Init, RingBounded
<1>2. ASSUME TypeOK, TypeOK', RingBounded, [Next]_vars PROVE RingBounded'
  <2>1. ASSUME UNCHANGED <<status, log>> PROVE RingBounded'
    BY <2>1, <1>2 DEF RingBounded
  <2>2. ASSUME status' # "running" PROVE RingBounded'
    BY <2>2 DEF RingBounded
  <2>3. CASE ClaimStart
    BY <1>2, <2>3, EnsuredRing DEF ClaimStart
  <2>4. ASSUME NEW f \in Emits, Emit(f) PROVE RingBounded'
    <3> DEFINE L == [i \in DOMAIN log \cup {nextId} |-> IF i = nextId THEN f ELSE log[i]]
    <3>1. nextId \in Nat /\ DOMAIN L \in SUBSET (1..nextId)
      BY <1>2 DEF TypeOK, IsLog
    <3>2. log' = Trim(L)
      BY <2>4 DEF Emit
    <3> HIDE DEF L
    <3>3. DOMAIN L \in SUBSET Nat /\ IsFiniteSet(DOMAIN L)
      <4>1. IsFiniteSet(1..nextId)
        BY <3>1, FS_Interval
      <4>2. IsFiniteSet(DOMAIN L)
        BY <3>1, <4>1, FS_Subset
      <4> QED BY <3>1, <4>2
    <3> QED BY <3>2, <3>3, TrimBounds DEF RingBounded
  <2>5. ASSUME NEW v \in Views, NEW fresh \in BOOLEAN, Attach(v, fresh) PROVE RingBounded'
    BY <1>2, <2>5, EnsuredRing DEF Attach
  <2>6. ASSUME NEW v \in Views, Detach(v) PROVE RingBounded'
    BY <2>1, <2>6 DEF Detach, runVars
  <2>7. ASSUME NEW s \in Terminal, Finished(s) PROVE RingBounded'
    BY <2>2, <2>7 DEF Finished, Terminal
  <2>8. CASE Reset
    BY <2>2, <2>8 DEF Reset, Deleted
  <2>9. ASSUME NEW w \in Waiters, Wait(w) PROVE RingBounded'
    BY <2>1, <2>9 DEF Wait, runVars
  <2>10. CASE SetExit
    BY <2>1, <2>10 DEF SetExit
  <2>11. CASE Expire
    BY <2>1, <2>2, <2>11 DEF Expire, Deleted, runVars
  <2>12. ASSUME NEW s, IsSnapshot(s), Recovered(s) PROVE RingBounded'
    BY <1>2, <2>2, <2>12, RecoveredOK DEF TypeOK, Terminal
  <2>13. CASE HydrateOne
    BY <1>2, <2>12, <2>13 DEF HydrateOne, Cell!LoadOne, TypeOK, CellOK
  <2>14. CASE Restart
    BY <1>2, <2>2, <2>12, <2>14 DEF Restart, Deleted, TypeOK, CellOK
  <2>15. CASE DiskStep
    BY <2>1, <2>15 DEF DiskStep, runVars
  <2>16. CASE UNCHANGED vars
    BY <2>1, <2>16 DEF vars, runVars
  <2>17. CASE \E s \in Outcomes : Finish(s)
    BY <2>7, <2>17, BusAssumption DEF Finish
  <2>18. CASE Cancel
    BY <2>7, <2>18 DEF Cancel, Terminal
  <2> QED
    BY <1>2, <2>3, <2>4, <2>5, <2>6, <2>8, <2>9, <2>10, <2>11, <2>13, <2>14, <2>15,
       <2>16, <2>17, <2>18 DEF Next
<1> QED BY <1>1, <1>2, TypeCorrect, PTL DEF Spec

-----------------------------------------------------------------------------
(* What makes a record sent once: a page's records lie at or below its       *)
(* cursor, and below the next id of a run under way.                        *)
Received ==
    \A v \in Views :
        /\ IsFiniteSet(seen[v])
        /\ \A p \in seen[v] :
              /\ p[1] <= cursor[v]
              /\ status = "running" => p[1] < nextId

SentOnce == Received /\ ExactlyOnce

(* A step that leaves the pages alone and starts no run keeps it. *)
LEMMA PagesAlone ==
    ASSUME SentOnce, UNCHANGED <<cursor, seen, sent>>,
           status' = "running" => status = "running" /\ nextId' = nextId
    PROVE  SentOnce'
BY DEF SentOnce, Received, ExactlyOnce

(* emit: the new id is above everything the page has, so the record is new. *)
LEMMA EmitOnce ==
    ASSUME TypeOK, NobodyHangs, SentOnce, NEW f \in Emits, Emit(f)
    PROVE  SentOnce'
<1>1. nextId \in Nat /\ nextId' = nextId + 1 /\ status' = status
  BY DEF TypeOK, IsLog, Emit
<1> SUFFICES ASSUME NEW v \in Views
             PROVE  /\ IsFiniteSet(seen'[v])
                    /\ sent'[v] = Cardinality(seen'[v])
                    /\ \A p \in seen'[v] :
                          p[1] <= cursor'[v] /\ (status' = "running" => p[1] < nextId')
  BY DEF SentOnce, Received, ExactlyOnce
<1>2. /\ IsFiniteSet(seen[v]) /\ seen[v] \subseteq Nat \X Frame
      /\ sent[v] = Cardinality(seen[v]) /\ Cardinality(seen[v]) \in Nat
      /\ \A p \in seen[v] : p[1] <= cursor[v] /\ (status = "running" => p[1] < nextId)
  BY FS_CardinalityType DEF SentOnce, Received, ExactlyOnce, TypeOK
<1>3. \A p \in seen[v] : p[1] \in Nat
  BY <1>2
<1>4. CASE conn[v] = "live"
  <2>1. status = "running"
    BY <1>4 DEF NobodyHangs
  <2>2. /\ cursor'[v] = nextId /\ sent'[v] = sent[v] + 1
        /\ seen'[v] = seen[v] \cup {<<nextId, f>>}
    BY <1>4 DEF Emit
  <2>3. <<nextId, f>> \notin seen[v]
    <3> SUFFICES ASSUME <<nextId, f>> \in seen[v] PROVE FALSE
      OBVIOUS
    <3>1. nextId < nextId
      BY <1>2, <2>1
    <3> QED BY <1>1, <3>1
  <2>4. IsFiniteSet(seen'[v]) /\ Cardinality(seen'[v]) = Cardinality(seen[v]) + 1
    <3> DEFINE old == seen[v]
               rec == <<nextId, f>>
    <3>1. IsFiniteSet(old) /\ rec \notin old
      BY <1>2, <2>3
    <3> HIDE DEF old, rec
    <3>2. IsFiniteSet(old \cup {rec}) /\ Cardinality(old \cup {rec}) = Cardinality(old) + 1
      BY <3>1, FS_AddElement
    <3> QED BY <2>2, <3>2 DEF old, rec
  <2>5. \A p \in seen'[v] : p[1] <= nextId /\ p[1] < nextId'
    <3> SUFFICES ASSUME NEW p \in seen'[v] PROVE p[1] <= nextId /\ p[1] < nextId'
      OBVIOUS
    <3>1. CASE p \in seen[v]
      BY <1>1, <1>2, <1>3, <2>1, <3>1
    <3>2. CASE p = <<nextId, f>>
      <4>1. p[1] = nextId
        BY <3>2
      <4> QED BY <1>1, <4>1
    <3> QED BY <2>2, <3>1, <3>2
  <2> QED BY <1>2, <2>2, <2>4, <2>5
<1>5. CASE conn[v] # "live"
  <2>1. cursor'[v] = cursor[v] /\ sent'[v] = sent[v] /\ seen'[v] = seen[v]
    BY <1>5 DEF Emit
  <2> QED BY <1>1, <1>2, <1>3, <2>1
<1> QED BY <1>4, <1>5

(* attach: what is replayed lies above the cursor, what the page has below. *)
LEMMA AttachOnce ==
    ASSUME TypeOK, SentOnce, NEW v \in Views, NEW fresh \in BOOLEAN, Attach(v, fresh)
    PROVE  SentOnce'
<1> DEFINE after == IF fresh THEN 0 ELSE cursor[v]
           had   == IF fresh \/ ~Present THEN {} ELSE seen[v]
           count == IF fresh \/ ~Present THEN 0 ELSE sent[v]
           new   == {i \in DOMAIN log' : i > after}
           recs  == {<<i, log'[i]>> : i \in new}
<1>1. /\ RunOK'
      /\ Present => status' = status /\ log' = log /\ nextId' = nextId
  BY EnsuredOK DEF Attach, TypeOK, RunOK, Ensured, Present
<1>2. /\ seen' = [w \in Views |-> IF w = v THEN had \cup recs
                                  ELSE IF Present THEN seen[w] ELSE {}]
      /\ sent' = [w \in Views |-> IF w = v THEN count + Cardinality(new)
                                  ELSE IF Present THEN sent[w] ELSE 0]
      /\ cursor' = [cursor EXCEPT ![v] = IF new = {} THEN after ELSE HighestId(new)]
  BY DEF Attach, Replay
<1>3. /\ nextId' \in Nat /\ nextId' - 1 \in Nat /\ after \in Nat
      /\ new \in SUBSET (1..(nextId' - 1))
      /\ \A i \in new : i > after
  BY <1>1 DEF RunOK, IsLog, TypeOK
<1>4. /\ IsFiniteSet(had) /\ count = Cardinality(had) /\ count \in Nat
      /\ had \subseteq Nat \X Frame
  <2>1. CASE fresh \/ ~Present
    BY <2>1, FS_EmptySet
  <2>2. CASE ~(fresh \/ ~Present)
    BY <2>2, <1>1, FS_CardinalityType DEF SentOnce, Received, ExactlyOnce, TypeOK
  <2> QED BY <2>1, <2>2
<1>h. \A p \in had : p[1] <= after
  BY DEF SentOnce, Received
<1>r. status' = "running" => \A p \in had : p[1] < nextId'
  BY <1>1 DEF SentOnce, Received, Present
<1> HIDE DEF had, count, after, new
<1>n. \A p \in had : p[1] \in Nat
  BY <1>4
<1>5. IsFiniteSet(new) /\ Cardinality(new) \in Nat
  <2>1. IsFiniteSet(1..(nextId' - 1))
    BY <1>3, FS_Interval
  <2>2. IsFiniteSet(new)
    BY <1>3, <2>1, FS_Subset
  <2> QED BY <2>2, FS_CardinalityType
<1>6. IsFiniteSet(recs) /\ Cardinality(recs) = Cardinality(new)
  <2> DEFINE g == [i \in new |-> <<i, log'[i]>>]
  <2>1. g \in Surjection(new, recs) /\ g \in Injection(new, recs)
    BY DEF Surjection, Injection, IsInjective
  <2> HIDE DEF g, recs
  <2> QED BY <2>1, <1>5, FS_Surjection
<1>7. \A p \in recs : p[1] \in new
  OBVIOUS
<1> HIDE DEF recs
<1>8. had \cap recs = {}
  <2> SUFFICES ASSUME NEW p \in had, p \in recs PROVE FALSE
    OBVIOUS
  <2>1. p[1] \in Nat /\ p[1] <= after
    BY <1>h, <1>n
  <2>2. p[1] > after
    BY <1>3, <1>7
  <2> QED BY <2>1, <2>2, <1>3
<1>9. new # {} => HighestId(new) \in new /\ \A i \in new : i <= HighestId(new)
  <2> DEFINE top == nextId' - 1
  <2> HIDE DEF top
  <2>1. top \in Nat /\ new \in SUBSET (1..top)
    BY <1>3 DEF top
  <2> QED BY <2>1, HighestIdExists
<1> SUFFICES ASSUME NEW w \in Views
             PROVE  /\ IsFiniteSet(seen'[w])
                    /\ sent'[w] = Cardinality(seen'[w])
                    /\ \A p \in seen'[w] :
                          p[1] <= cursor'[w] /\ (status' = "running" => p[1] < nextId')
  BY DEF SentOnce, Received, ExactlyOnce
<1>10. CASE w = v
  <2>1. /\ seen'[w] = had \cup recs /\ sent'[w] = count + Cardinality(new)
        /\ cursor'[w] = IF new = {} THEN after ELSE HighestId(new)
    BY <1>2, <1>10 DEF TypeOK
  <2>2. IsFiniteSet(had \cup recs) /\ Cardinality(had \cup recs) = count + Cardinality(new)
    <3>1. Cardinality({}) = 0
      BY FS_EmptySet
    <3>2. /\ IsFiniteSet(had \cup recs)
          /\ Cardinality(had \cup recs) =
                Cardinality(had) + Cardinality(recs) - Cardinality(had \cap recs)
      BY <1>4, <1>6, FS_Union
    <3>3. Cardinality(had \cap recs) = 0
      BY <1>8, <3>1
    <3> QED BY <1>4, <1>5, <1>6, <3>2, <3>3
  <2>3. cursor'[w] \in Nat /\ after <= cursor'[w]
    <3>1. CASE new = {}
      BY <2>1, <1>3, <3>1
    <3>2. CASE new # {}
      <4> DEFINE h == HighestId(new)
      <4>1. h \in new
        BY <1>9, <3>2
      <4> HIDE DEF h
      <4>2. h \in Nat /\ h > after
        BY <1>3, <4>1
      <4> QED BY <2>1, <1>3, <3>2, <4>2 DEF h
    <3> QED BY <3>1, <3>2
  <2>4. \A p \in had : p[1] <= cursor'[w]
    <3> SUFFICES ASSUME NEW p \in had PROVE p[1] <= cursor'[w]
      OBVIOUS
    <3>1. p[1] \in Nat /\ p[1] <= after
      BY <1>h, <1>n
    <3> QED BY <3>1, <2>3, <1>3
  <2>5. \A p \in recs : p[1] <= cursor'[w] /\ p[1] < nextId'
    <3> SUFFICES ASSUME NEW p \in recs PROVE p[1] <= cursor'[w] /\ p[1] < nextId'
      OBVIOUS
    <3>1. p[1] \in new
      BY <1>7
    <3>2. p[1] <= cursor'[w]
      BY <3>1, <2>1, <1>9
    <3>3. p[1] < nextId'
      <4> DEFINE i == p[1]
                 top == nextId' - 1
      <4>1. i \in new
        BY <3>1
      <4> HIDE DEF i
      <4>2. i \in 1..top
        BY <4>1, <1>3
      <4> DEFINE m == nextId'
      <4>3. m \in Nat /\ i \in 1..(m - 1)
        BY <4>2, <1>3
      <4> HIDE DEF m
      <4>4. i < m
        BY <4>3
      <4> QED BY <4>4 DEF i, m
    <3> QED BY <3>2, <3>3
  <2>6. \A p \in seen'[w] : p[1] <= cursor'[w] /\ (status' = "running" => p[1] < nextId')
    BY <2>1, <2>4, <2>5, <1>r
  <2> QED BY <2>1, <2>2, <2>6
<1>11. CASE w # v
  <2>1. CASE Present
    <3>1. seen'[w] = seen[w] /\ sent'[w] = sent[w] /\ cursor'[w] = cursor[w]
      BY <2>1, <1>2, <1>11 DEF TypeOK
    <3> QED BY <2>1, <3>1, <1>1 DEF SentOnce, Received, ExactlyOnce
  <2>2. CASE ~Present
    <3>1. seen'[w] = {} /\ sent'[w] = 0
      BY <2>2, <1>2, <1>11
    <3> QED BY <3>1, FS_EmptySet
  <2> QED BY <2>1, <2>2
<1> QED BY <1>10, <1>11

(* "a reconnect replays the SAME buffered events -- no duplication": over    *)
(* any number of reconnects, resets and restarts no record is sent to a     *)
(* loaded page twice.                                                       *)
THEOREM NoDuplicates == Spec => []ExactlyOnce
<1>1. Init => SentOnce
  <2>1. IsFiniteSet({}) /\ Cardinality({}) = 0
    BY FS_EmptySet
  <2> QED BY <2>1 DEF Init, SentOnce, Received, ExactlyOnce
<1>2. ASSUME TypeOK, NobodyHangs, SentOnce, [Next]_vars PROVE SentOnce'
  <2>1. ASSUME UNCHANGED <<cursor, seen, sent>>,
               \/ status' # "running"
               \/ UNCHANGED <<status, nextId>>
        PROVE  SentOnce'
    BY <2>1, <1>2, PagesAlone
  <2>2. CASE ClaimStart
    <3>1. CASE Present
      <4>1. seen' = seen /\ sent' = sent /\ cursor' = cursor /\ UNCHANGED <<status, nextId>>
        BY <2>2, <3>1 DEF ClaimStart, Ensured
      <4> QED BY <4>1, <2>1
    <3>2. CASE ~Present
      <4>1. \A v \in Views : seen'[v] = {} /\ sent'[v] = 0
        BY <2>2, <3>2 DEF ClaimStart
      <4>2. IsFiniteSet({}) /\ Cardinality({}) = 0
        BY FS_EmptySet
      <4> QED BY <4>1, <4>2 DEF SentOnce, Received, ExactlyOnce
    <3> QED BY <3>1, <3>2
  <2>3. ASSUME NEW f \in Emits, Emit(f) PROVE SentOnce'
    BY <1>2, <2>3, EmitOnce
  <2>4. ASSUME NEW v \in Views, NEW fresh \in BOOLEAN, Attach(v, fresh) PROVE SentOnce'
    BY <1>2, <2>4, AttachOnce
  <2>5. ASSUME NEW v \in Views, Detach(v) PROVE SentOnce'
    BY <2>1, <2>5 DEF Detach, runVars
  <2>6. ASSUME NEW s \in Terminal, Finished(s) PROVE SentOnce'
    BY <2>1, <2>6 DEF Finished, Terminal
  <2>7. CASE \E s \in Outcomes : Finish(s)
    BY <2>6, <2>7, BusAssumption DEF Finish
  <2>8. CASE Cancel
    BY <2>6, <2>8 DEF Cancel, Terminal
  <2>9. CASE Reset
    BY <2>1, <2>9 DEF Reset, Deleted
  <2>10. ASSUME NEW w \in Waiters, Wait(w) PROVE SentOnce'
    BY <2>1, <2>10 DEF Wait, runVars, viewVars
  <2>11. CASE SetExit
    BY <2>1, <2>11 DEF SetExit, viewVars
  <2>12. CASE Expire
    BY <2>1, <2>12 DEF Expire, Deleted, runVars, viewVars
  <2>13. ASSUME NEW s, IsSnapshot(s), Recovered(s), UNCHANGED <<cursor, seen, sent>>
         PROVE  SentOnce'
    BY <1>2, <2>1, <2>13, RecoveredOK DEF TypeOK, Terminal
  <2>14. CASE HydrateOne
    BY <1>2, <2>13, <2>14 DEF HydrateOne, Cell!LoadOne, TypeOK, CellOK, viewVars
  <2>15. CASE Restart
    BY <1>2, <2>1, <2>13, <2>15 DEF Restart, Deleted, TypeOK, CellOK
  <2>16. CASE DiskStep
    BY <2>1, <2>16 DEF DiskStep, runVars, viewVars
  <2>17. CASE UNCHANGED vars
    BY <2>1, <2>17 DEF vars, runVars, viewVars
  <2> QED
    BY <1>2, <2>2, <2>3, <2>4, <2>5, <2>7, <2>8, <2>9, <2>10, <2>11, <2>12, <2>14,
       <2>15, <2>16, <2>17 DEF Next
<1>3. SentOnce => ExactlyOnce
  BY DEF SentOnce
<1> QED BY <1>1, <1>2, <1>3, TypeCorrect, EveryoneReleased, PTL DEF Spec
=============================================================================
