----------------------------- MODULE TeamDagProofs ----------------------------
(***************************************************************************)
(* Proofs about TeamDag, for any teams, any limit and any faults.          *)
(*                                                                         *)
(* Jobs run only for members of the current layer, and a job runs its own  *)
(* member or one that this member reviews.  Two jobs that meet at a member *)
(* are therefore Contended, and a hand-over whose sender is Earlier than   *)
(* its receiver and the receiver's reviewers is read only when the sender  *)
(* has ended.                                                              *)
(***************************************************************************)
EXTENDS TeamDag, FiniteSetTheorems, TLAPS

Working(m) == job[m].pc \in {"collect", "asking", "calling"}

(* Whom a job reviews. *)
Goal(J) == team.review[First(J.left)]

(* A job fits its member if it runs this member or, sent back by it, one it *)
(* reviews, and if it has read all upstreams before it goes on.             *)
Fits(m, J) ==
    /\ J.left \subseteq Reviews(m)
    /\ J.pc = "target" => J.left # {}
    /\ J.pc \in {"asking", "calling"} => J.todo = {}
    /\ J.pc \in {"collect", "asking", "calling", "returned"} =>
          /\ J.node \in Agents
          /\ J.phase \in {"own", "review"} => J.node = m
          /\ J.phase = "rework" => J.left # {} /\ J.node = Goal(J).to

JobsOK ==
    \A m \in Agents : /\ Active(m) => layer \in DOMAIN layers /\ m \in taken
                      /\ Fits(m, job[m])

LayersOK ==
    /\ layer > 0 => taken \subseteq Layer
    /\ layer = 0 => taken = {}
    /\ phase = "returned" => \A m \in Agents : ~Active(m)

(* The budget of a member nobody contends for is counted right. *)
Counts(n, J) ==
    J.pc = "target" /\ Goal(J).to = n => J.seen = used[n] /\ used[n] < Goal(J).budget

Counted ==
    \A n \in Agents : ~Contended(n) =>
        /\ used[n] = reworks[n]
        /\ reworks[n] = 0 \/ \E b \in BudgetOf(n) : reworks[n] <= b
        /\ \A m \in Agents : Counts(n, job[m])

(* Who succeeded has a text, and members of earlier layers have ended, as   *)
(* have those of this layer that a worker took, unless their own run goes   *)
(* on, threw, or was skipped when the round was over.                       *)
Ended ==
    /\ \A n \in Agents : outcome[n] = "ok" => outputs[n] # None
    /\ \A j \in DOMAIN layers : j < layer => \A n \in layers[j] : outcome[n] # None
    /\ \A n \in taken : \/ outcome[n] # None \/ Stopped \/ (Threw(n) /\ ~Active(n))
                        \/ (Working(n) /\ job[n].phase = "own")

(* A hand-over from an earlier layer. *)
Planned(e) ==
    LET from == team.forward[e].from
        to == team.forward[e].to
    IN  Earlier(from, to) /\ \A n \in ReviewersOf(to) : Earlier(from, n)

(* It is settled once its receiver has read it. *)
HandedOver ==
    \A e \in Edges : Planned(e) =>
        /\ outcome[team.forward[e].to] = "ok" => hop[e] \in Settled
        /\ \A m \in Agents :
              Working(m) /\ job[m].node = team.forward[e].to /\ e \notin job[m].todo
              => hop[e] \in Settled
        /\ phase = "returned" => hop[e] \in Settled

(* Without a rework a text is that of the one run, which succeeded. *)
FirstText ==
    \A n \in Agents : n \notin rerun =>
        /\ outputs[n] # None => outcome[n] = "ok"
        /\ n \notin taken /\ (\A j \in DOMAIN layers : j < layer => n \notin layers[j])
           => outputs[n] = None
        /\ \A m \in Agents : Working(m) /\ job[m].node = n
                             => job[m].phase = "own" /\ outputs[n] = None

(* The inductive invariant. *)
Parts == JobsOK /\ LayersOK /\ Counted /\ Ended /\ HandedOver /\ FirstText
IInv == TypeOK /\ Parts

-----------------------------------------------------------------------------
(* The team and its layers.  A nonempty set of positions has a first one:   *)
(* among the intervals from 1 that meet it there is a least.                *)
LEMMA FirstIn ==
    ASSUME NEW n \in Nat, NEW S \in SUBSET (1..n), S # {}
    PROVE  First(S) \in S
<1> DEFINE I(k) == 1..k
           Meets == {T \in SUBSET (1..n) : \E k \in 0..n : T = I(k) /\ S \cap I(k) # {}}
           R == StrictSubsetOrdering(1..n)
           D == FiniteSubsetsOf(1..n)
<1>1. IsWellFoundedOn(R, D)
  <2> DEFINE N == 1..n
  <2> HIDE DEF N
  <2>1. IsWellFoundedOn(StrictSubsetOrdering(N), FiniteSubsetsOf(N))
    BY FS_StrictSubsetOrderingWellFounded
  <2> QED BY <2>1 DEF N
<1>2. D = SUBSET (1..n)
  <2>1. IsFiniteSet(1..n)
    BY FS_Interval
  <2> DEFINE N == 1..n
  <2> HIDE DEF N
  <2>2. FiniteSubsetsOf(N) = SUBSET N
    BY <2>1, FS_FiniteSubsetsOfFinite DEF N
  <2> QED BY <2>2 DEF N
<1>3. I(n) \in Meets
  <2>1. PICK s \in S : TRUE
    OBVIOUS
  <2>2. s \in S \cap I(n)
    BY <2>1
  <2>3. n \in 0..n /\ I(n) \in SUBSET (1..n)
    OBVIOUS
  <2> QED BY <2>2, <2>3
<1>4. Meets \subseteq D /\ Meets # {}
  BY <1>2, <1>3
<1>5. PICK T \in Meets : \A U \in Meets : <<U, T>> \notin R
  <2> HIDE DEF I, Meets, R, D
  <2> QED BY <1>1, <1>4, WFMin
<1>6. PICK k \in 0..n : T = I(k) /\ S \cap I(k) # {}
  OBVIOUS
<1>7. ASSUME NEW j \in S, j <= k PROVE j = k
  <2>1. SUFFICES ASSUME j # k PROVE FALSE
    OBVIOUS
  <2>2. j \in 1..n /\ j < k /\ j \in 0..n
    BY <1>7, <2>1
  <2>3. I(j) \in Meets
    BY <2>2
  <2>4. I(j) \subseteq T /\ I(j) # T /\ I(j) \in SUBSET (1..n) /\ T \in SUBSET (1..n)
    <3>1. k \in I(k) /\ k \notin I(j)
      BY <2>2, <1>6
    <3>2. I(j) \subseteq I(k)
      BY <2>2, <1>6
    <3> QED BY <3>1, <3>2, <1>6, <2>3
  <2>5. <<I(j), T>> \in R
    BY <2>4 DEF StrictSubsetOrdering
  <2> QED BY <2>3, <2>5, <1>5
<1>8. k \in S
  <2>1. PICK j \in S : j \in I(k)
    BY <1>6
  <2> QED BY <2>1, <1>7
<1>9. \A j \in S : k <= j
  BY <1>7
<1> QED BY <1>8, <1>9 DEF First

LEMMA FirstEdge ==
    ASSUME TypeOK, NEW S \in SUBSET Edges, S # {}
    PROVE  First(S) \in S
<1>1. team.forward \in Seq(Edge)
  BY TeamAssumption DEF TypeOK
<1>2. PICK n \in Nat : Edges = 1..n
  BY <1>1 DEF Edges
<1> QED BY <1>2, FirstIn

LEMMA FirstReview ==
    ASSUME TypeOK, NEW S \in SUBSET (DOMAIN team.review), S # {}
    PROVE  First(S) \in S
<1>1. team.review \in Seq(Review)
  BY TeamAssumption DEF TypeOK
<1>2. PICK n \in Nat : DOMAIN team.review = 1..n
  BY <1>1
<1> QED BY <1>2, FirstIn

(* There are finitely many layers, and no member is in two of them. *)
LEMMA LayersApart ==
    ASSUME NEW forward, NEW L, L = LayersOf(forward)
    PROVE  /\ Len(L) \in Nat /\ DOMAIN L = 1..Len(L)
           /\ \A k \in DOMAIN L : L[k] \subseteq Agents
           /\ \A j, k \in DOMAIN L : j < k => L[j] \cap L[k] = {}
<1> DEFINE N == Len(Members)
           placed == Placed(forward)
           Round(k) == {n \in Agents : n \in placed[k] /\ \A j \in 0..(k - 1) : n \notin placed[j]}
           rest == {n \in Agents : \A j \in 0..N : n \notin placed[j]}
           full == {k \in 1..N : Round(k) # {}}
           depth == Cardinality(full)
           last == depth + (IF rest = {} THEN 0 ELSE 1)
<1>1. N \in Nat
  BY TeamAssumption
<1>2. depth \in Nat /\ depth <= N
  <2>1. full \subseteq 1..N
    OBVIOUS
  <2>2. IsFiniteSet(1..N) /\ Cardinality(1..N) = N
    BY <1>1, FS_Interval, SMTT(30)
  <2> HIDE DEF full
  <2>3. IsFiniteSet(full) /\ Cardinality(full) <= Cardinality(1..N)
    BY <2>1, <2>2, FS_Subset
  <2> QED BY <2>2, <2>3, FS_CardinalityType
<1>4. L = [k \in 1..last |-> IF k <= depth THEN Round(k) ELSE rest]
  BY DEF LayersOf
<1> HIDE DEF depth
<1>3. last \in Nat /\ last <= depth + 1
  <2>1. CASE rest = {}
    BY <1>2, <2>1
  <2>2. CASE rest # {}
    BY <1>2, <2>2
  <2> QED BY <2>1, <2>2
<1>5. \A k \in 1..last : L[k] = IF k <= depth THEN Round(k) ELSE rest
  BY <1>4
<1>6. DOMAIN L = 1..last
  BY <1>4
<1> HIDE DEF last, placed
<1>7. Len(L) = last
  BY <1>3, <1>6
<1>8. \A k \in 1..last : L[k] \subseteq Agents
  BY <1>5
<1>9. ASSUME NEW j \in 1..last, NEW k \in 1..last, j < k, NEW n, n \in L[j], n \in L[k]
      PROVE  FALSE
  <2>1. j \in Nat /\ k \in Nat /\ j <= depth /\ 1 <= j
    BY <1>2, <1>3, <1>9
  <2>2. n \in placed[j]
    BY <1>5, <1>9, <2>1
  <2>3. CASE k <= depth
    <3>1. n \in Round(k)
      <4> HIDE DEF Round
      <4> QED BY <1>5, <1>9, <2>3
    <3>2. j \in 0..(k - 1)
      BY <2>1, <1>9
    <3> QED BY <2>2, <3>1, <3>2
  <2>4. CASE ~(k <= depth)
    <3>1. n \in rest
      <4> HIDE DEF rest
      <4> QED BY <1>5, <1>9, <2>4
    <3>2. j \in 0..N
      BY <1>1, <1>2, <2>1
    <3> QED BY <2>2, <3>1, <3>2
  <2> QED BY <2>3, <2>4
<1> QED BY <1>3, <1>6, <1>7, <1>8, <1>9

-----------------------------------------------------------------------------
(* One step of job m leaves it at J and the layer as it is.                 *)
Moves(m, J) ==
    /\ J \in JobType /\ job' = [job EXCEPT ![m] = J]
    /\ UNCHANGED <<team, layers, layer, taken>>
    /\ Stopped => Stopped'
    /\ phase' \in {phase, "threw"}

AtWork(J) == J.pc \in {"collect", "asking", "calling"}

(* Members at work in the same layer, who may both run n, contend for it.   *)
LEMMA Meet ==
    ASSUME TypeOK, JobsOK, LayersOK, NEW n \in Agents, ~Contended(n),
           NEW v \in Agents, NEW w \in Agents, Active(v), Active(w),
           v \in {n} \cup ReviewersOf(n), w \in {n} \cup ReviewersOf(n)
    PROVE  v = w
<1>1. layer \in DOMAIN layers /\ v \in taken /\ w \in taken
  BY DEF JobsOK
<1>2. layer > 0
  BY <1>1, LayersApart DEF TypeOK
<1>3. v \in layers[layer] /\ w \in layers[layer]
  BY <1>1, <1>2 DEF LayersOK, Layer
<1> QED BY <1>1, <1>3 DEF Contended

LEMMA EdgeOf ==
    ASSUME TypeOK, NEW e \in Edges
    PROVE  team.forward[e] \in Edge /\ team.forward[e].from \in Agents
           /\ team.forward[e].to \in Agents
<1>1. team.forward \in Seq(Edge)
  BY TeamAssumption DEF TypeOK
<1>2. team.forward[e] \in Edge
  BY <1>1 DEF Edges
<1> QED BY <1>2 DEF Edge

(* Whom a job reviews next is a member that its own one reviews.            *)
LEMMA GoalOf ==
    ASSUME TypeOK, NEW m \in Agents, NEW J, J.left \subseteq Reviews(m), J.left # {}
    PROVE  /\ First(J.left) \in J.left
           /\ Goal(J) \in Review
           /\ m \in ReviewersOf(Goal(J).to)
           /\ Goal(J).budget \in BudgetOf(Goal(J).to)
<1>1. J.left \in SUBSET (DOMAIN team.review)
  BY DEF Reviews
<1>2. First(J.left) \in J.left
  BY <1>1, FirstReview
<1>3. PICK r \in DOMAIN team.review : r = First(J.left) /\ team.review[r].from = m
  BY <1>2 DEF Reviews
<1>4. team.review \in Seq(Review)
  BY TeamAssumption DEF TypeOK
<1>5. Goal(J) = team.review[r] /\ Goal(J) \in Review
  BY <1>3, <1>4 DEF Goal
<1> QED BY <1>2, <1>3, <1>5 DEF ReviewersOf, BudgetOf

(* Who runs n is n or reviews it.                                           *)
LEMMA WhoRuns ==
    ASSUME TypeOK, NEW m \in Agents, NEW J \in JobType, Fits(m, J),
           AtWork(J) \/ J.pc = "returned"
    PROVE  m \in {J.node} \cup ReviewersOf(J.node)
<1>1. J.phase \in {"own", "rework", "review"}
  BY DEF JobType
<1>2. CASE J.phase = "rework"
  <2>1. J.left \subseteq Reviews(m) /\ J.left # {} /\ J.node = Goal(J).to
    BY <1>2 DEF Fits, AtWork
  <2> QED BY <2>1, GoalOf
<1>3. CASE J.phase \in {"own", "review"}
  BY <1>3 DEF Fits, AtWork
<1> QED BY <1>1, <1>2, <1>3

(* Steps that leave the team alone leave alone what is said about it.       *)
LEMMA SameTeam ==
    ASSUME team' = team, layers' = layers
    PROVE  /\ Edges' = Edges /\ JobType' = JobType
           /\ \A n : Contended(n)' <=> Contended(n)
           /\ \A n : BudgetOf(n)' = BudgetOf(n)
           /\ \A n : ReviewersOf(n)' = ReviewersOf(n)
           /\ \A e : Planned(e)' <=> Planned(e)
           /\ \A m, J : Fits(m, J)' <=> Fits(m, J)
<1>1. Edges' = Edges
  BY DEF Edges
<1>2. JobType' = JobType
  BY <1>1 DEF JobType
<1>3. \A n : ReviewersOf(n)' = ReviewersOf(n)
  BY DEF ReviewersOf
<1>4. \A n : Contended(n)' <=> Contended(n)
  BY <1>3 DEF Contended
<1>5. \A n : BudgetOf(n)' = BudgetOf(n)
  BY DEF BudgetOf
<1>6. \A a, b : Earlier(a, b)' <=> Earlier(a, b)
  BY DEF Earlier
<1>7. \A e : Planned(e)' <=> Planned(e)
  BY <1>3, <1>6 DEF Planned
<1>8. \A m, J : Fits(m, J)' <=> Fits(m, J)
  BY DEF Fits, Goal, Reviews
<1> QED BY <1>1, <1>2, <1>3, <1>4, <1>5, <1>7, <1>8

(* The jobs fit, and nobody is at work when the run has returned.           *)
LEMMA JobsStep ==
    ASSUME TypeOK, JobsOK, LayersOK, NEW m \in Agents, Active(m), NEW J, Moves(m, J),
           Fits(m, J)
    PROVE  JobsOK' /\ LayersOK' /\ phase' # "returned"
<1>1. \A n \in Agents : job'[n] = IF n = m THEN J ELSE job[n]
  BY DEF Moves, TypeOK
<1>2. team' = team /\ layers' = layers /\ layer' = layer /\ taken' = taken
  BY DEF Moves
<1>3. \A n \in Agents : Active(n)' => Active(n)
  BY <1>1 DEF Active
<1>4. JobsOK'
  <2> SUFFICES ASSUME NEW n \in Agents
               PROVE  /\ Active(n)' => layer \in DOMAIN layers /\ n \in taken
                      /\ Fits(n, job'[n])
    BY <1>2, SameTeam DEF JobsOK
  <2>1. Active(n)' => layer \in DOMAIN layers /\ n \in taken
    BY <1>3 DEF JobsOK
  <2>2. Fits(n, job'[n])
    BY <1>1 DEF JobsOK
  <2> QED BY <2>1, <2>2
<1>5. phase' # "returned"
  BY DEF LayersOK, Moves
<1>6. LayersOK'
  BY <1>2, <1>5 DEF LayersOK, Layer
<1> QED BY <1>4, <1>5, <1>6

(* Steps that send nobody back leave the budgets right.                     *)
LEMMA CountedStep ==
    ASSUME TypeOK, Counted, NEW m \in Agents, NEW J, Moves(m, J),
           used' = used, reworks' = reworks,
           \A n \in Agents : ~Contended(n) => Counts(n, J)
    PROVE  Counted'
<1>1. \A n \in Agents : job'[n] = IF n = m THEN J ELSE job[n]
  BY DEF Moves, TypeOK
<1>2. team' = team /\ layers' = layers
  BY DEF Moves
<1> SUFFICES ASSUME NEW n \in Agents, ~Contended(n)
             PROVE  /\ used[n] = reworks[n]
                    /\ reworks[n] = 0 \/ \E b \in BudgetOf(n) : reworks[n] <= b
                    /\ \A w \in Agents : Counts(n, job[w])'
  BY <1>2, SameTeam DEF Counted
<1>3. \A w \in Agents : Counts(n, job'[w])
  BY <1>1 DEF Counted
<1>4. \A w \in Agents : Counts(n, job[w])'
  BY <1>2, <1>3 DEF Counts, Goal
<1> QED BY <1>4 DEF Counted

(* Members a worker took have ended, or are at work.                        *)
LEMMA EndedStep ==
    ASSUME TypeOK, Ended, NEW m \in Agents, Active(m), NEW J, Moves(m, J),
           \A n \in Agents : outcome'[n] # outcome[n] => outcome'[n] # None,
           \A n \in Agents : outcome'[n] = "ok" => outputs'[n] # None,
           \/ outcome'[m] # None \/ Stopped' \/ (J.res = "threw" /\ J.pc = "done")
           \/ (AtWork(J) /\ J.phase = "own")
    PROVE  Ended'
<1>1. \A n \in Agents : job'[n] = IF n = m THEN J ELSE job[n]
  BY DEF Moves, TypeOK
<1>2. /\ team' = team /\ layers' = layers /\ layer' = layer /\ taken' = taken
      /\ Stopped => Stopped'
  BY DEF Moves
<1>3. ASSUME NEW j \in DOMAIN layers, j < layer, NEW n \in layers[j]
      PROVE  outcome'[n] # None
  <2>1. n \in Agents /\ outcome[n] # None
    BY <1>3, LayersApart DEF Ended, TypeOK
  <2> QED BY <2>1
<1>4. ASSUME NEW n \in taken
      PROVE  \/ outcome'[n] # None \/ Stopped' \/ (Threw(n) /\ ~Active(n))'
             \/ (Working(n) /\ job[n].phase = "own")'
  <2>1. n \in Agents
    BY DEF TypeOK
  <2>2. CASE n = m
    <3>1. job'[n] = J
      BY <1>1, <2>1, <2>2
    <3> QED BY <3>1, <2>2 DEF AtWork, Working, Threw, Active
  <2>3. CASE n # m
    <3>1. job'[n] = job[n]
      BY <1>1, <2>1, <2>3
    <3>2. \/ outcome[n] # None \/ Stopped \/ (Threw(n) /\ ~Active(n))
          \/ (Working(n) /\ job[n].phase = "own")
      BY DEF Ended
    <3> QED BY <3>1, <3>2, <2>1, <1>2 DEF Working, Threw, Active
  <2> QED BY <2>2, <2>3
<1> QED BY <1>2, <1>3, <1>4 DEF Ended

(* A hand-over that its receiver has read stays settled.                    *)
LEMMA HandedOverStep ==
    ASSUME TypeOK, HandedOver, NEW m \in Agents, NEW J, Moves(m, J),
           phase' # "returned",
           \A e \in Edges : hop[e] \in Settled => hop'[e] \in Settled,
           \A e \in Edges : Planned(e) /\ outcome'[team.forward[e].to] = "ok"
               => outcome[team.forward[e].to] = "ok" \/ hop'[e] \in Settled,
           \A e \in Edges : /\ Planned(e) /\ AtWork(J) /\ J.node = team.forward[e].to
                            /\ e \notin J.todo
               => hop'[e] \in Settled
    PROVE  HandedOver'
<1>1. \A n \in Agents : job'[n] = IF n = m THEN J ELSE job[n]
  BY DEF Moves, TypeOK
<1>2. team' = team /\ layers' = layers
  BY DEF Moves
<1> SUFFICES ASSUME NEW e \in Edges, Planned(e)
             PROVE  /\ outcome'[team.forward[e].to] = "ok" => hop'[e] \in Settled
                    /\ \A w \in Agents :
                         (Working(w) /\ job[w].node = team.forward[e].to
                          /\ e \notin job[w].todo)' => hop'[e] \in Settled
  BY <1>2, SameTeam DEF HandedOver
<1>3. outcome'[team.forward[e].to] = "ok" => hop'[e] \in Settled
  BY DEF HandedOver
<1>4. ASSUME NEW w \in Agents, AtWork(job'[w]), job'[w].node = team.forward[e].to,
             e \notin job'[w].todo
      PROVE  hop'[e] \in Settled
  <2>1. CASE w = m
    BY <1>1, <1>4, <2>1
  <2>2. CASE w # m
    <3>1. job'[w] = job[w]
      BY <1>1, <2>2
    <3> QED BY <3>1, <1>4 DEF HandedOver, Working, AtWork
  <2> QED BY <2>1, <2>2
<1> QED BY <1>2, <1>3, <1>4 DEF Working, AtWork

(* A text that no rework replaced is that of the first run.                 *)
LEMMA FirstTextStep ==
    ASSUME TypeOK, JobsOK, FirstText, NEW m \in Agents, Active(m), NEW J, Moves(m, J),
           rerun \subseteq rerun',
           \A n \in Agents \ rerun' :
               \/ (outputs'[n] = outputs[n] /\ outcome'[n] = outcome[n])
               \/ n = m /\ (outputs'[m] # None => outcome'[m] = "ok"),
           AtWork(J) /\ J.node \notin rerun'
               => J.phase = "own" /\ J.node = m /\ outputs'[m] = None
    PROVE  FirstText'
<1>1. \A n \in Agents : job'[n] = IF n = m THEN J ELSE job[n]
  BY DEF Moves, TypeOK
<1>2. layers' = layers /\ layer' = layer /\ taken' = taken
  BY DEF Moves
<1>3. m \in taken
  BY DEF JobsOK
<1> SUFFICES ASSUME NEW n \in Agents, n \notin rerun'
             PROVE  /\ outputs'[n] # None => outcome'[n] = "ok"
                    /\ n \notin taken /\ (\A j \in DOMAIN layers : j < layer => n \notin layers[j])
                       => outputs'[n] = None
                    /\ \A w \in Agents : (Working(w) /\ job[w].node = n)'
                                         => job'[w].phase = "own" /\ outputs'[n] = None
  BY <1>2 DEF FirstText
<1>4. n \notin rerun
  OBVIOUS
<1>5. outputs'[n] # None => outcome'[n] = "ok"
  BY <1>4 DEF FirstText
<1>6. n \notin taken /\ (\A j \in DOMAIN layers : j < layer => n \notin layers[j])
      => outputs'[n] = None
  BY <1>3, <1>4 DEF FirstText
<1>7. ASSUME NEW w \in Agents, AtWork(job'[w]), job'[w].node = n
      PROVE  job'[w].phase = "own" /\ outputs'[n] = None
  <2>1. CASE w = m
    BY <1>1, <1>7, <2>1
  <2>2. CASE w # m
    <3>1. AtWork(job[w]) /\ job[w].node = n /\ job'[w] = job[w]
      BY <1>1, <1>7, <2>2
    <3>2. job[w].phase = "own" /\ outputs[n] = None
      BY <3>1, <1>4 DEF FirstText, Working, AtWork
    <3>3. n = w
      BY <3>1, <3>2 DEF JobsOK, Fits, AtWork
    <3> QED BY <3>1, <3>2, <3>3, <2>2
  <2> QED BY <2>1, <2>2
<1>8. \A w \in Agents : (Working(w) /\ job[w].node = n)'
                        => job'[w].phase = "own" /\ outputs'[n] = None
  BY <1>7 DEF Working, AtWork
<1> QED BY <1>5, <1>6, <1>8

-----------------------------------------------------------------------------
(* Steps that start no run and end none, except by an exception.            *)
LEMMA QuietStep ==
    ASSUME TypeOK, Parts, NEW m \in Agents, Active(m), NEW J, Moves(m, J), Fits(m, J),
           UNCHANGED <<outputs, outcome, used, reworks, rerun>>,
           \A e \in Edges : hop[e] \in Settled => hop'[e] \in Settled,
           \A n \in Agents : ~Contended(n) => Counts(n, J),
           AtWork(J) => /\ AtWork(job[m])
                        /\ J.node = job[m].node /\ J.phase = job[m].phase,
           AtWork(job[m]) => AtWork(J) \/ (J.res = "threw" /\ J.pc = "done"),
           \A e \in Edges : /\ Planned(e) /\ AtWork(J) /\ J.node = team.forward[e].to
                            /\ e \notin J.todo
               => e \notin job[m].todo \/ hop'[e] \in Settled
    PROVE  Parts'
<1> USE DEF Parts
<1>1. JobsOK' /\ LayersOK' /\ phase' # "returned"
  BY JobsStep
<1>2. Counted'
  BY CountedStep
<1>3. Stopped => Stopped'
  BY DEF Moves
<1>4. m \in taken /\ ~(Threw(m) /\ ~Active(m))
  <2>1. m \in taken
    BY DEF JobsOK
  <2> QED BY <2>1
<1>5. outcome[m] # None \/ Stopped \/ (AtWork(job[m]) /\ job[m].phase = "own")
  <2>1. \/ outcome[m] # None \/ Stopped \/ (Threw(m) /\ ~Active(m))
        \/ (Working(m) /\ job[m].phase = "own")
    BY <1>4 DEF Ended
  <2>2. Working(m) <=> AtWork(job[m])
    BY DEF Working, AtWork
  <2> QED BY <1>4, <2>1, <2>2
<1>6. Ended'
  <2>1. \A n \in Agents : outcome'[n] = "ok" => outputs'[n] # None
    BY DEF Ended
  <2>2. \/ outcome'[m] # None \/ Stopped' \/ (J.res = "threw" /\ J.pc = "done")
        \/ (AtWork(J) /\ J.phase = "own")
    BY <1>3, <1>5
  <2> QED BY <2>1, <2>2, EndedStep
<1>7. HandedOver'
  <2>1. ASSUME NEW e \in Edges, Planned(e), AtWork(J), J.node = team.forward[e].to,
               e \notin J.todo
        PROVE  hop'[e] \in Settled
    <3>1. CASE e \notin job[m].todo
      BY <2>1, <3>1 DEF HandedOver, Working, AtWork
    <3> QED BY <2>1, <3>1
  <2> QED BY <1>1, <2>1, HandedOverStep
<1>8. FirstText'
  <2>1. AtWork(J) /\ J.node \notin rerun'
        => J.phase = "own" /\ J.node = m /\ outputs'[m] = None
    <3>1. SUFFICES ASSUME AtWork(J), J.node \notin rerun
                   PROVE  J.phase = "own" /\ J.node = m /\ outputs[m] = None
      OBVIOUS
    <3>2. J.node \in Agents /\ (J.phase = "own" => J.node = m)
      BY <3>1 DEF Fits, AtWork
    <3>3. J.phase = "own" /\ outputs[J.node] = None
      BY <3>1, <3>2 DEF FirstText, Working, AtWork
    <3> QED BY <3>2, <3>3
  <2> QED BY <2>1, FirstTextStep
<1> QED BY <1>1, <1>2, <1>6, <1>7, <1>8

(* A run ends, with a text if it succeeded.                                 *)
LEMMA EndsStep ==
    ASSUME TypeOK, Parts, NEW m \in Agents, AtWork(job[m]), NEW o \in Outcomes, Ends(m, o),
           UNCHANGED <<team, layers, layer, taken, used, reworks, rerun, phase>>,
           Stopped => Stopped',
           \A e \in Edges : hop[e] \in Settled => hop'[e] \in Settled,
           \/ o # "ok" /\ outputs' = outputs
           \/ /\ o = "ok" /\ job[m].pc = "calling"
              /\ \E v \in {"pass", "reject"} :
                    outputs' = [outputs EXCEPT ![job[m].node] = v]
    PROVE  Parts'
<1> USE DEF Parts
<1>1. job[m] \in JobType
  BY DEF TypeOK
<1>2. PICK J : J = [job[m] EXCEPT !.pc = "returned", !.res = o]
  OBVIOUS
<1>3. /\ J \in JobType /\ J.pc = "returned" /\ J.res = o /\ J.node = job[m].node
      /\ J.phase = job[m].phase /\ J.left = job[m].left
  BY <1>1, <1>2 DEF JobType
<1>4. job' = [job EXCEPT ![m] = J]
  BY <1>2 DEF Ends
<1>5. Moves(m, J)
  BY <1>3, <1>4 DEF Moves
<1>6. Fits(m, job[m]) /\ Active(m)
  BY DEF JobsOK, Active, AtWork
<1>7. Fits(m, J)
  BY <1>3, <1>6 DEF Fits, AtWork, Goal
<1>8. JobsOK' /\ LayersOK' /\ phase' # "returned"
  BY <1>5, <1>6, <1>7, JobsStep
<1>9. \A n \in Agents : Counts(n, J)
  BY <1>3 DEF Counts
<1>10. Counted'
  BY <1>5, <1>9, CountedStep
<1>11. job[m].node \in Agents
  BY <1>6 DEF Fits, AtWork
<1>12. \A n \in Agents : outcome'[n] = IF n = job[m].node THEN o ELSE outcome[n]
  BY DEF Ends, TypeOK
<1>13. o # None /\ None \notin {"pass", "reject"}
  BY TeamAssumption
<1>14. \A n \in Agents \ {job[m].node} : outputs'[n] = outputs[n]
  BY DEF TypeOK
<1>15. outputs'[job[m].node] # None => o = "ok" \/ outputs[job[m].node] # None
  OBVIOUS
<1>16. o = "ok" => outputs'[job[m].node] # None
  <2> SUFFICES ASSUME o = "ok"
               PROVE  outputs'[job[m].node] # None
    OBVIOUS
  <2>1. PICK v \in {"pass", "reject"} : outputs' = [outputs EXCEPT ![job[m].node] = v]
    OBVIOUS
  <2>2. outputs'[job[m].node] = v
    BY <2>1, <1>11 DEF TypeOK
  <2> QED BY <2>2, <1>13
<1>17. Ended'
  <2>1. \A n \in Agents : outcome'[n] # outcome[n] => outcome'[n] # None
    BY <1>12, <1>13
  <2>2. \A n \in Agents : outcome'[n] = "ok" => outputs'[n] # None
    <3> SUFFICES ASSUME NEW n \in Agents, outcome'[n] = "ok"
                 PROVE  outputs'[n] # None
      OBVIOUS
    <3>1. CASE n = job[m].node
      BY <3>1, <1>12, <1>16
    <3>2. CASE n # job[m].node
      BY <3>2, <1>12, <1>14 DEF Ended
    <3> QED BY <3>1, <3>2
  <2>3. m \in taken
    BY <1>6 DEF JobsOK
  <2>4. outcome'[m] # None \/ Stopped'
    <3>1. CASE job[m].phase = "own"
      BY <3>1, <1>6, <1>12, <1>13 DEF Fits, AtWork
    <3>2. CASE job[m].phase # "own"
      <4>1. outcome[m] # None \/ Stopped
        BY <3>2, <2>3, <1>6 DEF Ended
      <4> QED BY <4>1, <1>12, <1>13
    <3> QED BY <3>1, <3>2
  <2> QED BY <2>1, <2>2, <2>4, <1>5, <1>6, EndedStep
<1>18. HandedOver'
  <2>1. ASSUME NEW e \in Edges, Planned(e), outcome'[team.forward[e].to] = "ok"
        PROVE  outcome[team.forward[e].to] = "ok" \/ hop'[e] \in Settled
    <3>1. CASE job[m].node = team.forward[e].to
      <4>1. o = "ok"
        BY <2>1, <3>1, <1>11, <1>12
      <4>2. job[m].pc = "calling" /\ job[m].todo = {}
        BY <4>1, <1>6 DEF Fits
      <4>3. hop[e] \in Settled
        BY <2>1, <3>1, <4>2 DEF HandedOver, Working
      <4> QED BY <4>3
    <3>2. CASE job[m].node # team.forward[e].to
      <4>1. team.forward[e].to \in Agents
        BY EdgeOf
      <4> QED BY <2>1, <3>2, <4>1, <1>12
    <3> QED BY <3>1, <3>2
  <2>2. ~AtWork(J)
    BY <1>3 DEF AtWork
  <2> QED BY <2>1, <2>2, <1>5, <1>8, HandedOverStep
<1>19. FirstText'
  <2>1. ASSUME NEW n \in Agents \ rerun'
        PROVE  \/ (outputs'[n] = outputs[n] /\ outcome'[n] = outcome[n])
               \/ n = m /\ (outputs'[m] # None => outcome'[m] = "ok")
    <3>1. CASE n = job[m].node
      <4>1. job[m].phase = "own" /\ outputs[n] = None
        BY <2>1, <3>1 DEF FirstText, Working, AtWork
      <4>2. n = m
        BY <3>1, <4>1, <1>6 DEF Fits, AtWork
      <4>3. outputs'[m] # None => outcome'[m] = "ok"
        BY <3>1, <4>1, <4>2, <1>12, <1>15
      <4> QED BY <4>2, <4>3
    <3>2. CASE n # job[m].node
      BY <3>2, <1>12, <1>14
    <3> QED BY <3>1, <3>2
  <2>2. ~AtWork(J)
    BY <1>3 DEF AtWork
  <2> QED BY <2>1, <2>2, <1>5, <1>6, FirstTextStep
<1> QED BY <1>8, <1>10, <1>17, <1>18, <1>19

-----------------------------------------------------------------------------
(* The types, of a step of job m.                                           *)
LEMMA TypesStep ==
    ASSUME TypeOK, NEW m \in Agents, NEW J, Moves(m, J), faults' \in 0..MaxFaults,
           outputs' \in [Agents -> {None, "pass", "reject"}],
           outcome' \in [Agents -> Outcomes \cup {None}],
           perAgent' \in [Agents -> Outcomes \cup {None}],
           used' \in [Agents -> Nat], reworks' \in [Agents -> Nat],
           hop' \in [Edges -> {"none", "pending", "running"} \cup Settled],
           backHop' \in [Agents -> {"none", "running"} \cup Settled],
           cancelled' \in BOOLEAN, aborted' \in BOOLEAN, rerun' \subseteq Agents
    PROVE  TypeOK'
<1>1. /\ team' = team /\ layers' = layers /\ layer' = layer /\ taken' = taken
      /\ job' = [job EXCEPT ![m] = J] /\ J \in JobType /\ phase' \in {phase, "threw"}
  BY DEF Moves
<1>2. Edges' = Edges /\ JobType' = JobType
  BY <1>1, SameTeam
<1>3. job' \in [Agents -> JobType]
  BY <1>1 DEF TypeOK
<1>4. phase' \in {"running", "returned", "threw"}
  BY <1>1 DEF TypeOK
<1> QED BY <1>1, <1>2, <1>3, <1>4 DEF TypeOK

(* What settling and opening do to the state of a hop.                      *)
HopStates == {"none", "pending", "running"} \cup Settled

LEMMA HopMoves ==
    ASSUME NEW h \in HopStates
    PROVE  /\ Open(h) \in HopStates /\ (h \in Settled => Open(h) \in Settled)
           /\ (Open(h) = "done" => h = "done")
           /\ Start(h) \in HopStates /\ (h \in Settled => Start(h) \in Settled)
           /\ (Start(h) = "done" => h = "done")
           /\ \A s \in Settled : Settle(h, s) \in Settled
           /\ \A s \in Settled \ {"done"} : Settle(h, s) = "done" => h = "done"
           /\ \A s : h \in Settled => Settle(h, s) \in Settled
BY DEF HopStates, Open, Start, Settle, Settled

LEMMA StatusSettles ==
    /\ \A o \in Outcomes \cup {None} : FailStatus(o) \in Settled \ {"done"}
    /\ \A e : SweepStatus(e) \in Settled \ {"done"}
    /\ \A o \in Outcomes \cup {None, "threw"} : BackStatus(o) \in Settled
<1>1. \A o : FailStatus(o) \in Settled \ {"done"}
  BY DEF FailStatus, Settled
<1>2. \A e : SweepStatus(e) \in Settled \ {"done"}
  BY DEF SweepStatus, Settled
<1>3. \A o : BackStatus(o) \in Settled
  BY DEF BackStatus, Settled
<1> QED BY <1>1, <1>2, <1>3

(* The hops a node's start opens.                                           *)
LEMMA Starts ==
    ASSUME TypeOK, NEW S,
           hop' = [e \in Edges |-> IF e \in S THEN Start(hop[e]) ELSE hop[e]]
    PROVE  /\ hop' \in [Edges -> HopStates]
           /\ \A e \in Edges : hop[e] \in Settled => hop'[e] \in Settled
           /\ \A e \in Edges : hop'[e] = "done" => hop[e] = "done"
<1>1. \A e \in Edges : hop[e] \in HopStates
  BY DEF TypeOK, HopStates
<1>2. \A e \in Edges : hop'[e] \in {Start(hop[e]), hop[e]}
  OBVIOUS
<1>3. \A e \in Edges : hop'[e] \in HopStates
  BY <1>1, <1>2, HopMoves
<1> QED BY <1>1, <1>2, <1>3, HopMoves

-----------------------------------------------------------------------------
(* Steps of a job, one by one.                                              *)
LEMMA CollectKeeps ==
    ASSUME IInv, NEW m \in Agents, Collect(m)
    PROVE  IInv'
<1> USE DEF IInv
<1>1. PICK e : e = First(job[m].todo)
  OBVIOUS
<1>2. PICK from : from = team.forward[e].from
  OBVIOUS
<1>3. PICK X : X = IF team.forward[e].denied THEN Settle(Open(hop[e]), "denied")
                   ELSE IF outputs[from] # None THEN Settle(Open(hop[e]), "done")
                   ELSE IF outcome[from] \notin {None, "ok"}
                        THEN Settle(Open(hop[e]), FailStatus(outcome[from]))
                   ELSE Open(hop[e])
  OBVIOUS
<1>4. PICK J : J = [job[m] EXCEPT !.todo = @ \ {e}]
  OBVIOUS
<1>5. /\ job[m].pc = "collect" /\ job[m].todo # {}
      /\ job' = [job EXCEPT ![m].todo = @ \ {e}]
      /\ UNCHANGED <<team, layers, layer, taken, outputs, outcome, perAgent, used, backHop,
                     cancelled, aborted, phase, faults, rerun, reworks>>
  BY <1>1 DEF Collect, setup, history
<1>6. hop' = [hop EXCEPT ![e] = X]
  BY <1>1, <1>2, <1>3 DEF Collect
<1>7. job[m] \in JobType
  BY DEF TypeOK
<1>8. e \in job[m].todo /\ e \in Edges
  <2>1. job[m].todo \in SUBSET Edges
    BY <1>7 DEF JobType
  <2> QED BY <2>1, <1>1, <1>5, FirstEdge
<1>9. /\ J \in JobType /\ J.pc = "collect" /\ J.node = job[m].node
      /\ J.phase = job[m].phase /\ J.left = job[m].left /\ J.todo = job[m].todo \ {e}
  BY <1>4, <1>5, <1>7 DEF JobType
<1>10. Moves(m, J)
  <2>1. job' = [job EXCEPT ![m] = J]
    BY <1>4, <1>5
  <2> QED BY <2>1, <1>5, <1>9 DEF Moves, Stopped
<1>11. Active(m) /\ Fits(m, job[m])
  BY <1>5 DEF Active, Parts, JobsOK
<1>12. Fits(m, J)
  BY <1>9, <1>11, <1>5 DEF Fits, Goal
<1>13. from \in Agents /\ hop[e] \in HopStates /\ outcome[from] \in Outcomes \cup {None}
  BY <1>2, <1>8, EdgeOf DEF TypeOK, HopStates
<1>14. X \in HopStates /\ (hop[e] \in Settled => X \in Settled)
  <2>1. Open(hop[e]) \in HopStates /\ (hop[e] \in Settled => Open(hop[e]) \in Settled)
    BY <1>13, HopMoves
  <2>2. \A s \in Settled : Settle(Open(hop[e]), s) \in Settled
    BY <2>1, HopMoves
  <2>3. "done" \in Settled /\ "denied" \in Settled
    BY DEF Settled
  <2>4. FailStatus(outcome[from]) \in Settled
    BY <1>13, StatusSettles
  <2> QED BY <2>1, <2>2, <2>3, <2>4, <1>3 DEF HopStates
<1>15. hop' \in [Edges -> {"none", "pending", "running"} \cup Settled]
  BY <1>6, <1>8, <1>14 DEF TypeOK, HopStates
<1>16. \A d \in Edges : hop[d] \in Settled => hop'[d] \in Settled
  BY <1>6, <1>8, <1>14 DEF TypeOK
<1>17. TypeOK'
  BY <1>5, <1>10, <1>15, TypesStep DEF TypeOK
<1>18. ASSUME Planned(e), job[m].node = team.forward[e].to
       PROVE  X \in Settled
  <2>1. m \in {job[m].node} \cup ReviewersOf(job[m].node)
    BY <1>5, <1>7, <1>11, WhoRuns DEF AtWork
  <2>2. Earlier(from, m)
    BY <2>1, <1>2, <1>18 DEF Planned
  <2>3. PICK j \in DOMAIN layers :
            from \in layers[j] /\ \A k \in DOMAIN layers : m \in layers[k] => j < k
    BY <2>2 DEF Earlier
  <2>4. layer \in DOMAIN layers /\ m \in layers[layer]
    <3>1. layer \in DOMAIN layers /\ m \in taken
      BY <1>11 DEF Parts, JobsOK
    <3>2. layer > 0
      BY <3>1, LayersApart DEF TypeOK
    <3> QED BY <3>1, <3>2 DEF Parts, LayersOK, Layer
  <2>5. outcome[from] # None
    BY <2>3, <2>4 DEF Parts, Ended
  <2>6. outcome[from] = "ok" => outputs[from] # None
    BY <1>13 DEF Parts, Ended
  <2>7. Open(hop[e]) \in HopStates
    BY <1>13, HopMoves
  <2>8. \A s \in Settled : Settle(Open(hop[e]), s) \in Settled
    BY <2>7, HopMoves
  <2>9. "done" \in Settled /\ "denied" \in Settled /\ FailStatus(outcome[from]) \in Settled
    BY <1>13, StatusSettles DEF Settled
  <2> QED BY <2>5, <2>6, <2>8, <2>9, <1>3
<1>19. ASSUME NEW d \in Edges, Planned(d), J.node = team.forward[d].to, d \notin J.todo
       PROVE  d \notin job[m].todo \/ hop'[d] \in Settled
  <2>1. CASE d = e
    <3>1. hop'[e] = X
      BY <1>6, <1>8 DEF TypeOK
    <3> QED BY <2>1, <3>1, <1>9, <1>18, <1>19
  <2>2. CASE d # e
    BY <2>2, <1>9, <1>19
  <2> QED BY <2>1, <2>2
<1>20. Parts'
  <2>1. AtWork(J) /\ AtWork(job[m])
    BY <1>5, <1>9 DEF AtWork
  <2>2. \A n \in Agents : Counts(n, J)
    BY <1>9 DEF Counts
  <2> QED BY <2>1, <2>2, <1>5, <1>9, <1>10, <1>11, <1>12, <1>16, <1>19, QuietStep
<1> QED BY <1>17, <1>20

(* A step that starts no run, reads no hand-over and ends no run.           *)
LEMMA QuietKeeps ==
    ASSUME IInv, NEW m \in Agents, Active(m), NEW J \in JobType, Fits(m, J),
           job' = [job EXCEPT ![m] = J], phase' \in {phase, "threw"},
           UNCHANGED <<team, layers, layer, taken, outputs, outcome, perAgent, used,
                       cancelled, aborted, rerun, reworks>>,
           faults' \in 0..MaxFaults,
           hop' \in [Edges -> HopStates],
           backHop' \in [Agents -> {"none", "running"} \cup Settled],
           \A e \in Edges : hop[e] \in Settled => hop'[e] \in Settled,
           \A n \in Agents : ~Contended(n) => Counts(n, J),
           AtWork(J) => /\ AtWork(job[m]) /\ J.node = job[m].node
                        /\ J.phase = job[m].phase /\ J.todo = job[m].todo,
           AtWork(job[m]) => AtWork(J) \/ (J.res = "threw" /\ J.pc = "done")
    PROVE  IInv'
<1> USE DEF IInv
<1>1. Moves(m, J)
  BY DEF Moves, Stopped
<1>2. TypeOK'
  BY <1>1, TypesStep DEF TypeOK, HopStates
<1>3. Parts'
  BY <1>1, QuietStep
<1> QED BY <1>2, <1>3

(* A run ends.                                                              *)
LEMMA EndsKeeps ==
    ASSUME IInv, NEW m \in Agents, AtWork(job[m]), NEW o \in Outcomes, Ends(m, o),
           UNCHANGED <<team, layers, layer, taken, used, backHop, cancelled, phase,
                       rerun, reworks>>,
           faults' \in 0..MaxFaults, aborted' \in {aborted, TRUE},
           hop' \in [Edges -> HopStates],
           \A e \in Edges : hop[e] \in Settled => hop'[e] \in Settled,
           \/ o # "ok" /\ outputs' = outputs
           \/ /\ o = "ok" /\ job[m].pc = "calling"
              /\ \E v \in {"pass", "reject"} :
                    outputs' = [outputs EXCEPT ![job[m].node] = v]
    PROVE  IInv'
<1> USE DEF IInv
<1>1. Stopped => Stopped'
  BY DEF Stopped
<1>2. Parts'
  BY <1>1, EndsStep
<1>3. PICK J : J = [job[m] EXCEPT !.pc = "returned", !.res = o]
  OBVIOUS
<1>4. J \in JobType
  <2>1. job[m] \in JobType
    BY DEF TypeOK
  <2> QED BY <2>1, <1>3 DEF JobType
<1>5. job' = [job EXCEPT ![m] = J]
  BY <1>3 DEF Ends
<1>6. Moves(m, J)
  BY <1>1, <1>4, <1>5 DEF Moves
<1>7. outputs' \in [Agents -> {None, "pass", "reject"}]
  BY DEF TypeOK
<1>8. /\ outcome' \in [Agents -> Outcomes \cup {None}]
      /\ perAgent' \in [Agents -> Outcomes \cup {None}]
  BY DEF Ends, TypeOK
<1>9. cancelled' \in BOOLEAN /\ aborted' \in BOOLEAN
  BY DEF TypeOK
<1>10. TypeOK'
  BY <1>6, <1>7, <1>8, <1>9, TypesStep DEF TypeOK, HopStates
<1> QED BY <1>2, <1>10

(* The policy starts to call, or finds the round cancelled.                 *)
LEMMA BeginKeeps ==
    ASSUME IInv, NEW m \in Agents, job[m].pc \in {"collect", "asking"}, job[m].todo = {},
           Begin(m),
           UNCHANGED <<team, layers, layer, taken, outputs, used, backHop, cancelled,
                       phase, faults, rerun, reworks>>
    PROVE  IInv'
<1> USE DEF IInv
<1>1. /\ hop' \in [Edges -> HopStates]
      /\ \A e \in Edges : hop[e] \in Settled => hop'[e] \in Settled
  <2>1. PICK S : S = OutOf(job[m].node)
    OBVIOUS
  <2>2. hop' = [e \in Edges |-> IF e \in S THEN Start(hop[e]) ELSE hop[e]]
    BY <2>1 DEF Begin
  <2> QED BY <2>2, Starts
<1>2. AtWork(job[m]) /\ Active(m) /\ Fits(m, job[m])
  BY DEF AtWork, Active, Parts, JobsOK
<1>3. faults' \in 0..MaxFaults
  BY DEF TypeOK
<1>4. CASE Ends(m, "aborted") /\ aborted' = TRUE
  <2>1. "aborted" \in Outcomes
    BY DEF Outcomes
  <2> QED BY <2>1, <1>1, <1>2, <1>3, <1>4, EndsKeeps
<1>5. CASE Call(m) /\ UNCHANGED <<perAgent, outcome, aborted>>
  <2>1. job[m] \in JobType /\ job[m].node \in Agents
    BY <1>2 DEF TypeOK, Fits, AtWork
  <2>2. PICK J : J = [job[m] EXCEPT !.pc = "calling", !.tries = team.retries[job[m].node]]
    OBVIOUS
  <2>3. team.retries[job[m].node] \in Nat
    BY <2>1, TeamAssumption DEF TypeOK
  <2>4. /\ J \in JobType /\ J.pc = "calling" /\ J.node = job[m].node /\ J.todo = job[m].todo
        /\ J.phase = job[m].phase /\ J.left = job[m].left
    BY <2>1, <2>2, <2>3 DEF JobType
  <2>5. job' = [job EXCEPT ![m] = J]
    BY <1>5, <2>2 DEF Call
  <2>6. Fits(m, J)
    BY <2>4, <1>2 DEF Fits, Goal
  <2>7. AtWork(J) /\ \A n \in Agents : Counts(n, J)
    BY <2>4 DEF AtWork, Counts
  <2>8. backHop' \in [Agents -> {"none", "running"} \cup Settled]
    BY DEF TypeOK
  <2> QED BY <1>1, <1>2, <1>3, <1>5, <2>4, <2>5, <2>6, <2>7, <2>8, QuietKeeps
<1> QED BY <1>4, <1>5 DEF Begin

(* A fault happens within its bound; a step without one leaves the hops.    *)
LEMMA FaultType ==
    ASSUME TypeOK, Fault
    PROVE  faults' \in 0..MaxFaults
BY TeamAssumption DEF TypeOK, Fault

LEMMA HopsStay ==
    ASSUME TypeOK, hop' = hop
    PROVE  /\ hop' \in [Edges -> HopStates]
           /\ \A e \in Edges : hop[e] \in Settled => hop'[e] \in Settled
BY DEF TypeOK, HopStates

LEMMA LookupKeeps ==
    ASSUME IInv, NEW m \in Agents, Lookup(m)
    PROVE  IInv'
<1> USE DEF IInv
<1>1. /\ job[m].pc = "collect" /\ job[m].todo = {}
      /\ UNCHANGED <<team, layers, layer, taken, outputs, used, backHop, cancelled, phase,
                     rerun, reworks>>
  BY DEF Lookup, setup, history
<1>2. AtWork(job[m]) /\ Active(m) /\ Fits(m, job[m])
  BY <1>1 DEF AtWork, Active, Parts, JobsOK
<1>3. CASE Fault /\ Ends(m, "error") /\ UNCHANGED <<hop, aborted>>
  <2>1. "error" \in Outcomes
    BY DEF Outcomes
  <2> QED BY <2>1, <1>1, <1>2, <1>3, FaultType, HopsStay, EndsKeeps
<1>4. CASE MoveTo(m, "asking") /\ UNCHANGED <<perAgent, outcome, hop, aborted, faults>>
  <2>1. PICK J : J = [job[m] EXCEPT !.pc = "asking"]
    OBVIOUS
  <2>2. /\ J \in JobType /\ J.pc = "asking" /\ J.node = job[m].node /\ J.todo = job[m].todo
        /\ J.phase = job[m].phase /\ J.left = job[m].left
    <3>1. job[m] \in JobType
      BY DEF TypeOK
    <3> QED BY <3>1, <2>1 DEF JobType
  <2>3. job' = [job EXCEPT ![m] = J]
    BY <1>4, <2>1 DEF MoveTo
  <2>4. Fits(m, J)
    BY <2>2, <1>1, <1>2 DEF Fits, Goal
  <2>5. AtWork(J) /\ \A n \in Agents : Counts(n, J)
    BY <2>2 DEF AtWork, Counts
  <2>6. /\ backHop' \in [Agents -> {"none", "running"} \cup Settled]
        /\ faults' \in 0..MaxFaults
    BY <1>1, <1>4 DEF TypeOK
  <2> QED BY <1>1, <1>2, <1>4, <2>2, <2>3, <2>4, <2>5, <2>6, HopsStay, QuietKeeps
<1>5. CASE Begin(m) /\ UNCHANGED faults
  BY <1>1, <1>5, BeginKeeps
<1> QED BY <1>3, <1>4, <1>5 DEF Lookup

LEMMA DecidedKeeps ==
    ASSUME IInv, NEW m \in Agents, Decided(m)
    PROVE  IInv'
<1> USE DEF IInv
<1>1. /\ job[m].pc = "asking"
      /\ UNCHANGED <<team, layers, layer, taken, outputs, used, backHop, cancelled, phase,
                     faults, rerun, reworks>>
  BY DEF Decided, setup, history
<1>2. AtWork(job[m]) /\ Fits(m, job[m])
  BY <1>1 DEF AtWork, Parts, JobsOK
<1>3. job[m].todo = {}
  BY <1>1, <1>2 DEF Fits
<1>4. CASE Begin(m)
  BY <1>1, <1>3, <1>4, BeginKeeps
<1>5. CASE Ends(m, "blocked") /\ UNCHANGED <<hop, aborted>>
  <2>1. "blocked" \in Outcomes /\ faults' \in 0..MaxFaults
    BY <1>1 DEF Outcomes, TypeOK
  <2> QED BY <2>1, <1>1, <1>2, <1>5, HopsStay, EndsKeeps
<1> QED BY <1>4, <1>5 DEF Decided

LEMMA AttemptKeeps ==
    ASSUME IInv, NEW m \in Agents, AttemptEnds(m)
    PROVE  IInv'
<1> USE DEF IInv
<1>1. /\ job[m].pc = "calling"
      /\ UNCHANGED <<team, layers, layer, taken, used, hop, backHop, cancelled, phase,
                     rerun, reworks>>
  BY DEF AttemptEnds, setup, history
<1>2. AtWork(job[m]) /\ Active(m) /\ Fits(m, job[m])
  BY <1>1 DEF AtWork, Active, Parts, JobsOK
<1>3. faults \in 0..MaxFaults
  BY DEF TypeOK
<1>4. CASE Ends(m, "aborted") /\ aborted' = TRUE /\ UNCHANGED <<outputs, faults>>
  <2>1. "aborted" \in Outcomes
    BY DEF Outcomes
  <2> QED BY <2>1, <1>1, <1>2, <1>3, <1>4, HopsStay, EndsKeeps
<1>5. CASE /\ \E v \in {"pass", "reject"} :
                 outputs' = [outputs EXCEPT ![job[m].node] = v]
           /\ Ends(m, "ok") /\ UNCHANGED <<aborted, faults>>
  <2>1. "ok" \in Outcomes
    BY DEF Outcomes
  <2> QED BY <2>1, <1>1, <1>2, <1>3, <1>5, HopsStay, EndsKeeps
<1>6. ASSUME NEW o \in {"empty", "error", "timeout"}, Fault, Ends(m, o),
             UNCHANGED <<outputs, aborted>>
      PROVE  IInv'
  <2>1. o \in Outcomes /\ o # "ok"
    BY DEF Outcomes
  <2> QED BY <2>1, <1>1, <1>2, <1>6, FaultType, HopsStay, EndsKeeps
<1>7. CASE /\ Fault /\ job[m].tries > 0 /\ job' = [job EXCEPT ![m].tries = @ - 1]
           /\ UNCHANGED <<perAgent, outcome, outputs, aborted>>
  <2>1. PICK J : J = [job[m] EXCEPT !.tries = job[m].tries - 1]
    OBVIOUS
  <2>2. job[m].tries - 1 \in Nat
    BY <1>7 DEF TypeOK, JobType
  <2>3. J \in JobType
    <3>1. job[m] \in JobType
      BY <1>1 DEF TypeOK
    <3> QED BY <2>1, <2>2, <3>1, Zenon DEF JobType
  <2>4. /\ J.pc = "calling" /\ J.node = job[m].node /\ J.todo = job[m].todo
        /\ J.phase = job[m].phase /\ J.left = job[m].left
    BY <2>1, <1>1 DEF TypeOK, JobType
  <2>5. job' = [job EXCEPT ![m] = J]
    BY <1>7, <2>1
  <2>6. Fits(m, J)
    BY <2>3, <2>4, <1>1, <1>2 DEF Fits, Goal
  <2>7. AtWork(J) /\ \A n \in Agents : Counts(n, J)
    BY <2>3, <2>4 DEF AtWork, Counts
  <2>8. backHop' \in [Agents -> {"none", "running"} \cup Settled]
    BY <1>1 DEF TypeOK
  <2> QED BY <1>1, <1>2, <1>7, <2>3, <2>4, <2>5, <2>6, <2>7, <2>8, FaultType, HopsStay, QuietKeeps
<1> QED BY <1>4, <1>5, <1>6, <1>7 DEF AttemptEnds

(* A job that leaves its run behind, or the review loop.                    *)
LEMMA LeaveKeeps ==
    ASSUME IInv, NEW m \in Agents, job[m].pc \in {"returned", "deciding", "target"},
           NEW J \in JobType, job' = [job EXCEPT ![m] = J],
           J.pc \in {"deciding", "target", "done"}, J.left \subseteq Reviews(m),
           J.pc = "target" => J.left # {},
           \A n \in Agents : ~Contended(n) => Counts(n, J),
           backHop' \in [Agents -> {"none", "running"} \cup Settled],
           UNCHANGED <<team, layers, layer, taken, outputs, outcome, perAgent, used, hop,
                       cancelled, aborted, phase, faults, rerun, reworks>>
    PROVE  IInv'
<1> USE DEF IInv
<1>1. Active(m) /\ ~AtWork(job[m]) /\ ~AtWork(J)
  BY DEF Active, AtWork
<1>2. Fits(m, J)
  BY DEF Fits
<1>3. faults' \in 0..MaxFaults
  BY DEF TypeOK
<1> QED BY <1>1, <1>2, <1>3, HopsStay, QuietKeeps

LEMMA OwnReturnedKeeps ==
    ASSUME IInv, NEW m \in Agents, OwnReturned(m)
    PROVE  IInv'
<1> USE DEF IInv
<1>1. /\ job[m].pc = "returned"
      /\ UNCHANGED <<team, layers, layer, taken, outputs, outcome, perAgent, used, hop,
                     backHop, cancelled, aborted, phase, faults, rerun, reworks>>
  BY DEF OwnReturned, setup, history
<1>2. job[m] \in JobType /\ job[m].left \subseteq Reviews(m)
  BY DEF TypeOK, Parts, JobsOK, Fits
<1>3. backHop' \in [Agents -> {"none", "running"} \cup Settled]
  BY <1>1 DEF TypeOK
<1>4. CASE job' = [job EXCEPT ![m] = [@ EXCEPT !.pc = "deciding", !.left = Reviews(m)]]
  <2>1. PICK J : J = [job[m] EXCEPT !.pc = "deciding", !.left = Reviews(m)]
    OBVIOUS
  <2>2. Reviews(m) \in SUBSET (DOMAIN team.review)
    BY DEF Reviews
  <2>3. J \in JobType /\ J.pc = "deciding" /\ J.left = Reviews(m)
    BY <2>1, <2>2, <1>2 DEF JobType
  <2>4. job' = [job EXCEPT ![m] = J]
    BY <2>1, <1>4
  <2>5. \A n \in Agents : Counts(n, J)
    BY <2>3 DEF Counts
  <2> QED BY <1>1, <1>3, <2>3, <2>4, <2>5, LeaveKeeps
<1>5. CASE MoveTo(m, "done")
  <2>1. PICK J : J = [job[m] EXCEPT !.pc = "done"]
    OBVIOUS
  <2>2. J \in JobType /\ J.pc = "done" /\ J.left = job[m].left
    BY <2>1, <1>2 DEF JobType
  <2>3. job' = [job EXCEPT ![m] = J]
    BY <2>1, <1>5 DEF MoveTo
  <2>4. \A n \in Agents : Counts(n, J)
    BY <2>2 DEF Counts
  <2> QED BY <1>1, <1>2, <1>3, <2>2, <2>3, <2>4, LeaveKeeps
<1> QED BY <1>4, <1>5 DEF OwnReturned

LEMMA DecideKeeps ==
    ASSUME IInv, NEW m \in Agents, Decide(m)
    PROVE  IInv'
<1> USE DEF IInv
<1>1. /\ job[m].pc = "deciding"
      /\ UNCHANGED <<team, layers, layer, taken, outputs, outcome, perAgent, used, hop,
                     backHop, cancelled, aborted, phase, faults, rerun, reworks>>
  BY DEF Decide, setup, history
<1>2. job[m] \in JobType /\ job[m].left \subseteq Reviews(m)
  BY DEF TypeOK, Parts, JobsOK, Fits
<1>3. backHop' \in [Agents -> {"none", "running"} \cup Settled]
  BY <1>1 DEF TypeOK
<1>4. CASE MoveTo(m, "done")
  <2>1. PICK J : J = [job[m] EXCEPT !.pc = "done"]
    OBVIOUS
  <2>2. J \in JobType /\ J.pc = "done" /\ J.left = job[m].left
    BY <2>1, <1>2 DEF JobType
  <2>3. job' = [job EXCEPT ![m] = J]
    BY <2>1, <1>4 DEF MoveTo
  <2>4. \A n \in Agents : Counts(n, J)
    BY <2>2 DEF Counts
  <2> QED BY <1>1, <1>2, <1>3, <2>2, <2>3, <2>4, LeaveKeeps
<1>5. CASE /\ job[m].left # {} /\ used[Target(m).to] < Target(m).budget
           /\ job' = [job EXCEPT ![m] = [@ EXCEPT !.pc = "target",
                                                  !.seen = used[Target(m).to]]]
  <2>1. PICK J : J = [job[m] EXCEPT !.pc = "target", !.seen = used[Target(m).to]]
    OBVIOUS
  <2>2. Target(m) = Goal(job[m]) /\ Target(m) \in Review
    BY <1>2, <1>5, GoalOf DEF Target, Goal
  <2>3. used[Target(m).to] \in Nat
    BY <2>2 DEF Review, TypeOK
  <2>4. /\ J \in JobType /\ J.pc = "target" /\ J.left = job[m].left
        /\ J.seen = used[Target(m).to]
    BY <2>1, <2>3, <1>2 DEF JobType
  <2>5. job' = [job EXCEPT ![m] = J]
    BY <2>1, <1>5
  <2>6. Goal(J) = Target(m)
    BY <2>4 DEF Goal, Target
  <2>7. \A n \in Agents : Counts(n, J)
    BY <2>4, <2>6, <1>5 DEF Counts
  <2> QED BY <1>1, <1>2, <1>3, <1>5, <2>4, <2>5, <2>7, LeaveKeeps
<1>6. CASE job' = [job EXCEPT ![m].left = @ \ {First(@)}]
  <2>1. PICK J : J = [job[m] EXCEPT !.left = job[m].left \ {First(job[m].left)}]
    OBVIOUS
  <2>2. /\ J \in JobType /\ J.pc = "deciding"
        /\ J.left = job[m].left \ {First(job[m].left)}
    BY <2>1, <1>1, <1>2 DEF JobType
  <2>3. job' = [job EXCEPT ![m] = J]
    BY <2>1, <1>6
  <2>4. \A n \in Agents : Counts(n, J)
    BY <2>2 DEF Counts
  <2>5. J.left \subseteq Reviews(m)
    BY <2>2, <1>2
  <2> QED BY <1>1, <1>3, <2>2, <2>3, <2>4, <2>5, LeaveKeeps
<1> QED BY <1>4, <1>5, <1>6 DEF Decide

LEMMA ReviewReturnedKeeps ==
    ASSUME IInv, NEW m \in Agents, ReviewReturned(m)
    PROVE  IInv'
<1> USE DEF IInv
<1>1. /\ job[m].pc = "returned"
      /\ UNCHANGED <<team, layers, layer, taken, outputs, outcome, perAgent, used, hop,
                     backHop, cancelled, aborted, phase, faults, rerun, reworks>>
  BY DEF ReviewReturned, setup, history
<1>2. job[m] \in JobType /\ job[m].left \subseteq Reviews(m)
  BY DEF TypeOK, Parts, JobsOK, Fits
<1>3. backHop' \in [Agents -> {"none", "running"} \cup Settled]
  BY <1>1 DEF TypeOK
<1>4. PICK rest : rest = IF job[m].res = "ok" THEN job[m].left
                         ELSE job[m].left \ {First(job[m].left)}
  OBVIOUS
<1>5. PICK J : J = [job[m] EXCEPT !.pc = "deciding", !.left = rest]
  OBVIOUS
<1>6. rest \subseteq job[m].left
  BY <1>4
<1>7. J \in JobType /\ J.pc = "deciding" /\ J.left = rest
  BY <1>2, <1>5, <1>6 DEF JobType
<1>8. job' = [job EXCEPT ![m] = J]
  BY <1>4, <1>5 DEF ReviewReturned
<1>9. \A n \in Agents : Counts(n, J)
  BY <1>7 DEF Counts
<1>10. J.left \subseteq Reviews(m)
  BY <1>2, <1>6, <1>7
<1> QED BY <1>1, <1>3, <1>7, <1>8, <1>9, <1>10, LeaveKeeps

(* An exception ends the job, whatever it was doing.                        *)
LEMMA OpenThrowsKeeps ==
    ASSUME IInv, NEW m \in Agents, OpenThrows(m)
    PROVE  IInv'
<1> USE DEF IInv
<1>1. /\ job[m].pc \in {"collect", "asking", "target"} /\ Fault /\ phase' = "threw"
      /\ job' = [job EXCEPT ![m] = [@ EXCEPT !.pc = "done", !.res = "threw"]]
      /\ UNCHANGED <<team, layers, layer, taken, outputs, outcome, perAgent, used,
                     backHop, cancelled, aborted, rerun, reworks>>
  BY DEF OpenThrows, setup, history
<1>2. job[m] \in JobType /\ job[m].left \subseteq Reviews(m)
  BY DEF TypeOK, Parts, JobsOK, Fits
<1>3. PICK J : J = [job[m] EXCEPT !.pc = "done", !.res = "threw"]
  OBVIOUS
<1>4. J \in JobType /\ J.pc = "done" /\ J.res = "threw" /\ J.left = job[m].left
  BY <1>2, <1>3 DEF JobType
<1>5. job' = [job EXCEPT ![m] = J]
  BY <1>1, <1>3
<1>6. Fits(m, J) /\ Active(m) /\ ~AtWork(J) /\ \A n \in Agents : Counts(n, J)
  BY <1>1, <1>2, <1>4 DEF Fits, Active, AtWork, Counts
<1>7. /\ hop' \in [Edges -> HopStates]
      /\ \A e \in Edges : hop[e] \in Settled => hop'[e] \in Settled
  <2>1. CASE hop' = hop
    BY <2>1, HopsStay
  <2>2. CASE \E e \in OutOf(job[m].node) :
                hop' = [d \in Edges |-> IF d \in OutOf(job[m].node) /\ d < e
                                        THEN Start(hop[d]) ELSE hop[d]]
    <3>1. PICK e \in OutOf(job[m].node) :
                hop' = [d \in Edges |-> IF d \in OutOf(job[m].node) /\ d < e
                                        THEN Start(hop[d]) ELSE hop[d]]
      BY <2>2
    <3>2. PICK S : S = {d \in OutOf(job[m].node) : d < e}
      OBVIOUS
    <3>3. hop' = [d \in Edges |-> IF d \in S THEN Start(hop[d]) ELSE hop[d]]
      BY <3>1, <3>2
    <3> QED BY <3>3, Starts
  <2> QED BY <2>1, <2>2 DEF OpenThrows
<1>8. backHop' \in [Agents -> {"none", "running"} \cup Settled]
  BY <1>1 DEF TypeOK
<1> QED BY <1>1, <1>4, <1>5, <1>6, <1>7, <1>8, FaultType, QuietKeeps

(* A member is run again, by the job of a reviewer.                         *)
LEMMA RunAgain ==
    ASSUME IInv, NEW m \in Agents, job[m].pc \in {"returned", "target"},
           NEW n \in Agents, NEW why \in {"rework", "review"}, Run(m, n, why),
           why = "review" => n = m,
           why = "rework" => job[m].left # {} /\ n = Goal(job[m]).to,
           UNCHANGED <<team, layers, layer, taken, outputs, outcome, perAgent, hop,
                       cancelled, aborted, phase, faults>>,
           backHop' \in [Agents -> {"none", "running"} \cup Settled],
           used' \in [Agents -> Nat], reworks' \in [Agents -> Nat], Counted'
    PROVE  IInv'
<1> USE DEF IInv
<1>1. job[m] \in JobType /\ job[m].left \subseteq Reviews(m) /\ Active(m)
  BY DEF TypeOK, Parts, JobsOK, Fits, Active
<1>2. PICK J : J = [job[m] EXCEPT !.pc = "collect", !.node = n, !.phase = why,
                                  !.todo = Into(n)]
  OBVIOUS
<1>3. Into(n) \in SUBSET Edges
  BY DEF Into
<1>4. /\ J \in JobType /\ J.pc = "collect" /\ J.node = n /\ J.phase = why
      /\ J.todo = Into(n) /\ J.left = job[m].left
  BY <1>1, <1>2, <1>3 DEF JobType
<1>5. job' = [job EXCEPT ![m] = J]
  BY <1>2 DEF Run
<1>6. Moves(m, J)
  BY <1>4, <1>5 DEF Moves, Stopped
<1>7. Fits(m, J)
  BY <1>1, <1>4 DEF Fits, Goal
<1>8. rerun' = rerun \cup {n}
  BY DEF Run
<1>9. /\ hop' \in [Edges -> HopStates] /\ backHop' \in [Agents -> {"none", "running"} \cup Settled]
      /\ faults' \in 0..MaxFaults
  BY HopsStay DEF TypeOK
<1>10. TypeOK'
  BY <1>6, <1>8, <1>9, TypesStep DEF TypeOK, HopStates
<1>11. JobsOK' /\ LayersOK' /\ phase' # "returned"
  BY <1>1, <1>6, <1>7, JobsStep DEF Parts
<1>12. Ended'
  <2>1. m \in taken /\ ~Working(m)
    BY <1>1 DEF Parts, JobsOK, Working
  <2>2. \/ outcome[m] # None \/ Stopped \/ (Threw(m) /\ ~Active(m))
        \/ (Working(m) /\ job[m].phase = "own")
    BY <2>1 DEF Parts, Ended
  <2>3. outcome'[m] # None \/ Stopped'
    BY <2>1, <2>2, <1>1 DEF Stopped
  <2>4. \A w \in Agents : outcome'[w] = "ok" => outputs'[w] # None
    BY DEF Parts, Ended
  <2> QED BY <2>3, <2>4, <1>1, <1>6, EndedStep DEF Parts
<1>13. HandedOver'
  <2>1. \A e \in Edges : J.node = team.forward[e].to => e \in J.todo
    BY <1>4 DEF Into
  <2> QED BY <2>1, <1>6, <1>11, HandedOverStep DEF Parts
<1>14. FirstText'
  <2>1. J.node \in rerun'
    BY <1>4, <1>8
  <2> QED BY <2>1, <1>1, <1>6, <1>8, FirstTextStep DEF Parts
<1> QED BY <1>10, <1>11, <1>12, <1>13, <1>14 DEF Parts

LEMMA SendBackKeeps ==
    ASSUME IInv, NEW m \in Agents, SendBack(m)
    PROVE  IInv'
<1> USE DEF IInv
<1>1. PICK n : n = Target(m).to
  OBVIOUS
<1>2. /\ job[m].pc = "target" /\ backHop' = [backHop EXCEPT ![m] = "running"]
      /\ used' = [used EXCEPT ![n] = job[m].seen + 1]
      /\ reworks' = [reworks EXCEPT ![n] = reworks[n] + 1]
      /\ Run(m, n, "rework")
      /\ UNCHANGED <<team, layers, layer, taken, outputs, outcome, perAgent, hop,
                     cancelled, aborted, phase, faults>>
  BY <1>1 DEF SendBack, setup
<1>3. job[m] \in JobType /\ Fits(m, job[m]) /\ Active(m)
  BY <1>2 DEF TypeOK, Parts, JobsOK, Active
<1>4. job[m].left # {} /\ job[m].left \subseteq Reviews(m) /\ job[m].seen \in Nat
  BY <1>2, <1>3 DEF Fits, JobType
<1>5. /\ Goal(job[m]) \in Review /\ n = Goal(job[m]).to /\ m \in ReviewersOf(n)
      /\ Goal(job[m]).budget \in BudgetOf(n)
  BY <1>1, <1>4, GoalOf DEF Goal, Target
<1>6. n \in Agents /\ Goal(job[m]).budget \in Nat
  BY <1>5 DEF Review
<1>7. /\ backHop' \in [Agents -> {"none", "running"} \cup Settled]
      /\ used' \in [Agents -> Nat] /\ reworks' \in [Agents -> Nat]
  BY <1>2, <1>4, <1>6, SMTT(30) DEF TypeOK
<1>8. \A w \in Agents : job'[w].pc = "target" => w # m /\ job'[w] = job[w]
  <2>1. PICK J : J = [job[m] EXCEPT !.pc = "collect", !.node = n, !.phase = "rework",
                                    !.todo = Into(n)]
    OBVIOUS
  <2>2. J.pc = "collect"
    BY <2>1, <1>3 DEF JobType
  <2>3. job' = [job EXCEPT ![m] = J]
    BY <2>1, <1>2 DEF Run
  <2> QED BY <2>2, <2>3 DEF TypeOK
<1>9. Counted'
  <2> SUFFICES ASSUME NEW k \in Agents, ~Contended(k)
               PROVE  /\ used'[k] = reworks'[k]
                      /\ reworks'[k] = 0 \/ \E b \in BudgetOf(k) : reworks'[k] <= b
                      /\ \A w \in Agents : Counts(k, job[w])'
    BY <1>2, SameTeam DEF Counted
  <2>1. /\ used[k] = reworks[k] /\ Counts(k, job[m])
        /\ reworks[k] = 0 \/ \E b \in BudgetOf(k) : reworks[k] <= b
        /\ \A w \in Agents : Counts(k, job[w])
    BY DEF Parts, Counted
  <2>2. CASE k = n
    <3>1. job[m].seen = used[n] /\ used[n] < Goal(job[m]).budget
      BY <2>1, <2>2, <1>2, <1>5 DEF Counts
    <3>2. used'[n] = used[n] + 1 /\ reworks'[n] = reworks[n] + 1 /\ used[n] \in Nat
      BY <3>1, <1>2, <1>6 DEF TypeOK
    <3>3. used'[k] = reworks'[k]
      BY <2>1, <2>2, <3>2
    <3>4. \E b \in BudgetOf(k) : reworks'[k] <= b
      <4>1. reworks'[n] <= Goal(job[m]).budget
        BY <2>1, <2>2, <3>1, <3>2, <1>6
      <4> QED BY <4>1, <2>2, <1>5
    <3>5. ASSUME NEW w \in Agents, job'[w].pc = "target", Goal(job'[w]).to = k
          PROVE  FALSE
      <4>1. w # m /\ job[w].pc = "target" /\ Goal(job[w]).to = k
        BY <3>5, <1>8
      <4>2. Active(w) /\ Fits(w, job[w])
        BY <4>1 DEF Active, Parts, JobsOK
      <4>3. w \in ReviewersOf(k)
        BY <4>1, <4>2, GoalOf DEF Fits
      <4>4. w = m
        BY <4>2, <4>3, <2>2, <1>3, <1>5, Meet DEF Parts
      <4> QED BY <4>1, <4>4
    <3>6. \A w \in Agents : Counts(k, job[w])'
      BY <3>5, <1>2 DEF Counts, Goal
    <3> QED BY <3>3, <3>4, <3>6
  <2>3. CASE k # n
    <3>1. used'[k] = used[k] /\ reworks'[k] = reworks[k]
      BY <2>3, <1>2 DEF TypeOK
    <3>2. \A w \in Agents : Counts(k, job[w])'
      BY <2>1, <3>1, <1>2, <1>8 DEF Counts, Goal
    <3> QED BY <2>1, <3>1, <3>2
  <2> QED BY <2>2, <2>3
<1> QED BY <1>2, <1>4, <1>5, <1>6, <1>7, <1>9, RunAgain

LEMMA ReworkReturnedKeeps ==
    ASSUME IInv, NEW m \in Agents, ReworkReturned(m)
    PROVE  IInv'
<1> USE DEF IInv
<1>1. /\ job[m].pc = "returned" /\ job[m].phase = "rework"
      /\ backHop' = [backHop EXCEPT ![m] = BackStatus(job[m].res)]
      /\ UNCHANGED <<team, layers, layer, taken, outputs, outcome, perAgent, used, hop,
                     cancelled, aborted, phase, faults, reworks>>
  BY DEF ReworkReturned, setup
<1>2. job[m] \in JobType /\ job[m].left \subseteq Reviews(m)
  BY DEF TypeOK, Parts, JobsOK, Fits
<1>3. backHop' \in [Agents -> {"none", "running"} \cup Settled]
  <2>1. BackStatus(job[m].res) \in Settled
    BY <1>2, StatusSettles DEF JobType
  <2> QED BY <2>1, <1>1 DEF TypeOK
<1>4. CASE Run(m, m, "review")
  <2>1. PICK J : J = [job[m] EXCEPT !.pc = "collect", !.node = m, !.phase = "review",
                                    !.todo = Into(m)]
    OBVIOUS
  <2>2. Into(m) \in SUBSET Edges
    BY DEF Into
  <2>3. J \in JobType /\ J.pc = "collect"
    BY <2>1, <2>2, <1>2 DEF JobType
  <2>4. job' = [job EXCEPT ![m] = J]
    BY <2>1, <1>4 DEF Run
  <2>5. Moves(m, J)
    BY <2>3, <2>4, <1>1 DEF Moves, Stopped
  <2>6. \A n \in Agents : Counts(n, J)
    BY <2>3 DEF Counts
  <2>7. Counted'
    BY <2>5, <2>6, <1>1, CountedStep DEF Parts
  <2>8. used' \in [Agents -> Nat] /\ reworks' \in [Agents -> Nat]
    BY <1>1 DEF TypeOK
  <2> QED BY <2>7, <2>8, <1>1, <1>3, <1>4, RunAgain
<1>5. CASE /\ job' = [job EXCEPT ![m] = [@ EXCEPT !.pc = "deciding",
                                          !.left = job[m].left \ {First(job[m].left)}]]
           /\ rerun' = rerun
  <2>1. PICK J : J = [job[m] EXCEPT !.pc = "deciding",
                                    !.left = job[m].left \ {First(job[m].left)}]
    OBVIOUS
  <2>2. /\ J \in JobType /\ J.pc = "deciding"
        /\ J.left = job[m].left \ {First(job[m].left)}
    BY <2>1, <1>2 DEF JobType
  <2>3. job' = [job EXCEPT ![m] = J]
    BY <2>1, <1>5
  <2>4. \A n \in Agents : Counts(n, J)
    BY <2>2 DEF Counts
  <2>5. J.left \subseteq Reviews(m)
    BY <2>2, <1>2
  <2> QED BY <1>1, <1>3, <1>5, <2>2, <2>3, <2>4, <2>5, LeaveKeeps
<1> QED BY <1>4, <1>5 DEF ReworkReturned

(* A worker takes a member, whose first run begins without a text.          *)
LEMMA TakeKeeps ==
    ASSUME IInv, NEW m \in Agents, Take(m)
    PROVE  IInv'
<1> USE DEF IInv
<1>1. /\ phase = "running" /\ layer > 0 /\ m \in Layer /\ m \notin taken
      /\ taken' = taken \cup {m}
      /\ UNCHANGED <<team, layers, layer, outputs, outcome, used, hop, backHop, cancelled,
                     aborted, phase, faults, reworks>>
  BY DEF Take, IsNext, setup
<1>2. layer \in DOMAIN layers
  BY <1>1, LayersApart DEF TypeOK
<1>3. job[m] \in JobType /\ job[m].left \subseteq Reviews(m)
  BY DEF TypeOK, Parts, JobsOK, Fits
<1>4. outputs[m] = None \/ m \in rerun
  <2>1. ASSUME NEW j \in DOMAIN layers, j < layer
        PROVE  m \notin layers[j]
    <3>1. layers[j] \cap layers[layer] = {}
      BY <2>1, <1>2, LayersApart DEF TypeOK
    <3> QED BY <3>1, <1>1 DEF Layer
  <2> QED BY <2>1, <1>1 DEF Parts, FirstText
<1>5. ASSUME NEW J \in JobType, job' = [job EXCEPT ![m] = J], Fits(m, J), rerun' = rerun,
             \/ J.pc = "done" /\ Stopped
             \/ J.pc = "collect" /\ J.node = m /\ J.phase = "own" /\ J.todo = Into(m),
             perAgent' \in [Agents -> Outcomes \cup {None}]
      PROVE  IInv'
  <2>1. \A n \in Agents : job'[n] = IF n = m THEN J ELSE job[n]
    BY <1>5 DEF TypeOK
  <2>2. TypeOK'
    <3>1. Edges' = Edges /\ JobType' = JobType
      BY <1>1, SameTeam
    <3>2. job' \in [Agents -> JobType]
      BY <1>5 DEF TypeOK
    <3>3. taken' \subseteq Agents
      BY <1>1 DEF TypeOK
    <3> QED BY <3>1, <3>2, <3>3, <1>1, <1>5 DEF TypeOK
  <2>3. JobsOK'
    <3> SUFFICES ASSUME NEW n \in Agents
                 PROVE  /\ Active(n)' => n \in taken'
                        /\ Fits(n, job'[n])
      BY <1>1, <1>2, SameTeam DEF JobsOK
    <3> QED BY <2>1, <1>1, <1>5 DEF Parts, JobsOK, Active
  <2>4. LayersOK'
    BY <1>1 DEF Parts, LayersOK, Layer
  <2>5. Counted'
    <3> SUFFICES ASSUME NEW n \in Agents, ~Contended(n)
                 PROVE  /\ used[n] = reworks[n]
                        /\ reworks[n] = 0 \/ \E b \in BudgetOf(n) : reworks[n] <= b
                        /\ \A w \in Agents : Counts(n, job[w])'
      BY <1>1, SameTeam DEF Counted
    <3>1. \A w \in Agents : Counts(n, job'[w])
      BY <2>1, <1>5 DEF Parts, Counted, Counts
    <3>2. \A w \in Agents : Counts(n, job[w])'
      BY <3>1, <1>1 DEF Counts, Goal
    <3> QED BY <3>2 DEF Parts, Counted
  <2>6. Ended'
    <3>1. ASSUME NEW n \in taken'
          PROVE  \/ outcome'[n] # None \/ Stopped' \/ (Threw(n) /\ ~Active(n))'
                 \/ (Working(n) /\ job[n].phase = "own")'
      <4>1. n \in Agents
        BY <3>1, <2>2 DEF TypeOK
      <4>2. CASE n = m
        <5>1. job'[n] = J
          BY <4>1, <4>2, <2>1
        <5> QED BY <5>1, <1>1, <1>5 DEF Working, Stopped
      <4>3. CASE n # m
        <5>1. job'[n] = job[n] /\ n \in taken
          BY <4>1, <4>3, <3>1, <2>1, <1>1
        <5>2. \/ outcome[n] # None \/ Stopped \/ (Threw(n) /\ ~Active(n))
              \/ (Working(n) /\ job[n].phase = "own")
          BY <5>1 DEF Parts, Ended
        <5> QED BY <5>1, <5>2, <1>1 DEF Working, Threw, Active, Stopped
      <4> QED BY <4>2, <4>3
    <3> QED BY <3>1, <1>1 DEF Parts, Ended
  <2>7. HandedOver'
    <3> SUFFICES ASSUME NEW e \in Edges, Planned(e)
                 PROVE  /\ outcome[team.forward[e].to] = "ok" => hop[e] \in Settled
                        /\ \A w \in Agents :
                             (Working(w) /\ job[w].node = team.forward[e].to
                              /\ e \notin job[w].todo)' => hop[e] \in Settled
      BY <1>1, SameTeam DEF HandedOver
    <3>1. ASSUME NEW w \in Agents, AtWork(job'[w]), job'[w].node = team.forward[e].to,
                 e \notin job'[w].todo
          PROVE  hop[e] \in Settled
      <4>1. CASE w = m
        BY <4>1, <3>1, <2>1, <1>5 DEF Into, AtWork
      <4>2. CASE w # m
        BY <4>2, <3>1, <2>1 DEF Parts, HandedOver, Working, AtWork
      <4> QED BY <4>1, <4>2
    <3> QED BY <3>1, <1>1 DEF Parts, HandedOver, Working, AtWork
  <2>8. FirstText'
    <3> SUFFICES ASSUME NEW n \in Agents, n \notin rerun
                 PROVE  /\ outputs[n] # None => outcome[n] = "ok"
                        /\ n \notin taken' /\ (\A j \in DOMAIN layers : j < layer => n \notin layers[j])
                           => outputs[n] = None
                        /\ \A w \in Agents : (Working(w) /\ job[w].node = n)'
                                             => job'[w].phase = "own" /\ outputs[n] = None
      BY <1>1, <1>5 DEF FirstText
    <3>1. ASSUME NEW w \in Agents, AtWork(job'[w]), job'[w].node = n
          PROVE  job'[w].phase = "own" /\ outputs[n] = None
      <4>1. CASE w = m
        BY <4>1, <3>1, <2>1, <1>4, <1>5 DEF AtWork
      <4>2. CASE w # m
        BY <4>2, <3>1, <2>1 DEF Parts, FirstText, Working, AtWork
      <4> QED BY <4>1, <4>2
    <3> QED BY <3>1, <1>1 DEF Parts, FirstText, Working, AtWork
  <2> QED BY <2>2, <2>3, <2>4, <2>5, <2>6, <2>7, <2>8 DEF Parts
<1>6. CASE /\ Stopped /\ perAgent' = [perAgent EXCEPT ![m] = "aborted"]
           /\ MoveTo(m, "done") /\ rerun' = rerun
  <2>1. PICK J : J = [job[m] EXCEPT !.pc = "done"]
    OBVIOUS
  <2>2. J \in JobType /\ J.pc = "done" /\ J.left = job[m].left
    BY <2>1, <1>3 DEF JobType
  <2>3. job' = [job EXCEPT ![m] = J]
    BY <2>1, <1>6 DEF MoveTo
  <2>4. Fits(m, J)
    BY <2>2, <1>3 DEF Fits
  <2>5. perAgent' \in [Agents -> Outcomes \cup {None}]
    BY <1>6 DEF TypeOK, Outcomes
  <2> QED BY <2>2, <2>3, <2>4, <2>5, <1>5, <1>6
<1>7. CASE Run(m, m, "own") /\ perAgent' = perAgent
  <2>1. PICK J : J = [job[m] EXCEPT !.pc = "collect", !.node = m, !.phase = "own",
                                    !.todo = Into(m)]
    OBVIOUS
  <2>2. Into(m) \in SUBSET Edges
    BY DEF Into
  <2>3. /\ J \in JobType /\ J.pc = "collect" /\ J.node = m /\ J.phase = "own"
        /\ J.todo = Into(m) /\ J.left = job[m].left
    BY <2>1, <2>2, <1>3 DEF JobType
  <2>4. job' = [job EXCEPT ![m] = J]
    BY <2>1, <1>7 DEF Run
  <2>5. Fits(m, J)
    BY <2>3, <1>3 DEF Fits
  <2>6. rerun' = rerun
    BY <1>7 DEF Run
  <2>7. perAgent' \in [Agents -> Outcomes \cup {None}]
    BY <1>7 DEF TypeOK
  <2> QED BY <2>3, <2>4, <2>5, <2>6, <2>7, <1>5
<1> QED BY <1>6, <1>7 DEF Take

(* The run ends: every hand-over that was read is settled already.          *)
LEMMA CloseKeeps ==
    ASSUME IInv, NEW stopped \in BOOLEAN, aborted => stopped, Close(stopped),
           \A m \in Agents : ~Active(m),
           UNCHANGED <<team, layers, layer, taken, job, outputs, outcome, used, backHop,
                       cancelled, rerun, reworks>>
    PROVE  IInv'
<1> USE DEF IInv
<1>1. phase' \in {"returned", "threw"} /\ aborted' = stopped
  BY DEF Close
<1>2. /\ hop' \in [Edges -> HopStates]
      /\ \A e \in Edges : hop[e] \in Settled => hop'[e] \in Settled
      /\ phase' = "returned" =>
            \A e \in Edges : outcome[team.forward[e].to] # "ok" => hop'[e] \in Settled
  <2>1. ASSUME NEW e \in Edges
        PROVE  /\ hop[e] \in HopStates /\ Sweep(e) \in HopStates
               /\ hop[e] \in Settled => Sweep(e) \in Settled
               /\ outcome[team.forward[e].to] # "ok" => Sweep(e) \in Settled
    <3>1. SweepStatus(e) \in Settled /\ hop[e] \in HopStates
      BY StatusSettles DEF TypeOK, HopStates
    <3>2. /\ Open(hop[e]) \in HopStates /\ (hop[e] \in Settled => Open(hop[e]) \in Settled)
          /\ Settle(hop[e], SweepStatus(e)) \in Settled
      BY <3>1, HopMoves
    <3> QED BY <3>1, <3>2 DEF HopStates, Sweep
  <2>2. CASE phase' = "returned"
    <3>1. hop' = [e \in Edges |-> Sweep(e)]
      BY <2>2 DEF Close
    <3>2. \A e \in Edges : hop'[e] = Sweep(e)
      BY <3>1
    <3> QED BY <2>1, <3>1, <3>2
  <2>3. CASE phase' = "threw"
    <3>1. PICK e \in Edges : hop' = [d \in Edges |-> IF d < e THEN Sweep(d) ELSE hop[d]]
      BY <2>3 DEF Close
    <3>2. \A d \in Edges : hop'[d] = IF d < e THEN Sweep(d) ELSE hop[d]
      BY <3>1
    <3> QED BY <2>1, <2>3, <3>1, <3>2
  <2> QED BY <1>1, <2>2, <2>3
<1>3. TypeOK'
  <2>1. Edges' = Edges /\ JobType' = JobType
    BY SameTeam
  <2>2. perAgent' \in [Agents -> Outcomes \cup {None}]
    BY DEF Close, TypeOK, Outcomes
  <2>3. faults' \in 0..MaxFaults
    BY TeamAssumption DEF Close, Fault, TypeOK
  <2> QED BY <2>1, <2>2, <2>3, <1>1, <1>2 DEF TypeOK, HopStates
<1>4. JobsOK' /\ LayersOK'
  BY SameTeam DEF Parts, JobsOK, LayersOK, Active, Layer
<1>5. Counted'
  <2>1. \A n, m \in Agents : Counts(n, job[m])' <=> Counts(n, job[m])
    BY DEF Counts, Goal
  <2> QED BY <2>1, SameTeam DEF Parts, Counted
<1>6. Ended'
  <2>1. Stopped => Stopped'
    BY <1>1 DEF Stopped
  <2>2. \A n \in taken : outcome[n] # None \/ Stopped' \/ (Threw(n) /\ ~Active(n))'
    <3> SUFFICES ASSUME NEW n \in taken
                 PROVE  outcome[n] # None \/ Stopped' \/ (Threw(n) /\ ~Active(n))'
      OBVIOUS
    <3>1. ~Working(n)
      BY DEF TypeOK, Working, Active
    <3>2. outcome[n] # None \/ Stopped \/ (Threw(n) /\ ~Active(n))
      BY <3>1 DEF Parts, Ended
    <3> QED BY <3>2, <2>1 DEF Threw, Active
  <2> QED BY <2>2 DEF Parts, Ended
<1>7. HandedOver'
  <2>1. \A w \in Agents : ~Working(w)'
    BY DEF Working, Active
  <2>2. ASSUME NEW e \in Edges, Planned(e)
        PROVE  /\ outcome[team.forward[e].to] = "ok" => hop'[e] \in Settled
               /\ phase' = "returned" => hop'[e] \in Settled
    <3>1. outcome[team.forward[e].to] = "ok" => hop[e] \in Settled
      BY <2>2 DEF Parts, HandedOver
    <3> QED BY <3>1, <1>2
  <2> QED BY <2>1, <2>2, SameTeam DEF HandedOver
<1>8. FirstText'
  BY DEF Parts, FirstText, Working
<1> QED BY <1>3, <1>4, <1>5, <1>6, <1>7, <1>8 DEF Parts

(* The next layer begins when all of this one have ended.                   *)
LEMMA LayerEndsKeeps ==
    ASSUME IInv, LayerEnds
    PROVE  IInv'
<1> USE DEF IInv
<1>1. /\ phase = "running" /\ (layer > 0 => taken = Layer)
      /\ \A m \in Agents : ~Active(m) /\ ~Threw(m)
      /\ UNCHANGED <<team, layers, job, outputs, outcome, used, backHop, cancelled, rerun,
                     reworks>>
  BY DEF LayerEnds, setup, history
<1>2. CASE Close(aborted) /\ UNCHANGED <<layer, taken>>
  <2>1. aborted \in BOOLEAN
    BY DEF TypeOK
  <2> QED BY <2>1, <1>1, <1>2, CloseKeeps
<1>3. CASE Close(TRUE) /\ UNCHANGED <<layer, taken>>
  BY <1>1, <1>3, CloseKeeps
<1>4. CASE /\ layer < Len(layers) /\ ~Stopped /\ layer' = layer + 1 /\ taken' = {}
           /\ UNCHANGED <<aborted, perAgent, phase, hop, faults>>
  <2>1. Len(layers) \in Nat /\ DOMAIN layers = 1..Len(layers) /\ layer \in Nat
    BY LayersApart DEF TypeOK
  <2>2. TypeOK'
    <3>1. Edges' = Edges /\ JobType' = JobType
      BY <1>1, SameTeam
    <3>2. layer' \in 0..Len(layers)
      BY <2>1, <1>4
    <3> QED BY <3>1, <3>2, <1>1, <1>4 DEF TypeOK
  <2>3. JobsOK' /\ LayersOK'
    <3>1. \A n \in Agents : Fits(n, job[n])' <=> Fits(n, job[n])
      BY <1>1 DEF Fits, Goal, Reviews
    <3>2. JobsOK'
      BY <3>1, <1>1 DEF Parts, JobsOK, Active
    <3>3. LayersOK'
      BY <1>1, <1>4 DEF LayersOK
    <3> QED BY <3>2, <3>3
  <2>4. Counted'
    <3>1. \A n, m \in Agents : Counts(n, job[m])' <=> Counts(n, job[m])
      BY <1>1 DEF Counts, Goal
    <3> QED BY <3>1, <1>1, SameTeam DEF Parts, Counted
  <2>5. Ended'
    <3>1. ASSUME NEW j \in DOMAIN layers, j < layer + 1, NEW n \in layers[j]
          PROVE  outcome[n] # None
      <4>1. CASE j < layer
        BY <4>1 DEF Parts, Ended
      <4>2. CASE ~(j < layer)
        <5>1. j = layer /\ layer > 0
          BY <4>2, <3>1, <2>1
        <5>2. n \in taken /\ n \in Agents
          BY <5>1, <3>1, <1>1, LayersApart DEF Layer, TypeOK
        <5>3. ~Working(n) /\ ~Threw(n)
          BY <5>2, <1>1 DEF Working, Active
        <5> QED BY <5>2, <5>3, <1>4 DEF Parts, Ended
      <4> QED BY <4>1, <4>2
    <3> QED BY <3>1, <1>1, <1>4 DEF Parts, Ended
  <2>6. HandedOver'
    <3>1. \A w \in Agents : ~Working(w)'
      BY <1>1 DEF Working, Active
    <3> QED BY <3>1, <1>1, <1>4, SameTeam DEF Parts, HandedOver
  <2>7. FirstText'
    <3> SUFFICES ASSUME NEW n \in Agents, n \notin rerun
                 PROVE  /\ outputs[n] # None => outcome[n] = "ok"
                        /\ (\A j \in DOMAIN layers : j < layer + 1 => n \notin layers[j])
                           => outputs[n] = None
                        /\ \A w \in Agents : ~Working(w)'
      BY <1>1, <1>4 DEF FirstText
    <3>1. \A w \in Agents : ~Working(w)'
      BY <1>1 DEF Working, Active
    <3>2. ASSUME \A j \in DOMAIN layers : j < layer + 1 => n \notin layers[j]
          PROVE  outputs[n] = None
      <4>1. \A j \in DOMAIN layers : j < layer => n \notin layers[j]
        BY <3>2, <2>1
      <4>2. n \notin taken
        <5>1. CASE layer = 0
          BY <5>1 DEF Parts, LayersOK
        <5>2. CASE layer # 0
          <6>1. layer > 0 /\ layer \in DOMAIN layers /\ layer < layer + 1
            BY <5>2, <2>1, <1>4
          <6> QED BY <6>1, <3>2, <1>1 DEF Layer
        <5> QED BY <5>1, <5>2
      <4> QED BY <4>1, <4>2 DEF Parts, FirstText
    <3> QED BY <3>1, <3>2 DEF Parts, FirstText
  <2> QED BY <2>2, <2>3, <2>4, <2>5, <2>6, <2>7 DEF Parts
<1> QED BY <1>2, <1>3, <1>4 DEF LayerEnds

LEMMA CancelKeeps ==
    ASSUME IInv, Cancel
    PROVE  IInv'
<1> USE DEF IInv
<1>1. /\ cancelled' = TRUE
      /\ UNCHANGED <<team, layers, layer, taken, job, outputs, outcome, perAgent, used, hop,
                     backHop, aborted, phase, faults, rerun, reworks>>
  BY DEF Cancel, setup, history
<1>2. TypeOK'
  <2>1. Edges' = Edges /\ JobType' = JobType
    BY <1>1, SameTeam
  <2> QED BY <2>1, <1>1 DEF TypeOK
<1>3. JobsOK' /\ LayersOK'
  BY <1>1, SameTeam DEF Parts, JobsOK, LayersOK, Active, Layer
<1>4. Counted'
  <2>1. \A n, m \in Agents : Counts(n, job[m])' <=> Counts(n, job[m])
    BY <1>1 DEF Counts, Goal
  <2> QED BY <2>1, <1>1, SameTeam DEF Parts, Counted
<1>5. Ended'
  <2>1. Stopped'
    BY <1>1 DEF Stopped
  <2> QED BY <2>1, <1>1 DEF Parts, Ended
<1>6. HandedOver'
  BY <1>1, SameTeam DEF Parts, HandedOver, Working
<1>7. FirstText'
  BY <1>1 DEF Parts, FirstText, Working
<1> QED BY <1>2, <1>3, <1>4, <1>5, <1>6, <1>7 DEF Parts

LEMMA StutterKeeps ==
    ASSUME IInv, UNCHANGED vars
    PROVE  IInv'
<1> USE DEF IInv
<1>1. UNCHANGED <<team, layers, layer, taken, job, outputs, outcome, perAgent, used, hop,
                  backHop, cancelled, aborted, phase, faults, rerun, reworks>>
  BY DEF vars
<1>2. TypeOK'
  <2>1. Edges' = Edges /\ JobType' = JobType
    BY <1>1, SameTeam
  <2> QED BY <2>1, <1>1 DEF TypeOK
<1>3. JobsOK' /\ LayersOK'
  BY <1>1, SameTeam DEF Parts, JobsOK, LayersOK, Active, Layer
<1>4. Counted'
  <2>1. \A n, m \in Agents : Counts(n, job[m])' <=> Counts(n, job[m])
    BY <1>1 DEF Counts, Goal
  <2> QED BY <2>1, <1>1, SameTeam DEF Parts, Counted
<1>5. Ended'
  BY <1>1 DEF Parts, Ended, Stopped, Threw, Active, Working
<1>6. HandedOver'
  BY <1>1, SameTeam DEF Parts, HandedOver, Working
<1>7. FirstText'
  BY <1>1 DEF Parts, FirstText, Working
<1> QED BY <1>2, <1>3, <1>4, <1>5, <1>6, <1>7 DEF Parts

LEMMA NextKeeps ==
    ASSUME IInv, [Next]_vars
    PROVE  IInv'
<1>1. ASSUME NEW m \in Agents, Step(m)
      PROVE  IInv'
  BY <1>1, TakeKeeps, CollectKeeps, LookupKeeps, DecidedKeeps, AttemptKeeps,
     OwnReturnedKeeps, DecideKeeps, SendBackKeeps, ReworkReturnedKeeps, ReviewReturnedKeeps
     DEF Step, Proceeds
<1>2. ASSUME NEW m \in Agents, OpenThrows(m)
      PROVE  IInv'
  BY <1>2, OpenThrowsKeeps
<1>3. CASE LayerEnds
  BY <1>3, LayerEndsKeeps
<1>4. CASE Cancel
  BY <1>4, CancelKeeps
<1>5. CASE UNCHANGED vars
  BY <1>5, StutterKeeps
<1> QED BY <1>1, <1>2, <1>3, <1>4, <1>5 DEF Next

LEMMA InitIInv ==
    ASSUME Init
    PROVE  IInv
<1>1. /\ Idle.pc = "waiting" /\ Idle.node = None /\ Idle.phase = "own" /\ Idle.todo = {}
      /\ Idle.left = {} /\ Idle.res = None
  BY DEF Idle
<1>2. Idle \in JobType
  BY DEF Idle, JobType
<1>3. \A n \in Agents : /\ job[n] = Idle /\ outputs[n] = None /\ outcome[n] = None
                        /\ used[n] = 0 /\ reworks[n] = 0
  BY DEF Init
<1>4. Len(layers) \in Nat /\ DOMAIN layers = 1..Len(layers) /\ layer = 0 /\ taken = {}
  BY LayersApart DEF Init
<1>5. None # "ok"
  BY TeamAssumption DEF Outcomes
<1>6. TypeOK
  <2>1. job \in [Agents -> JobType]
    BY <1>2 DEF Init
  <2>2. faults \in 0..MaxFaults
    BY TeamAssumption DEF Init
  <2>3. team \in Teams /\ layers = LayersOf(team.forward)
    BY DEF Init
  <2>4. layer \in 0..Len(layers) /\ taken \subseteq Agents
    BY <1>4
  <2>5. /\ outputs \in [Agents -> {None, "pass", "reject"}]
        /\ outcome \in [Agents -> Outcomes \cup {None}]
        /\ perAgent \in [Agents -> Outcomes \cup {None}]
        /\ used \in [Agents -> Nat] /\ reworks \in [Agents -> Nat]
    BY DEF Init
  <2>6. /\ hop \in [Edges -> {"none", "pending", "running"} \cup Settled]
        /\ backHop \in [Agents -> {"none", "running"} \cup Settled]
    BY DEF Init
  <2>7. /\ cancelled \in BOOLEAN /\ aborted \in BOOLEAN /\ rerun \subseteq Agents
        /\ phase \in {"running", "returned", "threw"}
    BY DEF Init
  <2> QED BY <2>1, <2>2, <2>3, <2>4, <2>5, <2>6, <2>7 DEF TypeOK
<1>7. JobsOK /\ LayersOK
  BY <1>1, <1>3, <1>4 DEF JobsOK, LayersOK, Active, Fits, Init
<1>8. Counted
  BY <1>1, <1>3 DEF Counted, Counts
<1>9. Ended
  BY <1>3, <1>4, <1>5 DEF Ended
<1>10. HandedOver
  <2>1. \A e \in Edges : team.forward[e].to \in Agents
    BY <1>6, EdgeOf
  <2> QED BY <2>1, <1>1, <1>3, <1>5 DEF HandedOver, Working, Init
<1>11. FirstText
  BY <1>1, <1>3 DEF FirstText, Working
<1> QED BY <1>6, <1>7, <1>8, <1>9, <1>10, <1>11 DEF IInv, Parts

-----------------------------------------------------------------------------
(* The variables of a team's run always have their types: no layer is asked *)
(* for that does not exist, no row of a hop takes a state it cannot have    *)
(* (run-team-dag.ts:113-430).                                               *)
THEOREM TypeCorrect == Spec => []TypeOK
<1>1. Init => IInv
  BY InitIInv
<1>2. IInv /\ [Next]_vars => IInv'
  BY NextKeeps
<1>3. IInv => TypeOK
  BY DEF IInv
<1> QED BY <1>1, <1>2, <1>3, PTL DEF Spec

(* Nobody is sent back more often than a reviewer's budget allows, or run   *)
(* by two jobs at a time, whom only one job of each layer may run.          *)
THEOREM BudgetsHold == Spec => []ReworkBounded
<1>1. Init => IInv
  BY InitIInv
<1>2. IInv /\ [Next]_vars => IInv'
  BY NextKeeps
<1>3. ASSUME IInv
      PROVE  ReworkBounded
  <2> USE DEF IInv, Parts
  <2> SUFFICES ASSUME NEW n \in Agents, ~Contended(n)
               PROVE  /\ reworks[n] = 0 \/ \E b \in BudgetOf(n) : reworks[n] <= b
                      /\ \A v, w \in Agents :
                            /\ v # w /\ job[v].node = n /\ job[w].node = n
                            /\ job[v].pc \in {"collect", "asking", "calling"}
                            => job[w].pc \notin {"collect", "asking", "calling"}
    BY <1>3 DEF ReworkBounded
  <2>1. reworks[n] = 0 \/ \E b \in BudgetOf(n) : reworks[n] <= b
    BY <1>3 DEF Counted
  <2>2. ASSUME NEW v \in Agents, NEW w \in Agents, AtWork(job[v]), AtWork(job[w]),
               job[v].node = n, job[w].node = n
        PROVE  v = w
    <3>1. job[v] \in JobType /\ job[w] \in JobType
      BY <1>3 DEF TypeOK
    <3>2. Fits(v, job[v]) /\ Fits(w, job[w]) /\ Active(v) /\ Active(w)
      BY <1>3, <2>2 DEF JobsOK, Active, AtWork
    <3>3. v \in {n} \cup ReviewersOf(n) /\ w \in {n} \cup ReviewersOf(n)
      BY <1>3, <2>2, <3>1, <3>2, WhoRuns
    <3> QED BY <1>3, <3>2, <3>3, Meet
  <2> QED BY <2>1, <2>2 DEF AtWork
<1> QED BY <1>1, <1>2, <1>3, PTL DEF Spec

(* When the run returns, every hand-over from an earlier layer than its     *)
(* receiver's and its receiver's reviewers' has a final state.              *)
THEOREM HandoversEnd == Spec => []HandoversSettled
<1>1. Init => IInv
  BY InitIInv
<1>2. IInv /\ [Next]_vars => IInv'
  BY NextKeeps
<1>3. IInv => HandoversSettled
  BY DEF IInv, Parts, HandedOver, HandoversSettled, Planned
<1> QED BY <1>1, <1>2, <1>3, PTL DEF Spec

(* A hop that becomes done is one whose sender succeeded in its last run,   *)
(* or was run again.                                                        *)
DoneStep ==
    \A e \in Edges :
        LET from == team.forward[e].from
        IN  hop'[e] = "done" /\ hop[e] # "done" => outcome[from] = "ok" \/ from \in rerun

LEMMA DoneByCollect ==
    ASSUME IInv, NEW m \in Agents, Collect(m)
    PROVE  DoneStep
<1> USE DEF IInv
<1>1. PICK e : e = First(job[m].todo)
  OBVIOUS
<1>2. PICK from : from = team.forward[e].from
  OBVIOUS
<1>3. PICK X : X = IF team.forward[e].denied THEN Settle(Open(hop[e]), "denied")
                   ELSE IF outputs[from] # None THEN Settle(Open(hop[e]), "done")
                   ELSE IF outcome[from] \notin {None, "ok"}
                        THEN Settle(Open(hop[e]), FailStatus(outcome[from]))
                   ELSE Open(hop[e])
  OBVIOUS
<1>4. job[m].todo # {} /\ hop' = [hop EXCEPT ![e] = X]
  BY <1>1, <1>2, <1>3 DEF Collect
<1>5. e \in Edges
  <2>1. job[m].todo \in SUBSET Edges
    BY DEF TypeOK, JobType
  <2> QED BY <2>1, <1>1, <1>4, FirstEdge
<1>6. \A d \in Edges : hop'[d] = IF d = e THEN X ELSE hop[d]
  BY <1>4 DEF TypeOK
<1>7. from \in Agents /\ hop[e] \in HopStates /\ outcome[from] \in Outcomes \cup {None}
  BY <1>2, <1>5, EdgeOf DEF TypeOK, HopStates
<1>8. ASSUME X = "done", hop[e] # "done"
      PROVE  outcome[from] = "ok" \/ from \in rerun
  <2>1. Open(hop[e]) \in HopStates /\ Open(hop[e]) # "done"
    BY <1>7, <1>8, HopMoves
  <2>2. \A s \in Settled \ {"done"} : Settle(Open(hop[e]), s) # "done"
    BY <2>1, HopMoves
  <2>3. "denied" \in Settled \ {"done"} /\ FailStatus(outcome[from]) \in Settled \ {"done"}
    BY <1>7, StatusSettles DEF Settled
  <2>4. outputs[from] # None
    BY <2>1, <2>2, <2>3, <1>3, <1>8
  <2> QED BY <2>4, <1>7 DEF Parts, FirstText
<1> QED BY <1>2, <1>6, <1>8 DEF DoneStep

LEMMA DoneByStart ==
    ASSUME TypeOK, NEW S,
           hop' = [e \in Edges |-> IF e \in S THEN Start(hop[e]) ELSE hop[e]]
    PROVE  DoneStep
BY Starts DEF DoneStep

LEMMA DoneByClose ==
    ASSUME TypeOK, NEW stopped, Close(stopped)
    PROVE  DoneStep
<1>1. \A e \in Edges : hop'[e] \in {hop[e], Sweep(e)}
  <2>1. CASE hop' = [e \in Edges |-> Sweep(e)]
    BY <2>1
  <2>2. CASE \E e \in Edges : hop' = [d \in Edges |-> IF d < e THEN Sweep(d) ELSE hop[d]]
    <3>1. PICK e \in Edges : hop' = [d \in Edges |-> IF d < e THEN Sweep(d) ELSE hop[d]]
      BY <2>2
    <3> QED BY <3>1
  <2> QED BY <2>1, <2>2 DEF Close
<1>2. ASSUME NEW e \in Edges, hop'[e] = "done"
      PROVE  hop[e] = "done"
  <2>1. hop[e] \in HopStates /\ SweepStatus(e) \in Settled \ {"done"}
    BY StatusSettles DEF TypeOK, HopStates
  <2>2. CASE hop'[e] = Sweep(e)
    BY <2>1, <2>2, <1>2, HopMoves DEF Sweep
  <2> QED BY <2>2, <1>1, <1>2
<1> QED BY <1>2 DEF DoneStep

(* A hand-over is recorded as done only if its sender succeeded or was run  *)
(* again: a first run that fails leaves no text to hand over.               *)
THEOREM DoneHolds == Spec => DoneMeansOk
<1>1. Init => IInv
  BY InitIInv
<1>2. IInv /\ [Next]_vars => IInv'
  BY NextKeeps
<1>3. ASSUME IInv, [Next]_vars
      PROVE  DoneStep
  <2>1. CASE hop' = hop
    BY <2>1 DEF DoneStep
  <2>2. ASSUME NEW m \in Agents, Begin(m)
        PROVE  DoneStep
    <3>1. PICK S : S = OutOf(job[m].node)
      OBVIOUS
    <3>2. hop' = [e \in Edges |-> IF e \in S THEN Start(hop[e]) ELSE hop[e]]
      BY <2>2, <3>1 DEF Begin
    <3> QED BY <3>2, <1>3, DoneByStart DEF IInv
  <2>3. ASSUME NEW m \in Agents, OpenThrows(m)
        PROVE  DoneStep
    <3>1. CASE \E e \in OutOf(job[m].node) :
                  hop' = [d \in Edges |-> IF d \in OutOf(job[m].node) /\ d < e
                                          THEN Start(hop[d]) ELSE hop[d]]
      <4>1. PICK e \in OutOf(job[m].node) :
                  hop' = [d \in Edges |-> IF d \in OutOf(job[m].node) /\ d < e
                                          THEN Start(hop[d]) ELSE hop[d]]
        BY <3>1
      <4>2. PICK S : S = {d \in OutOf(job[m].node) : d < e}
        OBVIOUS
      <4>3. hop' = [d \in Edges |-> IF d \in S THEN Start(hop[d]) ELSE hop[d]]
        BY <4>1, <4>2
      <4> QED BY <4>3, <1>3, DoneByStart DEF IInv
    <3> QED BY <2>1, <2>3, <3>1 DEF OpenThrows
  <2>4. ASSUME NEW m \in Agents, Step(m)
        PROVE  DoneStep
    <3>1. CASE Collect(m)
      BY <3>1, <1>3, DoneByCollect
    <3>2. CASE Lookup(m) \/ Decided(m)
      BY <3>2, <2>1, <2>2 DEF Lookup, Decided
    <3>3. CASE \/ Take(m) \/ AttemptEnds(m) \/ OwnReturned(m) \/ Decide(m) \/ SendBack(m)
               \/ ReworkReturned(m) \/ ReviewReturned(m)
      BY <3>3, <2>1 DEF Take, AttemptEnds, OwnReturned, Decide, SendBack, ReworkReturned,
                        ReviewReturned
    <3> QED BY <2>4, <3>1, <3>2, <3>3 DEF Step, Proceeds
  <2>5. CASE LayerEnds
    BY <2>5, <2>1, <1>3, DoneByClose DEF LayerEnds, IInv
  <2>6. CASE Cancel \/ UNCHANGED vars
    BY <2>6, <2>1 DEF Cancel, vars
  <2> QED BY <1>3, <2>3, <2>4, <2>5, <2>6 DEF Next
<1>4. IInv /\ [Next]_vars => [DoneStep]_vars
  BY <1>3
<1>5. Spec => [][DoneStep]_vars
  BY <1>1, <1>2, <1>4, PTL DEF Spec
<1> QED BY <1>5 DEF DoneMeansOk, DoneStep

-----------------------------------------------------------------------------
(* Nobody is called anew in this step.                                      *)
NoCall == \A m \in Agents : job'[m].pc = "calling" => job'[m] = job[m]

LEMMA OtherPlaces ==
    ASSUME TypeOK, NEW m \in Agents, NEW J, job' = [job EXCEPT ![m] = J],
           J.pc # "calling"
    PROVE  NoCall
BY DEF TypeOK, NoCall

LEMMA EndsNoCall ==
    ASSUME TypeOK, NEW m \in Agents, NEW o, Ends(m, o)
    PROVE  NoCall
<1>1. PICK J : J = [job[m] EXCEPT !.pc = "returned", !.res = o]
  OBVIOUS
<1>2. J.pc = "returned"
  BY <1>1 DEF TypeOK, JobType
<1>3. job' = [job EXCEPT ![m] = J]
  BY <1>1 DEF Ends
<1> QED BY <1>2, <1>3, OtherPlaces

LEMMA RunNoCall ==
    ASSUME TypeOK, NEW m \in Agents, NEW n, NEW why, Run(m, n, why)
    PROVE  NoCall
<1>1. PICK J : J = [job[m] EXCEPT !.pc = "collect", !.node = n, !.phase = why,
                                  !.todo = Into(n)]
  OBVIOUS
<1>2. J.pc = "collect"
  BY <1>1 DEF TypeOK, JobType
<1>3. job' = [job EXCEPT ![m] = J]
  BY <1>1 DEF Run
<1> QED BY <1>2, <1>3, OtherPlaces

LEMMA MoveNoCall ==
    ASSUME TypeOK, NEW m \in Agents, NEW pc, pc # "calling", MoveTo(m, pc)
    PROVE  NoCall
<1>1. PICK J : J = [job[m] EXCEPT !.pc = pc]
  OBVIOUS
<1>2. J.pc = pc
  BY <1>1 DEF TypeOK, JobType
<1>3. job' = [job EXCEPT ![m] = J]
  BY <1>1 DEF MoveTo
<1> QED BY <1>2, <1>3, OtherPlaces

LEMMA StepNoCall ==
    ASSUME IInv, cancelled, NEW m \in Agents, Step(m) \/ OpenThrows(m)
    PROVE  NoCall
<1> USE DEF IInv
<1>1. job[m] \in JobType
  BY DEF TypeOK
<1>2. CASE Take(m)
  BY <1>2, MoveNoCall, RunNoCall DEF Take
<1>3. CASE Collect(m)
  <2>1. PICK todo : todo = job[m].todo \ {First(job[m].todo)}
    OBVIOUS
  <2>2. PICK J : J = [job[m] EXCEPT !.todo = todo]
    OBVIOUS
  <2>3. J.pc = "collect"
    BY <2>2, <1>1, <1>3 DEF Collect, JobType
  <2>4. job' = [job EXCEPT ![m] = J]
    BY <2>1, <2>2, <1>3 DEF Collect
  <2> QED BY <2>3, <2>4, OtherPlaces
<1>4. CASE Lookup(m) \/ Decided(m)
  <2>1. CASE Begin(m)
    BY <2>1, EndsNoCall DEF Begin
  <2> QED BY <2>1, <1>4, EndsNoCall, MoveNoCall DEF Lookup, Decided
<1>5. CASE AttemptEnds(m)
  BY <1>5, EndsNoCall DEF AttemptEnds
<1>6. CASE OwnReturned(m)
  <2>1. CASE job' = [job EXCEPT ![m] = [@ EXCEPT !.pc = "deciding", !.left = Reviews(m)]]
    <3>1. PICK J : J = [job[m] EXCEPT !.pc = "deciding", !.left = Reviews(m)]
      OBVIOUS
    <3>2. J.pc = "deciding" /\ job' = [job EXCEPT ![m] = J]
      BY <3>1, <2>1, <1>1 DEF JobType
    <3> QED BY <3>2, OtherPlaces
  <2> QED BY <2>1, <1>6, MoveNoCall DEF OwnReturned
<1>7. CASE Decide(m)
  BY <1>7, MoveNoCall DEF Decide, Stopped
<1>8. ASSUME NEW left, job' = [job EXCEPT ![m] = [@ EXCEPT !.pc = "deciding", !.left = left]]
      PROVE  NoCall
  <2>1. PICK J : J = [job[m] EXCEPT !.pc = "deciding", !.left = left]
    OBVIOUS
  <2>2. J.pc = "deciding" /\ job' = [job EXCEPT ![m] = J]
    BY <2>1, <1>1, <1>8 DEF JobType
  <2> QED BY <2>2, OtherPlaces
<1>9. CASE SendBack(m)
  <2>1. PICK n : n = Target(m).to
    OBVIOUS
  <2>2. Run(m, n, "rework")
    BY <2>1, <1>9 DEF SendBack
  <2> QED BY <2>2, RunNoCall
<1>10. CASE ReworkReturned(m)
  <2>1. PICK left : left = job[m].left \ {First(job[m].left)}
    OBVIOUS
  <2>2. job' = [job EXCEPT ![m] = [@ EXCEPT !.pc = "deciding", !.left = left]]
    BY <2>1, <1>10 DEF ReworkReturned, Stopped
  <2> QED BY <2>2, <1>8
<1>11. CASE ReviewReturned(m)
  <2>1. PICK left : left = IF job[m].res = "ok" THEN job[m].left
                           ELSE job[m].left \ {First(job[m].left)}
    OBVIOUS
  <2>2. job' = [job EXCEPT ![m] = [@ EXCEPT !.pc = "deciding", !.left = left]]
    BY <2>1, <1>11 DEF ReviewReturned
  <2> QED BY <2>2, <1>8
<1>12. CASE OpenThrows(m)
  <2>1. PICK J : J = [job[m] EXCEPT !.pc = "done", !.res = "threw"]
    OBVIOUS
  <2>2. J.pc = "done" /\ job' = [job EXCEPT ![m] = J]
    BY <2>1, <1>1, <1>12 DEF JobType, OpenThrows
  <2> QED BY <2>2, OtherPlaces
<1> QED BY <1>2, <1>3, <1>4, <1>5, <1>6, <1>7, <1>9, <1>10, <1>11, <1>12
       DEF Step, Proceeds

(* A cancelled round calls no agent any more.                               *)
THEOREM CancelHolds == Spec => NoCallAfterCancel
<1>1. Init => IInv
  BY InitIInv
<1>2. IInv /\ [Next]_vars => IInv'
  BY NextKeeps
<1>3. ASSUME IInv, [Next]_vars, cancelled
      PROVE  NoCall
  <2>1. CASE job' = job
    BY <2>1 DEF NoCall
  <2>2. CASE LayerEnds \/ Cancel \/ UNCHANGED vars
    BY <2>1, <2>2 DEF LayerEnds, Cancel, vars
  <2> QED BY <1>3, <2>2, StepNoCall DEF Next
<1>4. IInv /\ [Next]_vars => [cancelled => NoCall]_vars
  BY <1>3
<1>5. Spec => [][cancelled => NoCall]_vars
  BY <1>1, <1>2, <1>4, PTL DEF Spec
<1> QED BY <1>5 DEF NoCallAfterCancel, NoCall
=============================================================================
