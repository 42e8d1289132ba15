------------------------ MODULE RuntimeServiceProofs -----------------------
(***************************************************************************)
(* Proofs about RuntimeService, for any workflow, any bounds and any       *)
(* number of runs, requests and restarts.                                  *)
(*                                                                         *)
(* A run stands at a place: what it visited, where it goes next, and the   *)
(* paused flag.  Checkpoints are places too, and so is what a request to   *)
(* resume carries.  The invariant says the same of all of them (Sane): the *)
(* place lies on a path of the workflow, what was passed on the way was    *)
(* allowed in the lineage of its run, and the flag is backed by a          *)
(* checkpoint at a gate that no crash takes away.                          *)
(*                                                                         *)
(* The last section is about the breaker between an agent of such a run    *)
(* and its memory: for any set of callers, any times with Timeout < Window.*)
(***************************************************************************)
EXTENDS RuntimeService, CircuitBreaker, FiniteSetTheorems, SequenceTheorems, TLAPS

(* The types.                                                              *)
Place == [visited : Seq(Nodes), next : Nodes \cup {END}, paused : BOOLEAN]
Decision == {"approve", "reject"}
Run == [phase : {"walking", "allowed", "asking", "prompting", "ended"},
        at : Nodes \cup {END}, steps : Nat, visited : Seq(Nodes),
        paused : BOOLEAN, parent : Nat, owner : Nat, heard : BOOLEAN,
        answer : Decision \cup {"none", "unset"}, fired : BOOLEAN,
        outcome : Decision \cup {"none", "timeout", "unset"},
        acked : Decision \cup {"none"},
        passed : SUBSET Nodes, checkpoints : Seq(Place),
        result : {"none", "raised", "lost", "paused", "failed", "succeeded"}]
Reply == {"none", "done", "error", "refused", "unknown", "invalid", "forbidden", "lost"}
Post == [op : {"resume", "reject"}, run : Nat, checkpoint : Place,
         node : Nodes \cup {END}, target : Nodes \cup {END}, phase : {"waiting", "holding", "answered"},
         child : Nat, answer : Reply]

TypeOK ==
    /\ runs \in Seq(Run) /\ posts \in Seq(Post)
    /\ known \subseteq stored /\ stored \subseteq Runs
    /\ \A q \in Posts : posts[q].run \in Runs

(* Where a run stands. *)
Standing(run) == Checkpoint(run.visited, run.at, run.paused)

(* The nodes that somebody let this run pass, or one it goes back to. *)
Allowed(r) == UNION {runs[p].passed : p \in Lineage(r)}

(* The checkpoints that a crash leaves. *)
Kept(r) == IF \E q \in Posts : Stores(q, r) THEN Len(runs[r].checkpoints) - 1
           ELSE Len(runs[r].checkpoints)
(* The run can be resumed at a gate, after a crash too. *)
Backed(r) == \E p \in Lineage(r) :
                /\ p \in stored
                /\ \E i \in 1..Kept(p) : runs[p].checkpoints[i].next \in Gates

(* Where the way leads after the i-th node visited. *)
After(c, i) == IF i < Len(c.visited) THEN c.visited[i + 1] ELSE c.next

OnPath(c) ==
    /\ c.visited = <<>> => c.next \in {Entry, END}
    /\ c.visited # <<>> => c.visited[1] = Entry
    /\ \A i \in DOMAIN c.visited :
          \/ After(c, i) \in Routes[c.visited[i]]
          \/ After(c, i) = c.visited[i] /\ c.visited[i] \in Gates

Cleared(c, allowed) ==
    \A i \in DOMAIN c.visited :
        \/ c.visited[i] \in Prompts
        \/ c.visited[i] \in Gates /\ After(c, i) # c.visited[i]
        => c.visited[i] \in allowed

Sane(c, allowed, backed) ==
    OnPath(c) /\ Cleared(c, allowed) /\ (c.paused => backed)

(* What holds of a run by itself: whom it waits for, and how it got there. *)
Local(run) ==
    /\ run.phase = "asking" => run.at \in Gates /\ run.answer # "unset"
    /\ run.phase \in {"prompting", "allowed"} => run.at \in Prompts
    /\ run.phase \in {"asking", "prompting"} =>
          /\ run.outcome = "none"
          /\ run.answer \in Decision => run.answer = run.acked
    /\ run.phase = "asking" /\ run.answer # "none" => run.at \in run.passed
    /\ run.phase = "prompting" /\ run.answer = "approve" => run.at \in run.passed
    /\ run.phase = "allowed" => run.at \in run.passed
    /\ run.outcome \in Decision => run.outcome = run.acked
    /\ run.outcome = "timeout" => run.fired
    /\ run.answer = "unset" \/ run.outcome = "unset" => run.parent # 0

(* A run prompts under its own id, or one that was resumed under that of a   *)
(* run that has ended: two that wait under one key have both been resumed.   *)
Owned(r) == IF runs[r].parent = 0 THEN runs[r].owner = r ELSE runs[r].owner \in stored

Registered ==
    /\ \A r \in stored : runs[r].phase = "ended"
    /\ \A q \in Posts : posts[q].op = "reject" /\ posts[q].phase = "holding"
                        => posts[q].run \in stored

RunOK(r) ==
    /\ Local(runs[r]) /\ Owned(r)
    /\ Sane(Standing(runs[r]), Allowed(r), Backed(r))
    /\ \A i \in DOMAIN runs[r].checkpoints :
          Sane(runs[r].checkpoints[i], Allowed(r), Backed(r))
    /\ runs[r].result = "paused" => Backed(r)

PostOK(q) ==
    Sane(posts[q].checkpoint, Allowed(posts[q].run), Backed(posts[q].run))

(* The inductive invariant. *)
IInv == TypeOK /\ Registered /\ (\A r \in Runs : RunOK(r)) /\ (\A q \in Posts : PostOK(q))

-----------------------------------------------------------------------------
(* The lineage of a run holds the run and the lineage of its parent, and it  *)
(* only grows as long as parents do not change.                             *)
LEMMA LineageSelf ==
    ASSUME NEW r \in Runs
    PROVE  r \in Lineage(r)
BY DEF Lineage

LEMMA LineageUp ==
    ASSUME NEW r \in Runs, runs[r].parent \in Runs
    PROVE  Lineage(runs[r].parent) \subseteq Lineage(r)
BY DEF Lineage

LEMMA LineageGrows ==
    ASSUME Runs \subseteq Runs',
           \A p \in Runs : runs'[p].parent = runs[p].parent,
           NEW r \in Runs
    PROVE  Lineage(r) \subseteq Lineage(r)'
<1> SUFFICES ASSUME NEW p \in Lineage(r),
                    NEW S \in SUBSET Runs', r \in S,
                    \A s \in S : runs'[s].parent \in Runs' => runs'[s].parent \in S
             PROVE  p \in S
  BY DEF Lineage
<1> DEFINE T == S \cap Runs
<1>1. r \in T /\ T \in SUBSET Runs
  OBVIOUS
<1>2. \A s \in T : runs[s].parent \in Runs => runs[s].parent \in T
  OBVIOUS
<1>3. p \in T
  BY <1>1, <1>2 DEF Lineage
<1> QED BY <1>3

(* What a step may do to the runs there are so that a place stays sane:      *)
(* more runs, more passed nodes, more registered runs, more checkpoints.    *)
Grows ==
    /\ Runs \subseteq Runs'
    /\ \A p \in Runs : /\ runs'[p].parent = runs[p].parent
                        /\ runs'[p].owner = runs[p].owner
                        /\ runs[p].passed \subseteq runs'[p].passed
    /\ stored \subseteq stored'
    /\ \A p \in Runs : \A i \in 1..Kept(p) :
          i \in 1..Kept(p)' /\ runs'[p].checkpoints[i] = runs[p].checkpoints[i]

LEMMA AllowedGrows ==
    ASSUME Grows, NEW r \in Runs
    PROVE  Allowed(r) \subseteq Allowed(r)' /\ (Backed(r) => Backed(r)')
<1>1. Lineage(r) \subseteq Lineage(r)' /\ Lineage(r) \subseteq Runs
  BY LineageGrows DEF Grows, Lineage
<1>2. Allowed(r) \subseteq Allowed(r)'
  BY <1>1 DEF Grows, Allowed
<1>3. ASSUME Backed(r) PROVE Backed(r)'
  <2>0. PICK p \in Lineage(r) :
           p \in stored /\ \E i \in 1..Kept(p) : runs[p].checkpoints[i].next \in Gates
    BY <1>3 DEF Backed
  <2>1. PICK i \in 1..Kept(p) : runs[p].checkpoints[i].next \in Gates
    BY <2>0
  <2>2. p \in Lineage(r)' /\ p \in stored' /\ i \in 1..Kept(p)'
        /\ runs'[p].checkpoints[i].next \in Gates
    BY <2>0, <2>1, <1>1 DEF Grows
  <2> QED BY <2>2 DEF Backed
<1> QED BY <1>2, <1>3

(* A place that was sane but for its flag is sane if the flag is backed now. *)
LEMMA SaneStays ==
    ASSUME Grows, NEW r \in Runs, NEW c, OnPath(c),
           Cleared(c, Allowed(r)) \/ Cleared(c, Allowed(r)'),
           c.paused => Backed(r) \/ Backed(r)'
    PROVE  Sane(c, Allowed(r)', Backed(r)')
<1>1. Allowed(r) \subseteq Allowed(r)' /\ (Backed(r) => Backed(r)')
  BY AllowedGrows
<1>2. Cleared(c, Allowed(r)')
  BY <1>1 DEF Cleared
<1> QED BY <1>1, <1>2 DEF Sane

(* Going on from a place, along an edge or through a gate again. *)
LEMMA WalkOnFrom ==
    ASSUME NEW v \in Seq(Nodes), NEW n \in Nodes, NEW m \in Nodes \cup {END},
           NEW p, NEW f, NEW A,
           OnPath(Checkpoint(v, n, p)), Cleared(Checkpoint(v, n, p), A),
           m \in Routes[n] \/ (m = n /\ n \in Gates),
           n \in Prompts \/ (n \in Gates /\ m # n) => n \in A
    PROVE  /\ OnPath(Checkpoint(Append(v, n), m, f))
           /\ Cleared(Checkpoint(Append(v, n), m, f), A)
<1> DEFINE w == Append(v, n)
           c == Checkpoint(v, n, p)
           d == Checkpoint(w, m, f)
<1>1. /\ c.visited = v /\ c.next = n /\ d.visited = w /\ d.next = m
  BY DEF Checkpoint
<1>2. /\ Len(v) \in Nat /\ DOMAIN v = 1..Len(v)
      /\ Len(w) = Len(v) + 1 /\ DOMAIN w = 1..(Len(v) + 1)
      /\ w[Len(v) + 1] = n /\ \A i \in 1..Len(v) : w[i] = v[i]
      /\ w # <<>>
  OBVIOUS
<1> HIDE DEF w, c, d
<1>3. \A i \in 1..Len(v) : After(d, i) = After(c, i)
  BY <1>1, <1>2 DEF After
<1>4. After(d, Len(v) + 1) = m
  BY <1>1, <1>2 DEF After
<1>5. n # END
  BY RuntimeAssumption
<1>6. w[1] = Entry
  <2>1. CASE v = <<>>
    <3>1. n = Entry
      BY <2>1, <1>1, <1>5 DEF OnPath, c
    <3> QED BY <2>1, <3>1, <1>2
  <2>2. CASE v # <<>>
    <3>1. v[1] = Entry /\ 1 \in 1..Len(v)
      BY <2>2, <1>1, <1>2 DEF OnPath, c
    <3> QED BY <3>1, <1>2
  <2> QED BY <2>1, <2>2
<1>7. \A i \in 1..(Len(v) + 1) : i \in 1..Len(v) \/ i = Len(v) + 1
  BY <1>2
<1>8. OnPath(d)
  <2>1. \A i \in 1..Len(v) : \/ After(d, i) \in Routes[w[i]]
                             \/ After(d, i) = w[i] /\ w[i] \in Gates
    BY <1>1, <1>2, <1>3 DEF OnPath, c
  <2> QED BY <2>1, <1>1, <1>2, <1>4, <1>6, <1>7 DEF OnPath
<1>9. Cleared(d, A)
  <2>1. \A i \in 1..Len(v) : \/ w[i] \in Prompts
                             \/ w[i] \in Gates /\ After(d, i) # w[i]
                             => w[i] \in A
    BY <1>1, <1>2, <1>3 DEF Cleared, c
  <2> QED BY <2>1, <1>1, <1>2, <1>4, <1>7 DEF Cleared
<1> QED BY <1>8, <1>9 DEF d, w

-----------------------------------------------------------------------------
(* The requests keep what they ask for; none starts to hold a lock to reject. *)
PostsKept ==
    /\ posts' \in Seq(Post) /\ Posts' = Posts
    /\ \A q \in Posts :
          /\ posts'[q].op = posts[q].op /\ posts'[q].run = posts[q].run
          /\ posts'[q].checkpoint = posts[q].checkpoint
          /\ posts[q].op = "reject" /\ posts'[q].phase = "holding" => posts[q].phase = "holding"

(* Whoever registers, registers an ended run. *)
StoredKept(r) ==
    /\ stored \subseteq stored' /\ stored' \subseteq stored \cup {r}
    /\ known' \subseteq stored'

(* Only the run r changes, to X; it may save one checkpoint more. *)
RunChanges(r, X) ==
    /\ X \in Run /\ runs' = [runs EXCEPT ![r] = X]
    /\ X.parent = runs[r].parent /\ X.owner = runs[r].owner
    /\ runs[r].passed \subseteq X.passed
    /\ \/ X.checkpoints = runs[r].checkpoints
       \/ \E c \in Place : X.checkpoints = Append(runs[r].checkpoints, c)

LEMMA ChangedRuns ==
    ASSUME TypeOK, NEW r \in Runs, NEW X, RunChanges(r, X)
    PROVE  /\ runs' \in Seq(Run) /\ Runs' = Runs /\ runs'[r] = X
           /\ \A p \in Runs : p # r => runs'[p] = runs[p]
           /\ \A p \in Runs : /\ runs[p].checkpoints \in Seq(Place)
                              /\ \A i \in DOMAIN runs[p].checkpoints :
                                    /\ i \in DOMAIN runs'[p].checkpoints
                                    /\ runs'[p].checkpoints[i] = runs[p].checkpoints[i]
<1>1. runs \in Seq(Run) /\ X \in Run /\ runs' = [runs EXCEPT ![r] = X]
  BY DEF TypeOK, RunChanges
<1>2. /\ runs' \in Seq(Run) /\ Runs' = Runs /\ runs'[r] = X
      /\ \A p \in Runs : p # r => runs'[p] = runs[p]
  BY <1>1 DEF Runs
<1>3. \A p \in Runs : runs[p] \in Run /\ runs[p].checkpoints \in Seq(Place)
  <2>1. \A p \in Runs : runs[p] \in Run
    BY <1>1 DEF Runs
  <2> QED BY <2>1 DEF Run
<1>4. \A i \in DOMAIN runs[r].checkpoints :
         i \in DOMAIN X.checkpoints /\ X.checkpoints[i] = runs[r].checkpoints[i]
  <2> DEFINE old == runs[r].checkpoints
             new == X.checkpoints
  <2>1. old \in Seq(Place)
    BY <1>3
  <2>2. new = old \/ \E c \in Place : new = Append(old, c)
    BY DEF RunChanges
  <2> HIDE DEF old, new
  <2>3. \A i \in DOMAIN old : i \in DOMAIN new /\ new[i] = old[i]
    BY <2>1, <2>2
  <2> QED BY <2>3 DEF old, new
<1> QED BY <1>2, <1>3, <1>4

LEMMA RunGrows ==
    ASSUME TypeOK, NEW r \in Runs, NEW X, RunChanges(r, X), StoredKept(r), PostsKept
    PROVE  Grows
<1>1. /\ Runs' = Runs /\ runs'[r] = X
      /\ \A p \in Runs : p # r => runs'[p] = runs[p]
      /\ \A p \in Runs : /\ runs[p].checkpoints \in Seq(Place)
                         /\ \A i \in DOMAIN runs[p].checkpoints :
                               /\ i \in DOMAIN runs'[p].checkpoints
                               /\ runs'[p].checkpoints[i] = runs[p].checkpoints[i]
  BY ChangedRuns
<1>2. \A q \in Posts, p \in Runs : Stores(q, p)' => Stores(q, p)
  BY DEF PostsKept, Stores
<1>3. \A p \in Runs : /\ runs'[p].parent = runs[p].parent
                      /\ runs'[p].owner = runs[p].owner
                      /\ runs[p].passed \subseteq runs'[p].passed
  BY <1>1 DEF RunChanges
<1>4. ASSUME NEW p \in Runs, NEW i \in 1..Kept(p)
      PROVE  i \in 1..Kept(p)' /\ runs'[p].checkpoints[i] = runs[p].checkpoints[i]
  <2> DEFINE old == runs[p].checkpoints
             new == runs'[p].checkpoints
  <2>1. old \in Seq(Place) /\ new \in Seq(Place)
    <3>1. runs' \in Seq(Run)
      BY ChangedRuns
    <3>2. runs'[p] \in Run
      BY <3>1, <1>1 DEF Runs
    <3> QED BY <1>1, <3>2 DEF Run
  <2>2. \A j \in DOMAIN old : j \in DOMAIN new /\ new[j] = old[j]
    BY <1>1
  <2>3. Kept(p) = Len(old) \/ Kept(p) = Len(old) - 1
    BY DEF Kept
  <2>4. Kept(p)' = Len(new) \/ (Kept(p)' = Len(new) - 1 /\ Kept(p) = Len(old) - 1)
    BY <1>2 DEF Kept, PostsKept
  <2> HIDE DEF old, new
  <2>5. Len(old) \in Nat /\ Len(new) \in Nat /\ Len(old) <= Len(new)
        /\ DOMAIN old = 1..Len(old) /\ DOMAIN new = 1..Len(new)
    <3>1. Len(old) \in Nat /\ Len(new) \in Nat
          /\ DOMAIN old = 1..Len(old) /\ DOMAIN new = 1..Len(new)
      BY <2>1
    <3>2. Len(old) = 0 \/ Len(old) \in DOMAIN old
      BY <3>1
    <3> QED BY <3>1, <3>2, <2>2
  <2>6. i \in 1..Len(old) /\ i \in 1..Kept(p)'
    BY <2>3, <2>4, <2>5
  <2> QED BY <2>2, <2>5, <2>6 DEF old, new
<1> QED BY <1>1, <1>3, <1>4 DEF Grows, StoredKept

(* What the run itself has to see to. *)
NewRunOK(r, X) ==
    /\ Local(X)
    /\ OnPath(Standing(X))
    /\ Cleared(Standing(X), Allowed(r)) \/ Cleared(Standing(X), Allowed(r)')
    /\ X.paused => Backed(r) \/ Backed(r)'
    /\ X.result = "paused" => Backed(r) \/ Backed(r)'
    /\ r \in stored' => X.phase = "ended"
    /\ \/ X.checkpoints = runs[r].checkpoints
       \/ \E c \in Place :
             /\ X.checkpoints = Append(runs[r].checkpoints, c)
             /\ OnPath(c)
             /\ Cleared(c, Allowed(r)) \/ Cleared(c, Allowed(r)')
             /\ c.paused => Backed(r) \/ Backed(r)'

(* ... and then it is sane, as are the runs and the requests that the step   *)
(* leaves alone.                                                            *)
LEMMA RunIsOK ==
    ASSUME IInv, NEW r \in Runs, NEW X, RunChanges(r, X), Grows, NewRunOK(r, X)
    PROVE  RunOK(r)'
<1>1. TypeOK /\ RunOK(r)
  BY DEF IInv
<1>2. Sane(Standing(X), Allowed(r)', Backed(r)')
  <2>1. Standing(X).paused = X.paused
    BY DEF Standing, Checkpoint
  <2> QED BY <2>1, SaneStays DEF NewRunOK
<1>3. \A i \in DOMAIN runs[r].checkpoints :
         Sane(runs[r].checkpoints[i], Allowed(r)', Backed(r)')
  <2>1. ASSUME NEW c, Sane(c, Allowed(r), Backed(r))
        PROVE  Sane(c, Allowed(r)', Backed(r)')
    BY <2>1, SaneStays DEF Sane
  <2> QED BY <1>1, <2>1 DEF RunOK
<1>4. \A i \in DOMAIN X.checkpoints : Sane(X.checkpoints[i], Allowed(r)', Backed(r)')
  <2>1. CASE X.checkpoints = runs[r].checkpoints
    BY <1>3, <2>1
  <2>2. CASE X.checkpoints # runs[r].checkpoints
    <3>1. PICK c \in Place :
             /\ X.checkpoints = Append(runs[r].checkpoints, c)
             /\ OnPath(c)
             /\ Cleared(c, Allowed(r)) \/ Cleared(c, Allowed(r)')
             /\ c.paused => Backed(r) \/ Backed(r)'
      BY <2>2 DEF NewRunOK
    <3>2. Sane(c, Allowed(r)', Backed(r)')
      BY <3>1, SaneStays
    <3> DEFINE old == runs[r].checkpoints
    <3>3. old \in Seq(Place)
      BY <1>1, ChangedRuns
    <3> HIDE DEF old
    <3>4. \A i \in DOMAIN Append(old, c) : i \in DOMAIN old \/ Append(old, c)[i] = c
      BY <3>3
    <3>5. \A i \in DOMAIN old : Append(old, c)[i] = old[i]
      BY <3>3
    <3> QED BY <1>3, <3>1, <3>2, <3>4, <3>5 DEF old
  <2> QED BY <2>1, <2>2
<1>5. X.result = "paused" => Backed(r)'
  BY AllowedGrows DEF NewRunOK
<1>6. Local(X) /\ runs'[r] = X
  BY <1>1, ChangedRuns DEF NewRunOK
<1>7. Owned(r)'
  BY <1>1 DEF RunOK, Owned, Grows
<1> QED BY <1>2, <1>4, <1>5, <1>6, <1>7 DEF RunOK

LEMMA RunStaysOK ==
    ASSUME Grows, NEW p \in Runs, runs'[p] = runs[p], RunOK(p)
    PROVE  RunOK(p)'
<1>1. ASSUME NEW c, Sane(c, Allowed(p), Backed(p))
      PROVE  Sane(c, Allowed(p)', Backed(p)')
  BY <1>1, SaneStays DEF Sane
<1>2. runs[p].result = "paused" => Backed(p)'
  BY AllowedGrows DEF RunOK
<1>3. Sane(Standing(runs[p]), Allowed(p)', Backed(p)')
  BY <1>1 DEF RunOK
<1>4. \A i \in DOMAIN runs[p].checkpoints :
         Sane(runs[p].checkpoints[i], Allowed(p)', Backed(p)')
  BY <1>1 DEF RunOK
<1>5. Local(runs[p]) /\ Owned(p)'
  BY DEF RunOK, Owned, Grows
<1> QED BY <1>2, <1>3, <1>4, <1>5 DEF RunOK

LEMMA PostStaysOK ==
    ASSUME Grows, NEW q \in Posts, posts[q].run \in Runs, PostOK(q),
           posts'[q].run = posts[q].run, posts'[q].checkpoint = posts[q].checkpoint
    PROVE  PostOK(q)'
<1>1. PICK p \in Runs : p = posts[q].run
  OBVIOUS
<1>2. PICK c : c = posts[q].checkpoint
  OBVIOUS
<1>3. Sane(c, Allowed(p), Backed(p))
  BY <1>1, <1>2 DEF PostOK
<1>4. Sane(c, Allowed(p)', Backed(p)')
  BY <1>3, SaneStays DEF Sane
<1> QED BY <1>1, <1>2, <1>4 DEF PostOK

(* A step that lets places stay sane and does right by what it changes keeps *)
(* the invariant.                                                           *)
LEMMA GrowsKeepsIInv ==
    ASSUME IInv, Grows, TypeOK', Registered',
           \A p \in Runs' : (p \in Runs /\ runs'[p] = runs[p]) \/ RunOK(p)',
           \A q \in Posts' : \/ /\ q \in Posts /\ posts'[q].run = posts[q].run
                                /\ posts'[q].checkpoint = posts[q].checkpoint
                             \/ PostOK(q)'
    PROVE  IInv'
<1>1. \A p \in Runs' : RunOK(p)'
  BY RunStaysOK DEF IInv
<1>2. \A q \in Posts' : PostOK(q)'
  BY PostStaysOK DEF IInv, TypeOK
<1> QED BY <1>1, <1>2 DEF IInv

LEMMA RunKeepsIInv ==
    ASSUME IInv, NEW r \in Runs, NEW X, RunChanges(r, X), StoredKept(r), PostsKept, NewRunOK(r, X)
    PROVE  IInv'
<1>1. TypeOK /\ Registered
  BY DEF IInv
<1>2. Grows
  BY <1>1, RunGrows
<1>3. /\ runs' \in Seq(Run) /\ Runs' = Runs /\ runs'[r] = X
      /\ \A p \in Runs : p # r => runs'[p] = runs[p]
  BY <1>1, ChangedRuns
<1>4. TypeOK'
  BY <1>1, <1>3 DEF TypeOK, StoredKept, PostsKept
<1>5. Registered'
  <2>1. ASSUME NEW p \in stored' PROVE runs'[p].phase = "ended"
    <3>1. CASE p = r
      BY <3>1, <2>1, <1>3 DEF NewRunOK
    <3>2. CASE p # r
      BY <3>2, <2>1, <1>1, <1>3 DEF Registered, StoredKept, TypeOK
    <3> QED BY <3>1, <3>2
  <2>2. ASSUME NEW q \in Posts', posts'[q].op = "reject", posts'[q].phase = "holding"
        PROVE  posts'[q].run \in stored'
    BY <2>2, <1>1 DEF Registered, StoredKept, PostsKept
  <2> QED BY <2>1, <2>2 DEF Registered
<1>6. \A p \in Runs' : (p \in Runs /\ runs'[p] = runs[p]) \/ RunOK(p)'
  BY <1>2, <1>3, RunIsOK
<1>7. \A q \in Posts' : /\ q \in Posts /\ posts'[q].run = posts[q].run
                        /\ posts'[q].checkpoint = posts[q].checkpoint
  BY DEF PostsKept
<1> QED BY <1>2, <1>4, <1>5, <1>6, <1>7, GrowsKeepsIInv

-----------------------------------------------------------------------------
(* What the steps of a run have in common.                                  *)
LEMMA Typed ==
    ASSUME TypeOK, NEW r \in Runs
    PROVE  runs[r] \in Run
BY DEF TypeOK, Runs

LEMMA SamePosts ==
    ASSUME TypeOK, UNCHANGED posts
    PROVE  PostsKept
BY DEF TypeOK, PostsKept, Posts

LEMMA ReportedPosts ==
    ASSUME TypeOK, NEW r, NEW answer \in {"done", "error"}, posts' = Reported(r, answer)
    PROVE  PostsKept
<1>1. posts \in Seq(Post) /\ Posts = 1..Len(posts) /\ Len(posts) \in Nat
  BY DEF TypeOK, Posts
<1>2. \A q \in Posts : posts[q] \in Post
  BY <1>1
<1>3. \A q \in Posts : [posts[q] EXCEPT !.phase = "answered", !.answer = answer] \in Post
  BY <1>2 DEF Post, Reply
<1>4. /\ posts' \in [1..Len(posts) -> Post]
      /\ \A q \in Posts : \/ posts'[q] = posts[q]
                          \/ posts'[q] = [posts[q] EXCEPT !.phase = "answered", !.answer = answer]
  BY <1>1, <1>2, <1>3 DEF Reported
<1>5. posts' \in Seq(Post) /\ Posts' = Posts
  <2>1. posts' \in Seq(Post)
    <3>1. PICK n \in Nat : n = Len(posts)
      BY <1>1
    <3>2. posts' \in [1..n -> Post]
      BY <1>4, <3>1
    <3> QED BY <3>2, SeqDef
  <2> QED BY <1>1, <1>4, <2>1 DEF Posts
<1>6. \A q \in Posts : /\ posts'[q].op = posts[q].op /\ posts'[q].run = posts[q].run
                       /\ posts'[q].checkpoint = posts[q].checkpoint
                       /\ posts'[q].phase = "holding" => posts[q].phase = "holding"
  <2> SUFFICES ASSUME NEW q \in Posts
               PROVE  /\ posts'[q].op = posts[q].op /\ posts'[q].run = posts[q].run
                      /\ posts'[q].checkpoint = posts[q].checkpoint
                      /\ posts'[q].phase = "holding" => posts[q].phase = "holding"
    OBVIOUS
  <2>1. PICK post \in Post : post = posts[q]
    BY <1>2
  <2>2. PICK new : new = [post EXCEPT !.phase = "answered", !.answer = answer]
    OBVIOUS
  <2>3. /\ new.op = post.op /\ new.run = post.run /\ new.checkpoint = post.checkpoint
        /\ new.phase = "answered"
    BY <2>2 DEF Post
  <2> QED BY <1>4, <2>1, <2>2, <2>3
<1> QED BY <1>5, <1>6 DEF PostsKept

LEMMA AnsweredPosts ==
    ASSUME TypeOK, NEW q \in Posts, NEW answer \in Reply,
           posts' = [posts EXCEPT ![q].phase = "answered", ![q].answer = answer]
    PROVE  PostsKept
<1>1. posts \in Seq(Post) /\ Posts = 1..Len(posts) /\ Len(posts) \in Nat
  BY DEF TypeOK, Posts
<1>2. \A p \in Posts : posts[p] \in Post
  BY <1>1
<1>3. posts' = [posts EXCEPT ![q] = [posts[q] EXCEPT !.phase = "answered", !.answer = answer]]
  OBVIOUS
<1>4. [posts[q] EXCEPT !.phase = "answered", !.answer = answer] \in Post
  BY <1>2 DEF Post, Reply
<1>5. posts' \in Seq(Post) /\ Posts' = Posts
  <2>1. posts' \in Seq(Post) /\ DOMAIN posts' = DOMAIN posts
    BY <1>1, <1>3, <1>4
  <2> QED BY <2>1 DEF Posts
<1>6. \A p \in Posts : /\ posts'[p].op = posts[p].op /\ posts'[p].run = posts[p].run
                       /\ posts'[p].checkpoint = posts[p].checkpoint
                       /\ posts'[p].phase = "holding" => posts[p].phase = "holding"
  BY <1>1, <1>2, <1>3 DEF Post
<1> QED BY <1>5, <1>6 DEF PostsKept

(* A run that asks, walks or has been allowed has not been registered. *)
LEMMA NotStored ==
    ASSUME IInv, NEW r \in Runs, runs[r].phase # "ended"
    PROVE  r \notin stored
BY DEF IInv, Registered

(* A run that stays where it is. *)
LEMMA StandsStill ==
    ASSUME IInv, NEW r \in Runs, NEW X \in Run, runs' = [runs EXCEPT ![r] = X],
           X.visited = runs[r].visited, X.at = runs[r].at, X.paused = runs[r].paused,
           X.checkpoints = runs[r].checkpoints,
           X.parent = runs[r].parent, X.owner = runs[r].owner,
           runs[r].passed \subseteq X.passed,
           X.result = "paused" => X.paused \/ runs[r].result = "paused",
           Local(X), r \in stored' => X.phase = "ended",
           StoredKept(r), PostsKept
    PROVE  IInv'
<1>1. RunOK(r)
  BY DEF IInv
<1>2. RunChanges(r, X)
  BY DEF RunChanges
<1>3. Standing(X) = Standing(runs[r])
  BY DEF Standing
<1>4. Standing(X).paused = X.paused
  BY DEF Standing, Checkpoint
<1>5. NewRunOK(r, X)
  BY <1>1, <1>3, <1>4 DEF NewRunOK, RunOK, Sane
<1> QED BY <1>2, <1>5, RunKeepsIInv

(* What may happen to a run while others act: it is answered, or what it     *)
(* waits on is not the registered event any more.                           *)
Stood(run, new) ==
    /\ new.visited = run.visited /\ new.at = run.at /\ new.paused = run.paused
    /\ new.checkpoints = run.checkpoints
    /\ new.parent = run.parent /\ new.owner = run.owner
    /\ run.passed \subseteq new.passed
    /\ run.phase = "ended" => new.phase = "ended"
    /\ new.result = "paused" => run.result = "paused"
    /\ new \in Run /\ Local(new)

(* The requests are kept, and one that is new asks to reject a run. *)
PostsStay ==
    /\ posts' \in Seq(Post)
    /\ \A q \in Posts' :
          \/ /\ q \in Posts
             /\ posts'[q].op = posts[q].op /\ posts'[q].run = posts[q].run
             /\ posts'[q].checkpoint = posts[q].checkpoint
             /\ posts[q].op = "reject" /\ posts'[q].phase = "holding"
                   => posts[q].phase = "holding"
          \/ /\ posts'[q].phase = "waiting" /\ posts'[q].run \in Runs
             /\ posts'[q].checkpoint = Checkpoint(<<>>, END, FALSE)

LEMMA KeptStay ==
    ASSUME PostsKept
    PROVE  PostsStay
BY DEF PostsKept, PostsStay

(* A checkpoint that leads nowhere from the start is sane. *)
LEMMA NowhereIsSane ==
    ASSUME NEW A, NEW b
    PROVE  Sane(Checkpoint(<<>>, END, FALSE), A, b)
BY DEF Checkpoint, Sane, OnPath, Cleared

LEMMA AllStand ==
    ASSUME IInv, runs' \in Seq(Run), Runs' = Runs,
           \A p \in Runs : Stood(runs[p], runs'[p]),
           PostsStay, known' \subseteq stored, stored' = stored
    PROVE  IInv'
<1>1. TypeOK /\ Registered /\ \A p \in Runs : RunOK(p)
  BY DEF IInv
<1>2. Grows
  <2>1. \A p \in Runs : \A q \in Posts' : Stores(q, p)' => q \in Posts /\ Stores(q, p)
    BY DEF PostsStay, Stores
  <2>2. ASSUME NEW p \in Runs, NEW i \in 1..Kept(p)
        PROVE  i \in 1..Kept(p)' /\ runs'[p].checkpoints[i] = runs[p].checkpoints[i]
    <3> DEFINE n == Len(runs[p].checkpoints)
    <3>1. runs'[p].checkpoints = runs[p].checkpoints
      BY DEF Stood
    <3>2. CASE \E q \in Posts : Stores(q, p)
      <4>1. Kept(p) = n - 1 /\ (Kept(p)' = n \/ Kept(p)' = n - 1)
        BY <3>1, <3>2 DEF Kept
      <4>2. i \in Int /\ 1 <= i /\ i <= n - 1
        BY <2>2, <4>1
      <4> QED BY <3>1, <4>1, <4>2, <2>2
    <3>3. CASE ~\E q \in Posts : Stores(q, p)
      BY <2>1, <2>2, <3>1, <3>3 DEF Kept
    <3> QED BY <3>2, <3>3
  <2> QED BY <2>2 DEF Grows, Stood
<1>3. ASSUME NEW p \in Runs PROVE RunOK(p)'
  <2>1. RunOK(p) /\ Stood(runs[p], runs'[p])
    BY <1>1
  <2>2. ASSUME NEW c, Sane(c, Allowed(p), Backed(p))
        PROVE  Sane(c, Allowed(p)', Backed(p)')
    BY <2>2, <1>2, SaneStays DEF Sane
  <2>3. Standing(runs'[p]) = Standing(runs[p])
    BY <2>1 DEF Standing, Stood
  <2>4. Sane(Standing(runs'[p]), Allowed(p)', Backed(p)')
    BY <2>1, <2>2, <2>3 DEF RunOK
  <2>5. \A i \in DOMAIN runs'[p].checkpoints :
           Sane(runs'[p].checkpoints[i], Allowed(p)', Backed(p)')
    BY <2>1, <2>2 DEF RunOK, Stood
  <2>6. runs'[p].result = "paused" => Backed(p)'
    BY <2>1, <1>2, AllowedGrows DEF RunOK, Stood
  <2>7. Local(runs'[p]) /\ Owned(p)'
    BY <2>1 DEF RunOK, Owned, Stood
  <2> QED BY <2>4, <2>5, <2>6, <2>7 DEF RunOK
<1>4. TypeOK'
  BY <1>1 DEF TypeOK, PostsStay
<1>5. Registered'
  <2>1. \A p \in stored' : runs'[p].phase = "ended"
    BY <1>1 DEF Registered, TypeOK, Stood
  <2>2. ASSUME NEW q \in Posts', posts'[q].op = "reject", posts'[q].phase = "holding"
        PROVE  posts'[q].run \in stored'
    BY <1>1, <2>2 DEF Registered, PostsStay
  <2> QED BY <2>1, <2>2 DEF Registered
<1>6. \A q \in Posts' : \/ /\ q \in Posts /\ posts'[q].run = posts[q].run
                           /\ posts'[q].checkpoint = posts[q].checkpoint
                        \/ PostOK(q)'
  BY NowhereIsSane DEF PostsStay, PostOK
<1> QED BY <1>2, <1>3, <1>4, <1>5, <1>6, GrowsKeepsIInv

(* A run that goes on from its node, or through its gate again. *)
LEMMA MovesOn ==
    ASSUME IInv, NEW r \in Runs, NEW X \in Run, runs' = [runs EXCEPT ![r] = X],
           runs[r].at \in Nodes,
           X.at \in Routes[runs[r].at] \/ (X.at = runs[r].at /\ runs[r].at \in Gates),
           \/ runs[r].at \in Prompts
           \/ runs[r].at \in Gates /\ X.at # runs[r].at
           => runs[r].at \in X.passed,
           X.visited = Append(runs[r].visited, runs[r].at),
           X.checkpoints = Append(runs[r].checkpoints, Standing(X)),
           X.parent = runs[r].parent, X.owner = runs[r].owner,
           runs[r].passed \subseteq X.passed,
           X.paused => runs[r].paused \/ Backed(r)',
           X.result = "paused" => runs[r].result = "paused" \/ Backed(r)',
           Local(X), r \in stored' => X.phase = "ended",
           StoredKept(r), PostsKept
    PROVE  IInv'
<1>1. RunOK(r) /\ runs[r] \in Run
  BY Typed DEF IInv
<1> DEFINE v == runs[r].visited
           n == runs[r].at
<1>2. v \in Seq(Nodes) /\ n \in Nodes /\ X.at \in Nodes \cup {END} /\ X.paused \in BOOLEAN
      /\ X.visited \in Seq(Nodes)
  BY <1>1 DEF Run
<1>3. /\ OnPath(Checkpoint(v, n, runs[r].paused))
      /\ Cleared(Checkpoint(v, n, runs[r].paused), Allowed(r))
      /\ runs[r].paused => Backed(r)
  <2>1. Standing(runs[r]) = Checkpoint(v, n, runs[r].paused)
        /\ Standing(runs[r]).paused = runs[r].paused
    BY DEF Standing, Checkpoint
  <2> QED BY <1>1, <2>1 DEF RunOK, Sane
<1>4. Standing(X) \in Place /\ Standing(X).paused = X.paused
  BY <1>2, SMTT(30) DEF Standing, Checkpoint, Place
<1>5. RunChanges(r, X)
  BY <1>4 DEF RunChanges
<1>6. X.passed \subseteq Allowed(r)' /\ Cleared(Checkpoint(v, n, runs[r].paused), Allowed(r)')
  <2>1. Grows /\ Runs' = Runs /\ runs'[r] = X
    BY <1>5, RunGrows, ChangedRuns DEF IInv
  <2>2. r \in Lineage(r)'
    BY <2>1 DEF Lineage
  <2>3. Allowed(r) \subseteq Allowed(r)'
    BY <2>1, AllowedGrows
  <2> QED BY <1>3, <2>1, <2>2, <2>3 DEF Allowed, Cleared
<1>7. Standing(X) = Checkpoint(Append(v, n), X.at, X.paused)
  BY DEF Standing
<1>8. OnPath(Standing(X)) /\ Cleared(Standing(X), Allowed(r)')
  <2> DEFINE A == Allowed(r)'
  <2>1. /\ X.at \in Routes[n] \/ (X.at = n /\ n \in Gates)
        /\ n \in Prompts \/ (n \in Gates /\ X.at # n) => n \in A
        /\ Cleared(Checkpoint(v, n, runs[r].paused), A)
    BY <1>6 DEF n
  <2> HIDE DEF v, n, A
  <2>2. OnPath(Standing(X)) /\ Cleared(Standing(X), A)
    BY <1>2, <1>3, <1>7, <2>1, WalkOnFrom
  <2> QED BY <2>2 DEF A
<1>9. runs[r].result = "paused" => Backed(r)
  BY <1>1 DEF RunOK
<1>10. NewRunOK(r, X)
  BY <1>3, <1>4, <1>8, <1>9 DEF NewRunOK
<1> QED BY <1>5, <1>10, RunKeepsIInv

-----------------------------------------------------------------------------
(* The steps of a run.                                                      *)
LEMMA AtNode ==
    ASSUME IInv, NEW r \in Runs, Dispatched(r)
    PROVE  /\ runs[r].at \in Nodes \ Gates /\ runs[r].phase \in {"walking", "allowed"}
           /\ runs[r].at \in Prompts => runs[r].at \in runs[r].passed
<1>1. Local(runs[r])
  BY DEF IInv, RunOK
<1> QED BY <1>1, RuntimeAssumption DEF Dispatched, Local

LEMMA AdvancedRun ==
    ASSUME NEW r \in Runs, runs[r] \in Run, runs[r].at \in Nodes, NEW next \in Nodes \cup {END},
           NEW X, X = Advanced(r, next)
    PROVE  /\ X \in Run /\ X.at = next /\ X.visited = Append(runs[r].visited, runs[r].at)
           /\ X.phase = "walking" /\ X.answer = "none" /\ X.paused = runs[r].paused
           /\ X.parent = runs[r].parent /\ X.owner = runs[r].owner /\ X.passed = runs[r].passed
           /\ X.outcome = runs[r].outcome /\ X.acked = runs[r].acked
           /\ X.fired = runs[r].fired /\ X.result = runs[r].result
           /\ X.checkpoints = Append(runs[r].checkpoints, Standing(X))
<1> DEFINE walked == Append(runs[r].visited, runs[r].at)
           c == Checkpoint(walked, next, runs[r].paused)
           saved == Append(runs[r].checkpoints, c)
<1>1. walked \in Seq(Nodes) /\ runs[r].paused \in BOOLEAN
  BY DEF Run
<1>2. c \in Place
  BY <1>1 DEF Checkpoint, Place
<1>3. saved \in Seq(Place) /\ runs[r].steps + 1 \in Nat
  BY <1>2 DEF Run
<1>4. X = [runs[r] EXCEPT
              !.phase = "walking", !.at = next, !.steps = runs[r].steps + 1,
              !.visited = walked, !.answer = "none", !.checkpoints = saved]
  BY DEF Advanced
<1>5. Standing(X) = c
  <2> HIDE DEF walked, saved
  <2> QED BY <1>4 DEF Standing, Run
<1> HIDE DEF walked, c
<1>6. saved = Append(runs[r].checkpoints, Standing(X))
  BY <1>5
<1> HIDE DEF saved
<1>7. X \in Run
  <2> DEFINE Y == [runs[r] EXCEPT !.phase = "walking", !.at = next, !.steps = runs[r].steps + 1]
  <2>1. Y \in Run
    BY <1>3 DEF Run
  <2> HIDE DEF Y
  <2> DEFINE Z == [Y EXCEPT !.visited = walked, !.answer = "none"]
  <2>2. Z \in Run
    BY <1>1, <2>1 DEF Run
  <2>3. X = [Z EXCEPT !.checkpoints = saved]
    BY <1>4 DEF Y
  <2> HIDE DEF Z
  <2> QED BY <1>3, <2>2, <2>3 DEF Run
<1>8. /\ X.at = next /\ X.visited = walked
      /\ X.phase = "walking" /\ X.answer = "none" /\ X.paused = runs[r].paused
      /\ X.parent = runs[r].parent /\ X.owner = runs[r].owner /\ X.passed = runs[r].passed
  BY <1>4 DEF Run
<1>9. /\ X.outcome = runs[r].outcome /\ X.acked = runs[r].acked
      /\ X.fired = runs[r].fired /\ X.result = runs[r].result
      /\ X.checkpoints = saved
  BY <1>4 DEF Run
<1> QED BY <1>6, <1>7, <1>8, <1>9 DEF walked

LEMMA StepKeeps ==
    ASSUME IInv, NEW r \in Runs, Step(r)
    PROVE  IInv'
<1>1. runs[r] \in Run /\ Local(runs[r]) /\ r \notin stored
  BY Typed, NotStored, AtNode DEF IInv, RunOK, Step
<1>2. PICK next \in Routes[runs[r].at] : runs' = [runs EXCEPT ![r] = Advanced(r, next)]
  BY DEF Step
<1>3. /\ runs[r].at \in Nodes \ Gates
      /\ runs[r].at \in Prompts => runs[r].at \in runs[r].passed
  BY AtNode DEF Step
<1>4. next \in Nodes \cup {END}
  BY <1>2, <1>3, RuntimeAssumption
<1>5. PICK X : X = Advanced(r, next)
  OBVIOUS
<1>6. /\ X \in Run /\ X.at = next /\ X.visited = Append(runs[r].visited, runs[r].at)
      /\ X.phase = "walking" /\ X.answer = "none" /\ X.paused = runs[r].paused
      /\ X.parent = runs[r].parent /\ X.owner = runs[r].owner /\ X.passed = runs[r].passed
      /\ X.outcome = runs[r].outcome /\ X.acked = runs[r].acked
      /\ X.fired = runs[r].fired /\ X.result = runs[r].result
      /\ X.checkpoints = Append(runs[r].checkpoints, Standing(X))
  BY <1>1, <1>3, <1>4, <1>5, AdvancedRun
<1>7. Local(X)
  BY <1>1, <1>6 DEF Local
<1>8. StoredKept(r) /\ PostsKept /\ r \notin stored'
  BY <1>1, SamePosts DEF IInv, Step, StoredKept, TypeOK
<1>9. runs' = [runs EXCEPT ![r] = X]
  BY <1>2, <1>5
<1>10. X.at \in Routes[runs[r].at]
  BY <1>2, <1>6
<1> QED BY <1>3, <1>6, <1>7, <1>8, <1>9, <1>10, MovesOn

(* A node that is skipped counts as passed. *)
LEMMA SkipKeeps ==
    ASSUME IInv, NEW r \in Runs, Skip(r)
    PROVE  IInv'
<1>1. runs[r] \in Run /\ Local(runs[r]) /\ r \notin stored
  BY Typed, NotStored DEF IInv, RunOK, Skip
<1>2. PICK next \in Routes[runs[r].at] :
         runs' = [runs EXCEPT ![r] =
                     [Advanced(r, next) EXCEPT !.passed = @ \cup {runs[r].at}]]
  BY DEF Skip
<1>3. runs[r].at \in Nodes /\ runs[r].phase = "walking"
  BY DEF Skip
<1>4. next \in Nodes \cup {END}
  BY <1>2, <1>3, RuntimeAssumption
<1>5. PICK Y : Y = Advanced(r, next)
  OBVIOUS
<1>6. /\ Y \in Run /\ Y.at = next /\ Y.visited = Append(runs[r].visited, runs[r].at)
      /\ Y.phase = "walking" /\ Y.answer = "none" /\ Y.paused = runs[r].paused
      /\ Y.parent = runs[r].parent /\ Y.owner = runs[r].owner /\ Y.passed = runs[r].passed
      /\ Y.outcome = runs[r].outcome /\ Y.acked = runs[r].acked
      /\ Y.fired = runs[r].fired /\ Y.result = runs[r].result
      /\ Y.checkpoints = Append(runs[r].checkpoints, Standing(Y))
  BY <1>1, <1>3, <1>4, <1>5, AdvancedRun
<1>7. PICK passed \in SUBSET Nodes : passed = runs[r].passed \cup {runs[r].at}
  BY <1>1, <1>3 DEF Run
<1>8. PICK X : X = [Y EXCEPT !.passed = passed]
  OBVIOUS
<1>9. /\ X \in Run /\ X.at = next /\ X.visited = Y.visited
      /\ X.phase = "walking" /\ X.answer = "none" /\ X.paused = runs[r].paused
      /\ X.parent = runs[r].parent /\ X.owner = runs[r].owner /\ X.passed = passed
      /\ X.outcome = runs[r].outcome /\ X.acked = runs[r].acked
      /\ X.fired = runs[r].fired /\ X.result = runs[r].result
      /\ X.checkpoints = Y.checkpoints
  BY <1>6, <1>7, <1>8 DEF Run
<1>10. Standing(X) = Standing(Y)
  BY <1>6, <1>9 DEF Standing
<1>11. Local(X)
  BY <1>1, <1>9 DEF Local
<1>12. StoredKept(r) /\ PostsKept /\ r \notin stored'
  BY <1>1, SamePosts DEF IInv, Skip, StoredKept, TypeOK
<1>13. runs' = [runs EXCEPT ![r] = X]
  BY <1>2, <1>5, <1>6, <1>7, <1>8
<1>14. X.at \in Routes[runs[r].at] /\ runs[r].at \in X.passed /\ runs[r].passed \subseteq X.passed
  BY <1>2, <1>7, <1>9
<1> QED BY <1>3, <1>6, <1>9, <1>10, <1>11, <1>12, <1>13, <1>14, MovesOn

(* A run that raises stands where it stood. *)
LEMMA FailedRun ==
    ASSUME NEW r \in Runs, runs[r] \in Run, Local(runs[r]), NEW outcome,
           \/ outcome = runs[r].outcome
           \/ outcome = "reject" /\ runs[r].acked = "reject"
           \/ outcome = "unset" /\ runs[r].answer = "unset"
           \/ outcome = "timeout" /\ runs[r].fired,
           NEW X, X = Failed(r, outcome)
    PROVE  Stood(runs[r], X) /\ X.phase = "ended" /\ X.passed = runs[r].passed
<1>1. X \in Run
  BY DEF Failed, Run, Decision
<1>2. /\ X.visited = runs[r].visited /\ X.at = runs[r].at
      /\ X.paused = runs[r].paused /\ X.checkpoints = runs[r].checkpoints
      /\ X.parent = runs[r].parent /\ X.owner = runs[r].owner /\ X.passed = runs[r].passed
      /\ X.phase = "ended" /\ X.result = "raised" /\ X.outcome = outcome
      /\ X.acked = runs[r].acked /\ X.fired = runs[r].fired /\ X.answer = runs[r].answer
  BY DEF Failed, Run
<1>3. Local(X)
  BY <1>2 DEF Local, Decision
<1> QED BY <1>1, <1>2, <1>3 DEF Stood

LEMMA RaiseKeeps ==
    ASSUME IInv, NEW r \in Runs, Raise(r)
    PROVE  IInv'
<1>1. runs[r] \in Run /\ Local(runs[r]) /\ r \notin stored /\ TypeOK
  BY Typed, NotStored, AtNode DEF IInv, RunOK, Raise
<1>2. PICK X : X = Failed(r, runs[r].outcome)
  OBVIOUS
<1>3. Stood(runs[r], X) /\ X.phase = "ended"
  BY <1>1, <1>2, FailedRun
<1>4. runs' = [runs EXCEPT ![r] = X] /\ posts' = Reported(r, "error")
      /\ UNCHANGED <<known, stored, crashes>>
  BY <1>2 DEF Raise
<1>5. PostsKept /\ StoredKept(r)
  BY <1>1, <1>4, ReportedPosts DEF StoredKept, TypeOK
<1> QED BY <1>3, <1>4, <1>5, StandsStill DEF Stood

LEMMA RegisterKeeps ==
    ASSUME TypeOK, NEW r \in Runs, Register(r)
    PROVE  StoredKept(r) /\ PostsKept /\ r \in stored'
<1>1. PostsKept
  BY ReportedPosts DEF Register
<1> QED BY <1>1 DEF Register, StoredKept, TypeOK

LEMMA EndKeeps ==
    ASSUME IInv, NEW r \in Runs, End(r)
    PROVE  IInv'
<1>1. runs[r] \in Run /\ Local(runs[r]) /\ TypeOK
  BY Typed DEF IInv, RunOK
<1>2. PICK result \in {"paused", "failed", "succeeded"} :
         /\ runs' = [runs EXCEPT ![r].phase = "ended", ![r].result = result]
         /\ result = "paused" => runs[r].paused
  BY <1>1 DEF End, Run
<1> DEFINE X == [runs[r] EXCEPT !.phase = "ended", !.result = result]
<1>3. X \in Run
  BY <1>1 DEF Run
<1>4. /\ X.visited = runs[r].visited /\ X.at = runs[r].at
      /\ X.paused = runs[r].paused /\ X.checkpoints = runs[r].checkpoints
      /\ X.parent = runs[r].parent /\ X.owner = runs[r].owner /\ X.passed = runs[r].passed
      /\ X.phase = "ended" /\ X.result = result /\ X.outcome = runs[r].outcome
      /\ X.answer = runs[r].answer /\ X.acked = runs[r].acked /\ X.fired = runs[r].fired
  BY <1>1 DEF Run
<1>5. runs' = [runs EXCEPT ![r] = X]
  BY <1>2
<1> HIDE DEF X
<1>6. Local(X)
  BY <1>1, <1>4 DEF Local
<1>7. StoredKept(r) /\ PostsKept
  BY <1>1, RegisterKeeps DEF End
<1> QED BY <1>2, <1>3, <1>4, <1>5, <1>6, <1>7, StandsStill

LEMMA OpenedRun ==
    ASSUME NEW r \in Runs, runs[r] \in Run, runs[r].phase = "walking",
           NEW phase, NEW X, X = Opened(r, phase),
           \/ phase = "asking" /\ runs[r].at \in Gates
           \/ phase = "prompting" /\ runs[r].at \in Prompts
    PROVE  Stood(runs[r], X) /\ X.phase = phase
<1>1. /\ X \in Run /\ X.visited = runs[r].visited /\ X.at = runs[r].at
      /\ X.paused = runs[r].paused /\ X.checkpoints = runs[r].checkpoints
      /\ X.parent = runs[r].parent /\ X.owner = runs[r].owner /\ X.passed = runs[r].passed
      /\ X.phase = phase /\ X.result = runs[r].result /\ X.outcome = "none"
      /\ X.answer = "none"
  BY DEF Opened, Run, Decision
<1>2. Local(X)
  BY <1>1 DEF Local, Decision
<1> QED BY <1>1, <1>2 DEF Stood

LEMMA OpenGateKeeps ==
    ASSUME IInv, NEW r \in Runs, OpenGate(r)
    PROVE  IInv'
<1>1. runs[r] \in Run /\ r \notin stored /\ TypeOK
  BY Typed, NotStored DEF IInv, OpenGate
<1>2. PICK X : X = Opened(r, "asking")
  OBVIOUS
<1>3. Stood(runs[r], X)
  BY <1>1, <1>2, OpenedRun DEF OpenGate
<1>4. runs' = [runs EXCEPT ![r] = X] /\ UNCHANGED <<known, stored, posts, crashes>>
  BY <1>2 DEF OpenGate
<1>5. StoredKept(r) /\ PostsKept /\ r \notin stored'
  BY <1>1, <1>4, SamePosts DEF StoredKept, TypeOK
<1> QED BY <1>3, <1>4, <1>5, StandsStill DEF Stood

(* Runs that are as they were, or whose event is registered no more. *)
LEMMA SameStood ==
    ASSUME IInv, NEW p \in Runs
    PROVE  Stood(runs[p], runs[p]) /\ Stood(runs[p], [runs[p] EXCEPT !.heard = FALSE])
<1>1. runs[p] \in Run /\ Local(runs[p])
  BY Typed DEF IInv, RunOK
<1>2. PICK X : X = [runs[p] EXCEPT !.heard = FALSE]
  OBVIOUS
<1>3. /\ X \in Run /\ X.visited = runs[p].visited /\ X.at = runs[p].at
      /\ X.paused = runs[p].paused /\ X.checkpoints = runs[p].checkpoints
      /\ X.parent = runs[p].parent /\ X.owner = runs[p].owner /\ X.passed = runs[p].passed
      /\ X.phase = runs[p].phase /\ X.result = runs[p].result
      /\ X.outcome = runs[p].outcome /\ X.answer = runs[p].answer
      /\ X.acked = runs[p].acked /\ X.fired = runs[p].fired
  BY <1>1, <1>2 DEF Run
<1>4. Local(X)
  BY <1>1, <1>3 DEF Local
<1> QED BY <1>1, <1>2, <1>3, <1>4 DEF Stood

(* Runs that each stand are a sequence of runs. *)
LEMMA RunsSeq ==
    ASSUME TypeOK, runs' = [p \in Runs |-> runs'[p]],
           \A p \in Runs : Stood(runs[p], runs'[p])
    PROVE  runs' \in Seq(Run) /\ Runs' = Runs
<1>1. PICK n \in Nat : n = Len(runs) /\ Runs = 1..n
  BY DEF TypeOK, Runs
<1>2. \A p \in 1..n : runs'[p] \in Run
  BY <1>1 DEF Stood
<1>3. runs' \in [1..n -> Run]
  BY <1>1, <1>2
<1>4. runs' \in Seq(Run)
  BY <1>3, SeqDef
<1>5. DOMAIN runs' = Runs
  OBVIOUS
<1> QED BY <1>4, <1>5 DEF Runs

LEMMA OpenPromptKeeps ==
    ASSUME IInv, NEW r \in Runs, OpenPrompt(r)
    PROVE  IInv'
<1>1. runs[r] \in Run /\ TypeOK
  BY Typed DEF IInv
<1> DEFINE F(p) == IF p = r THEN Opened(r, "prompting")
                   ELSE IF p \in At(Key(r)) /\ runs[p].answer # "none"
                        THEN [runs[p] EXCEPT !.heard = FALSE] ELSE runs[p]
<1>2. runs' = [p \in Runs |-> F(p)] /\ UNCHANGED <<known, stored, posts, crashes>>
  BY DEF OpenPrompt
<1>3. Stood(runs[r], F(r))
  BY <1>1, OpenedRun DEF OpenPrompt
<1>4. \A p \in Runs : Stood(runs[p], F(p))
  BY <1>3, SameStood
<1> HIDE DEF F
<1>5. runs' = [p \in Runs |-> runs'[p]] /\ \A p \in Runs : Stood(runs[p], runs'[p])
  BY <1>2, <1>4
<1>6. runs' \in Seq(Run) /\ Runs' = Runs
  BY <1>1, <1>5, RunsSeq
<1>7. PostsStay
  BY <1>1, <1>2, SamePosts, KeptStay
<1> QED BY <1>1, <1>2, <1>5, <1>6, <1>7, AllStand DEF TypeOK

LEMMA FireKeeps ==
    ASSUME IInv, NEW r \in Runs, Fire(r)
    PROVE  IInv'
<1>1. runs[r] \in Run /\ Local(runs[r]) /\ r \notin stored /\ TypeOK
  BY Typed, NotStored DEF IInv, RunOK, Fire, Asks
<1> DEFINE X == [runs[r] EXCEPT !.fired = TRUE]
<1>2. /\ X \in Run /\ X.visited = runs[r].visited /\ X.at = runs[r].at
      /\ X.paused = runs[r].paused /\ X.checkpoints = runs[r].checkpoints
      /\ X.parent = runs[r].parent /\ X.owner = runs[r].owner /\ X.passed = runs[r].passed
      /\ X.phase = runs[r].phase /\ X.result = runs[r].result
      /\ X.outcome = runs[r].outcome /\ X.answer = runs[r].answer
      /\ X.acked = runs[r].acked /\ X.fired
  BY <1>1 DEF Run
<1>3. runs' = [runs EXCEPT ![r] = X]
  BY DEF Fire
<1> HIDE DEF X
<1>4. Local(X)
  BY <1>1, <1>2 DEF Local
<1>5. StoredKept(r) /\ PostsKept /\ r \notin stored'
  BY <1>1, SamePosts DEF Fire, StoredKept, TypeOK
<1> QED BY <1>2, <1>3, <1>4, <1>5, StandsStill

(* A decision, of a person or of reject(). *)
LEMMA GivenStood ==
    ASSUME IInv, NEW r \in Runs, NEW answer \in Decision, Asks(r)
    PROVE  Stood(runs[r], Given(runs[r], answer))
<1>1. runs[r] \in Run /\ Local(runs[r])
  BY Typed DEF IInv, RunOK
<1>2. runs[r].at \in Nodes
  BY <1>1, RuntimeAssumption DEF Asks, Local
<1> DEFINE X == Given(runs[r], answer)
<1>3. Passed(runs[r], answer) \in SUBSET Nodes
      /\ runs[r].passed \subseteq Passed(runs[r], answer)
      /\ (runs[r].at \in Gates \/ answer = "approve"
          => runs[r].at \in Passed(runs[r], answer))
  BY <1>1, <1>2 DEF Passed, Run
<1>4. X \in Run
  BY <1>1, <1>3 DEF Given, Run, Decision
<1>5. /\ X.visited = runs[r].visited /\ X.at = runs[r].at
      /\ X.paused = runs[r].paused /\ X.checkpoints = runs[r].checkpoints
      /\ X.parent = runs[r].parent /\ X.owner = runs[r].owner
      /\ X.passed = Passed(runs[r], answer)
      /\ X.phase = runs[r].phase /\ X.result = runs[r].result
      /\ X.outcome = runs[r].outcome /\ X.answer = answer
      /\ X.acked = answer /\ X.fired = runs[r].fired
  BY <1>1 DEF Given, Run
<1> HIDE DEF X
<1>6. Local(X)
  BY <1>1, <1>3, <1>5 DEF Local, Asks, Decision
<1>7. Stood(runs[r], X)
  BY <1>3, <1>4, <1>5, <1>6 DEF Stood
<1> QED BY <1>7 DEF X

LEMMA ToldKeeps ==
    ASSUME IInv, NEW key, NEW answer \in Decision, runs' = Told(key, answer),
           PostsStay, known' \subseteq stored, stored' = stored
    PROVE  IInv'
<1>1. ASSUME NEW p \in Runs PROVE Stood(runs[p], runs'[p])
  <2>1. CASE p \in At(key) /\ (runs[p].heard \/ runs[p].answer # "none")
    <3>1. Asks(p) /\ runs'[p] = Given(runs[p], answer)
      BY <2>1 DEF Told, At
    <3> QED BY <3>1, GivenStood
  <2>2. CASE ~(p \in At(key) /\ (runs[p].heard \/ runs[p].answer # "none"))
    <3>1. runs'[p] = runs[p]
      BY <2>2 DEF Told
    <3> QED BY <3>1, SameStood
  <2> QED BY <2>1, <2>2
<1>2. runs' = [p \in Runs |-> runs'[p]]
  BY DEF Told
<1>3. runs' \in Seq(Run) /\ Runs' = Runs
  BY <1>1, <1>2, RunsSeq DEF IInv
<1> QED BY <1>1, <1>3, AllStand

LEMMA SubmitKeeps ==
    ASSUME IInv, NEW r \in Runs, NEW answer \in {"approve", "reject"}, Submit(r, answer)
    PROVE  IInv'
<1>1. PICK key : key = Key(r)
  OBVIOUS
<1>2. runs' = Told(key, answer) /\ UNCHANGED <<known, stored, posts, crashes>>
  BY <1>1 DEF Submit
<1>3. PostsStay /\ known' \subseteq stored /\ stored' = stored
  BY <1>2, SamePosts, KeptStay DEF IInv, TypeOK
<1> QED BY <1>2, <1>3, ToldKeeps DEF Decision

(* The inbox's rejection also asks to reject the run that owns the key. *)
LEMMA DecideKeeps ==
    ASSUME IInv, NEW r \in Runs, NEW answer \in {"approve", "reject"}, Decide(r, answer)
    PROVE  IInv'
<1>1. TypeOK /\ RunOK(r) /\ Registered
  BY DEF IInv
<1>2. PICK key : key = Key(r)
  OBVIOUS
<1>3. runs' = Told(key, answer) /\ UNCHANGED <<known, stored, crashes>> /\ Asks(r)
  BY <1>2 DEF Decide
<1>4. known' \subseteq stored /\ stored' = stored
  BY <1>1, <1>3 DEF TypeOK
<1>5. PostsStay
  <2>1. CASE UNCHANGED posts
    BY <1>1, <2>1, SamePosts, KeptStay
  <2>2. CASE posts' # posts
    <3>1. PICK owner : owner = Key(r)[1]
      OBVIOUS
    <3>2. owner \in Runs
      BY <1>1, <3>1 DEF Key, RunOK, Owned, TypeOK
    <3>3. PICK c : c = Checkpoint(<<>>, END, FALSE)
      OBVIOUS
    <3>4. c \in Place
      BY <3>3 DEF Checkpoint, Place
    <3>5. PICK post : post = Request("reject", owner, c, runs[r].at, END)
      OBVIOUS
    <3>6. posts' = Append(posts, post)
      BY <2>2, <3>1, <3>3, <3>5 DEF Decide
    <3>7. runs[r].at \in Nodes \cup {END} /\ owner \in Nat
      <4>1. runs[r] \in Run
        BY <1>1, Typed
      <4>2. owner \in Nat
        BY <3>2, <1>1 DEF Runs, TypeOK
      <4> QED BY <4>1, <4>2 DEF Run
    <3>8. post \in Post /\ post.phase = "waiting" /\ post.run = owner /\ post.checkpoint = c
      BY <3>4, <3>5, <3>7 DEF Request, Post, Reply
    <3>9. /\ posts' \in Seq(Post)
          /\ \A q \in Posts' : posts'[q] = post \/ (q \in Posts /\ posts'[q] = posts[q])
      BY <1>1, <3>6, <3>8 DEF TypeOK, Posts
    <3> QED BY <3>2, <3>3, <3>8, <3>9 DEF PostsStay
  <2> QED BY <2>1, <2>2
<1> QED BY <1>3, <1>4, <1>5, ToldKeeps DEF Decision

-----------------------------------------------------------------------------
(* Gates and prompts.                                                       *)

(* A run that ends paused at its gate has just saved a checkpoint that leads *)
(* back there, and nobody else was saving one: it was not registered yet.   *)
LEMMA PausedKeeps ==
    ASSUME IInv, NEW r \in Runs, NEW outcome, runs[r].phase = "asking",
           \/ outcome \in Decision /\ outcome = runs[r].acked
           \/ outcome = "timeout" /\ runs[r].fired,
           runs' = [runs EXCEPT ![r] = [Paused(r) EXCEPT !.outcome = outcome]],
           Register(r)
    PROVE  IInv'
<1>1. runs[r] \in Run /\ Local(runs[r]) /\ r \notin stored /\ TypeOK /\ Registered
  BY Typed, NotStored DEF IInv, RunOK
<1>2. runs[r].at \in Gates /\ runs[r].at \in Nodes /\ runs[r].at \notin Prompts
  BY <1>1, RuntimeAssumption DEF Local
<1> DEFINE walked == Append(runs[r].visited, runs[r].at)
           c == Checkpoint(walked, runs[r].at, TRUE)
           saved == Append(runs[r].checkpoints, c)
           X == [Paused(r) EXCEPT !.outcome = outcome]
<1>3. walked \in Seq(Nodes)
  BY <1>1, <1>2 DEF Run
<1>4. c \in Place /\ c.next = runs[r].at
  BY <1>2, <1>3 DEF Checkpoint, Place
<1>5. saved \in Seq(Place) /\ runs[r].steps + 1 \in Nat
      /\ Len(saved) \in Nat \ {0} /\ saved[Len(saved)] = c
  <2>1. runs[r].checkpoints \in Seq(Place) /\ runs[r].steps \in Nat
    BY <1>1 DEF Run
  <2> HIDE DEF c
  <2> QED BY <1>4, <2>1
<1>6. X = [runs[r] EXCEPT
              !.phase = "ended", !.steps = runs[r].steps + 1, !.visited = walked,
              !.paused = TRUE, !.answer = "none", !.checkpoints = saved,
              !.result = "paused", !.outcome = outcome]
  BY DEF Paused
<1>7. runs' = [runs EXCEPT ![r] = X]
  OBVIOUS
<1>8. Standing(X) = c
  <2> HIDE DEF walked, saved, X
  <2> QED BY <1>1, <1>6 DEF Standing, Run
<1> HIDE DEF walked, c, X
<1>9. saved = Append(runs[r].checkpoints, Standing(X))
  BY <1>8
<1> HIDE DEF saved
<1>10. /\ X \in Run /\ X.at = runs[r].at /\ X.visited = walked
       /\ X.phase = "ended" /\ X.paused /\ X.result = "paused"
       /\ X.parent = runs[r].parent /\ X.owner = runs[r].owner /\ X.passed = runs[r].passed
       /\ X.outcome = outcome /\ X.acked = runs[r].acked /\ X.fired = runs[r].fired
       /\ X.checkpoints = saved /\ X.answer = "none"
  BY <1>1, <1>3, <1>5, <1>6 DEF Run, Decision
<1>11. StoredKept(r) /\ PostsKept /\ r \in stored'
  BY <1>1, RegisterKeeps
<1>12. Local(X)
  BY <1>10 DEF Local, Decision
<1>13. Runs' = Runs /\ runs'[r] = X
  BY <1>7, <1>1 DEF TypeOK, Runs
<1>14. Backed(r)'
  <2>1. \A q \in Posts' : ~Stores(q, r)'
    BY <1>1, <1>11 DEF Registered, PostsKept, Stores
  <2>2. Kept(r)' = Len(saved)
    BY <2>1, <1>10, <1>13 DEF Kept
  <2>3. r \in Lineage(r)'
    BY <1>13 DEF Lineage
  <2>4. Len(saved) \in 1..Kept(r)' /\ runs'[r].checkpoints[Len(saved)].next \in Gates
    <3>1. runs'[r].checkpoints[Len(saved)].next \in Gates
      BY <1>2, <1>4, <1>5, <1>10, <1>13
    <3>2. Len(saved) \in 1..Len(saved)
      BY <1>5
    <3> QED BY <2>2, <3>1, <3>2
  <2> QED BY <1>11, <2>3, <2>4 DEF Backed
<1> QED BY <1>2, <1>7, <1>9, <1>10, <1>11, <1>12, <1>14, MovesOn DEF walked

LEMMA GateAnsweredKeeps ==
    ASSUME IInv, NEW r \in Runs, GateAnswered(r)
    PROVE  IInv'
<1>1. runs[r] \in Run /\ Local(runs[r]) /\ r \notin stored /\ TypeOK
  BY Typed, NotStored DEF IInv, RunOK, GateAnswered
<1>2. /\ runs[r].phase = "asking" /\ runs[r].answer \in Decision
      /\ runs[r].answer = runs[r].acked /\ runs[r].at \in runs[r].passed
      /\ runs[r].at \in Gates /\ runs[r].at \in Nodes
  BY <1>1, RuntimeAssumption DEF GateAnswered, Local, Run
<1>3. CASE ~runs[r].paused
  <2>1. PICK next \in Routes[runs[r].at] :
           /\ runs' = [runs EXCEPT ![r] =
                          [Advanced(r, next) EXCEPT !.outcome = runs[r].answer]]
           /\ UNCHANGED <<known, stored, posts, crashes>>
    BY <1>3 DEF GateAnswered
  <2>2. next \in Nodes \cup {END}
    BY <1>2, <2>1, RuntimeAssumption
  <2>3. PICK Y : Y = Advanced(r, next)
    OBVIOUS
  <2>4. /\ Y \in Run /\ Y.at = next /\ Y.visited = Append(runs[r].visited, runs[r].at)
        /\ Y.phase = "walking" /\ Y.answer = "none" /\ Y.paused = runs[r].paused
        /\ Y.parent = runs[r].parent /\ Y.owner = runs[r].owner /\ Y.passed = runs[r].passed
        /\ Y.outcome = runs[r].outcome /\ Y.acked = runs[r].acked
        /\ Y.fired = runs[r].fired /\ Y.result = runs[r].result
        /\ Y.checkpoints = Append(runs[r].checkpoints, Standing(Y))
    BY <1>1, <1>2, <2>2, <2>3, AdvancedRun
  <2>5. PICK X : X = [Y EXCEPT !.outcome = runs[r].answer]
    OBVIOUS
  <2>6. /\ X \in Run /\ X.at = next /\ X.visited = Y.visited
        /\ X.phase = "walking" /\ X.answer = "none" /\ X.paused = runs[r].paused
        /\ X.parent = runs[r].parent /\ X.owner = runs[r].owner /\ X.passed = runs[r].passed
        /\ X.outcome = runs[r].answer /\ X.acked = runs[r].acked
        /\ X.fired = runs[r].fired /\ X.result = runs[r].result
        /\ X.checkpoints = Y.checkpoints
    BY <1>2, <2>4, <2>5 DEF Run, Decision
  <2>7. Standing(X) = Standing(Y)
    BY <2>4, <2>6 DEF Standing
  <2>8. Local(X)
    BY <1>2, <2>6 DEF Local, Decision
  <2>9. StoredKept(r) /\ PostsKept /\ r \notin stored'
    BY <1>1, <2>1, SamePosts DEF StoredKept, TypeOK
  <2>10. runs' = [runs EXCEPT ![r] = X]
    BY <2>1, <2>3, <2>5
  <2> QED BY <1>2, <2>1, <2>4, <2>6, <2>7, <2>8, <2>9, <2>10, MovesOn
<1>4. CASE runs[r].paused
  BY <1>2, <1>4, PausedKeeps DEF GateAnswered
<1> QED BY <1>3, <1>4

LEMMA GateTimedOutKeeps ==
    ASSUME IInv, NEW r \in Runs, GateTimedOut(r)
    PROVE  IInv'
BY PausedKeeps DEF GateTimedOut

(* Two runs that wait under one key wait to be let through, and have both    *)
(* been resumed: who owns the key has ended, or is the one of them.         *)
LEMMA SharedKey ==
    ASSUME IInv, NEW r \in Runs, runs[r].phase = "prompting", NEW p \in At(Key(r)), p # r
    PROVE  runs[p].phase = "prompting" /\ runs[p].parent # 0 /\ runs[r].parent # 0
<1>1. /\ Local(runs[r]) /\ Owned(r) /\ runs[r].phase # "ended"
      /\ p \in Runs /\ Local(runs[p]) /\ Owned(p) /\ Asks(p) /\ Key(p) = Key(r)
      /\ runs[p].phase # "ended"
  BY DEF IInv, RunOK, At, Asks
<1>2. runs[r].at \in Prompts
  BY <1>1 DEF Local
<1>3. runs[p].at = runs[r].at
  BY <1>1 DEF Key
<1>4. runs[p].owner = runs[r].owner
  BY <1>1, <1>2, <1>3 DEF Key
<1>5. runs[p].phase = "prompting"
  BY <1>1, <1>2, <1>3, RuntimeAssumption DEF Local, Asks
<1>6. r \notin stored /\ p \notin stored
  BY <1>1, NotStored
<1> QED BY <1>1, <1>4, <1>5, <1>6 DEF Owned

LEMMA LeavesKeeps ==
    ASSUME IInv, NEW r \in Runs, NEW gone, NEW woken \in BOOLEAN, runs[r].phase = "prompting",
           Stood(runs[r], gone), Leaves(r, gone, woken),
           PostsStay, UNCHANGED <<known, stored>>
    PROVE  IInv'
<1>1. ASSUME NEW p \in Runs PROVE Stood(runs[p], runs'[p])
  <2>1. CASE p = r
    BY <2>1 DEF Leaves
  <2>2. CASE p # r /\ p \notin At(Key(r))
    BY <2>2, SameStood DEF Leaves
  <2>3. CASE p # r /\ p \in At(Key(r))
    <3>1. runs[p] \in Run /\ Local(runs[p])
      BY Typed DEF IInv, RunOK
    <3>2. runs[p].phase = "prompting" /\ runs[p].parent # 0
      BY <2>3, SharedKey
    <3>3. PICK answer : answer = IF woken /\ runs[p].answer # "none" THEN "unset"
                                 ELSE runs[p].answer
      OBVIOUS
    <3>4. PICK X : X = [runs[p] EXCEPT !.heard = FALSE, !.answer = answer]
      OBVIOUS
    <3>5. runs'[p] = X
      BY <2>3, <3>3, <3>4 DEF Leaves
    <3>6. answer = "unset" \/ answer = runs[p].answer
      BY <3>3
    <3>7. /\ X \in Run /\ X.visited = runs[p].visited /\ X.at = runs[p].at
          /\ X.paused = runs[p].paused /\ X.checkpoints = runs[p].checkpoints
          /\ X.parent = runs[p].parent /\ X.owner = runs[p].owner /\ X.passed = runs[p].passed
          /\ X.phase = runs[p].phase /\ X.result = runs[p].result
          /\ X.outcome = runs[p].outcome /\ X.answer = answer
          /\ X.acked = runs[p].acked /\ X.fired = runs[p].fired
      BY <3>1, <3>4, <3>6 DEF Run
    <3>8. Local(X)
      BY <3>1, <3>2, <3>6, <3>7 DEF Local, Decision
    <3> QED BY <3>5, <3>7, <3>8 DEF Stood
  <2> QED BY <2>1, <2>2, <2>3
<1>2. runs' = [p \in Runs |-> runs'[p]]
  BY DEF Leaves
<1>3. runs' \in Seq(Run) /\ Runs' = Runs
  BY <1>1, <1>2, RunsSeq DEF IInv
<1>4. known' \subseteq stored /\ stored' = stored
  BY DEF IInv, TypeOK
<1> QED BY <1>1, <1>3, <1>4, AllStand

LEMMA PromptKeeps ==
    ASSUME IInv, NEW r \in Runs, PromptAnswered(r) \/ PromptTimedOut(r)
    PROVE  IInv'
<1>1. runs[r] \in Run /\ Local(runs[r]) /\ TypeOK /\ runs[r].phase = "prompting"
  BY Typed DEF IInv, RunOK, PromptAnswered, PromptTimedOut
<1>2. CASE PromptTimedOut(r)
  <2>1. PICK X : X = Failed(r, "timeout")
    OBVIOUS
  <2>2. Stood(runs[r], X)
    BY <1>1, <1>2, <2>1, FailedRun DEF PromptTimedOut
  <2>3. Leaves(r, X, FALSE) /\ PostsStay /\ UNCHANGED <<known, stored>>
    BY <1>1, <1>2, <2>1, ReportedPosts, KeptStay DEF PromptTimedOut
  <2> QED BY <1>1, <2>2, <2>3, LeavesKeeps
<1>3. CASE PromptAnswered(r) /\ runs[r].answer \in {"reject", "unset"}
  <2>1. PICK X : X = Failed(r, runs[r].answer)
    OBVIOUS
  <2>2. runs[r].answer = "reject" => runs[r].acked = "reject"
    BY <1>1 DEF Local, Decision
  <2>3. Stood(runs[r], X)
    BY <1>1, <1>3, <2>1, <2>2, FailedRun
  <2>4. Leaves(r, X, TRUE) /\ PostsStay /\ UNCHANGED <<known, stored>>
    BY <1>1, <1>3, <2>1, ReportedPosts, KeptStay DEF PromptAnswered
  <2> QED BY <1>1, <2>3, <2>4, LeavesKeeps
<1>4. CASE PromptAnswered(r) /\ runs[r].answer = "approve"
  <2>1. runs[r].acked = "approve" /\ runs[r].at \in runs[r].passed /\ runs[r].at \in Prompts
    BY <1>1, <1>4 DEF Local, Decision
  <2>2. PICK X : X = [runs[r] EXCEPT !.phase = "allowed", !.outcome = "approve"]
    OBVIOUS
  <2>3. /\ X \in Run /\ X.visited = runs[r].visited /\ X.at = runs[r].at
        /\ X.paused = runs[r].paused /\ X.checkpoints = runs[r].checkpoints
        /\ X.parent = runs[r].parent /\ X.owner = runs[r].owner /\ X.passed = runs[r].passed
        /\ X.phase = "allowed" /\ X.result = runs[r].result
        /\ X.outcome = "approve" /\ X.acked = runs[r].acked /\ X.answer = "approve"
    BY <1>1, <1>4, <2>2 DEF Run, Decision
  <2>4. Local(X)
    BY <2>1, <2>3 DEF Local, Decision
  <2>5. Stood(runs[r], X)
    BY <1>1, <2>3, <2>4 DEF Stood
  <2>6. Leaves(r, X, TRUE) /\ PostsStay /\ UNCHANGED <<known, stored>>
    BY <1>1, <1>4, <2>2, SamePosts, KeptStay DEF PromptAnswered
  <2> QED BY <1>1, <2>5, <2>6, LeavesKeeps
<1> QED BY <1>2, <1>3, <1>4 DEF PromptAnswered

-----------------------------------------------------------------------------
(* Requests.  As long as no other request starts to store a checkpoint, what *)
(* a crash leaves does not shrink.                                          *)
LEMMA RequestsGrow ==
    ASSUME UNCHANGED <<runs, stored>>,
           \A p \in Runs : \A q \in Posts' : Stores(q, p)' => q \in Posts /\ Stores(q, p)
    PROVE  Grows
<1>1. Runs' = Runs
  BY DEF Runs
<1>2. ASSUME NEW p \in Runs, NEW i \in 1..Kept(p)
      PROVE  i \in 1..Kept(p)' /\ runs'[p].checkpoints[i] = runs[p].checkpoints[i]
  <2> DEFINE n == Len(runs[p].checkpoints)
  <2>1. CASE \E q \in Posts : Stores(q, p)
    <3>1. Kept(p) = n - 1 /\ (Kept(p)' = n \/ Kept(p)' = n - 1)
      BY <2>1 DEF Kept
    <3>2. i \in Int /\ 1 <= i /\ i <= n - 1
      BY <1>2, <3>1
    <3> QED BY <3>1, <3>2, <1>2
  <2>2. CASE ~\E q \in Posts : Stores(q, p)
    BY <2>2, <1>2 DEF Kept
  <2> QED BY <2>1, <2>2
<1> QED BY <1>1, <1>2 DEF Grows

LEMMA RequestsKeep ==
    ASSUME IInv, UNCHANGED <<runs, stored>>, known' \subseteq stored, PostsKept
    PROVE  IInv'
<1>1. TypeOK /\ Registered
  BY DEF IInv
<1>2. Grows
  BY RequestsGrow DEF PostsKept, Stores
<1>3. TypeOK' /\ Registered'
  BY <1>1 DEF TypeOK, Registered, PostsKept, Runs
<1>4. \A p \in Runs' : p \in Runs /\ runs'[p] = runs[p]
  BY DEF Runs
<1>5. \A q \in Posts' : /\ q \in Posts /\ posts'[q].run = posts[q].run
                        /\ posts'[q].checkpoint = posts[q].checkpoint
  BY DEF PostsKept
<1> QED BY <1>2, <1>3, <1>4, <1>5, GrowsKeepsIInv

LEMMA PostedKeeps ==
    ASSUME IInv, NEW op \in {"resume", "reject"}, NEW r \in Runs, NEW c \in Place,
           NEW node \in Nodes \cup {END}, NEW target \in Nodes \cup {END},
           Sane(c, Allowed(r), Backed(r)), Posted(op, r, c, node, target)
    PROVE  IInv'
<1>1. TypeOK /\ Registered
  BY DEF IInv
<1> DEFINE post == Request(op, r, c, node, target)
<1>n. PICK n : n = Len(posts) + 1
  OBVIOUS
<1>2. r \in Nat
  BY <1>1 DEF TypeOK, Runs
<1>3. post \in Post
  BY <1>2 DEF Post, Reply, Request
<1>4. post.run = r /\ post.checkpoint = c /\ post.phase = "waiting"
  BY DEF Request
<1>5. posts \in Seq(Post) /\ posts' = Append(posts, post)
      /\ UNCHANGED <<runs, known, stored, crashes>>
  BY <1>1 DEF TypeOK, Posted
<1> HIDE DEF post
<1>6. /\ posts' \in Seq(Post) /\ posts'[n] = post
      /\ \A q \in Posts' : q = n \/ (q \in Posts /\ posts'[q] = posts[q])
  BY <1>3, <1>5, <1>n DEF Posts
<1>7. Grows
  BY <1>4, <1>5, <1>6, RequestsGrow DEF Stores
<1>8. Runs' = Runs
  BY <1>5 DEF Runs
<1>9. TypeOK'
  BY <1>1, <1>4, <1>5, <1>6, <1>8 DEF TypeOK
<1>10. Registered'
  BY <1>1, <1>4, <1>5, <1>6 DEF Registered
<1>11. PostOK(n)'
  <2>1. Sane(c, Allowed(r)', Backed(r)')
    BY <1>7, SaneStays DEF Sane
  <2> QED BY <2>1, <1>4, <1>6 DEF PostOK
<1>12. \A p \in Runs' : p \in Runs /\ runs'[p] = runs[p]
  BY <1>5, <1>8
<1>13. \A q \in Posts' : \/ /\ q \in Posts /\ posts'[q].run = posts[q].run
                            /\ posts'[q].checkpoint = posts[q].checkpoint
                         \/ PostOK(q)'
  BY <1>6, <1>11
<1> QED BY <1>7, <1>9, <1>10, <1>12, <1>13, GrowsKeepsIInv

LEMMA PostResumeKeeps ==
    ASSUME IInv, NEW r \in Runs, PostResume(r)
    PROVE  IInv'
<1>1. PICK i \in DOMAIN runs[r].checkpoints :
         Posted("resume", r, runs[r].checkpoints[i], END, END)
  BY DEF PostResume
<1>2. TypeOK /\ RunOK(r)
  BY DEF IInv
<1>3. Sane(runs[r].checkpoints[i], Allowed(r), Backed(r))
  BY <1>2 DEF RunOK
<1>4. PICK c : c = runs[r].checkpoints[i]
  OBVIOUS
<1>5. c \in Place
  <2>1. runs[r].checkpoints \in Seq(Place)
    BY <1>2, Typed DEF Run
  <2> QED BY <2>1, <1>4
<1> QED BY <1>1, <1>3, <1>4, <1>5, PostedKeeps

LEMMA PostRejectKeeps ==
    ASSUME IInv, NEW r \in Runs, PostReject(r)
    PROVE  IInv'
<1>1. PICK node \in Nodes, target \in Nodes \cup {END} :
         Posted("reject", r, Checkpoint(<<>>, END, FALSE), node, target)
  BY DEF PostReject
<1>2. PICK c : c = Checkpoint(<<>>, END, FALSE)
  OBVIOUS
<1>3. c \in Place
  BY <1>2 DEF Checkpoint, Place
<1>4. Sane(c, Allowed(r), Backed(r))
  BY <1>2, NowhereIsSane
<1> QED BY <1>1, <1>2, <1>3, <1>4, PostedKeeps

LEMMA RefusedKeeps ==
    ASSUME IInv, NEW q \in Posts, ResumeRefused(q) \/ RejectRefused(q)
    PROVE  IInv'
<1>1. TypeOK
  BY DEF IInv
<1>2. CASE ResumeRefused(q)
  <2>1. PostsKept
    BY <1>1, <1>2, AnsweredPosts DEF ResumeRefused, Answered, Reply
  <2>2. UNCHANGED <<runs, stored>> /\ known' \subseteq stored
    BY <1>1, <1>2 DEF ResumeRefused, TypeOK
  <2> QED BY <2>1, <2>2, RequestsKeep
<1>3. CASE RejectRefused(q)
  <2>1. PICK answer \in Reply :
           posts' = [posts EXCEPT ![q].phase = "answered", ![q].answer = answer]
    BY <1>3 DEF RejectRefused, Reply
  <2>2. PostsKept
    BY <1>1, <2>1, AnsweredPosts
  <2>3. UNCHANGED <<runs, stored>> /\ known' \subseteq stored
    BY <1>1, <1>3 DEF RejectRefused, TypeOK
  <2> QED BY <2>2, <2>3, RequestsKeep
<1> QED BY <1>2, <1>3

(* reject() ends with a decision, if somebody waits under its key. *)
LEMMA RejectedKeeps ==
    ASSUME IInv, NEW q \in Posts, Reject(q) \/ Retargeted(q)
    PROVE  IInv'
<1>1. TypeOK
  BY DEF IInv
<1>2. PICK key : key = <<posts[q].run, posts[q].node>>
  OBVIOUS
<1>3. /\ runs' = Rejected(q) /\ posts' = Answered(q, "done")
      /\ UNCHANGED <<known, stored, crashes>>
  BY DEF Reject, Retargeted
<1>4. PostsKept
  BY <1>1, <1>3, AnsweredPosts DEF Answered, Reply
<1>5. known' \subseteq stored /\ stored' = stored
  BY <1>1, <1>3 DEF TypeOK
<1>6. CASE Heard(key)
  <2>1. runs' = Told(key, "reject") /\ PostsStay
    BY <1>2, <1>3, <1>4, <1>6, KeptStay DEF Rejected
  <2> QED BY <2>1, <1>5, ToldKeeps DEF Decision
<1>7. CASE ~Heard(key)
  BY <1>2, <1>3, <1>4, <1>5, <1>7, RequestsKeep DEF Rejected
<1> QED BY <1>6, <1>7

-----------------------------------------------------------------------------
(* A run begins, at the entry or where another run is resumed.              *)
LEMMA BeginsKeep ==
    ASSUME IInv, NEW v \in Seq(Nodes), NEW n \in Nodes, NEW p \in BOOLEAN, NEW parent \in Nat,
           NEW owner \in Nat, runs' = Append(runs, Begun(n, v, p, parent, owner)),
           OnPath(Checkpoint(v, n, p)),
           IF parent = 0 THEN owner = Len(runs) + 1 ELSE owner \in stored,
           \/ v = <<>> /\ ~p
           \/ /\ parent \in Runs
              /\ Sane(Checkpoint(v, n, p), Allowed(parent), Backed(parent)),
           PostsKept, known' \subseteq stored, stored' = stored
    PROVE  IInv'
<1>1. TypeOK /\ Registered
  BY DEF IInv
<1>2. PICK X : X = Begun(n, v, p, parent, owner)
  OBVIOUS
<1>3. /\ X \in Run /\ X.parent = parent /\ X.owner = owner
      /\ X.phase = "walking" /\ X.outcome = "none" /\ X.answer = "none"
      /\ X.checkpoints = <<>> /\ X.result = "none" /\ Standing(X) = Checkpoint(v, n, p)
  BY <1>2 DEF Begun, Run, Standing, Decision
<1>4. PICK r : r = Len(runs) + 1
  OBVIOUS
<1>5. /\ runs' \in Seq(Run) /\ Runs' = Runs \cup {r} /\ r \notin Runs /\ runs'[r] = X
      /\ \A s \in Runs : runs'[s] = runs[s]
  BY <1>1, <1>2, <1>3, <1>4 DEF TypeOK, Runs
<1>6. Grows
  <2>1. \A q \in Posts, s \in Runs : Stores(q, s)' => Stores(q, s)
    BY DEF PostsKept, Stores
  <2>2. ASSUME NEW s \in Runs, NEW i \in 1..Kept(s)
        PROVE  i \in 1..Kept(s)' /\ runs'[s].checkpoints[i] = runs[s].checkpoints[i]
    <3>1. runs'[s] = runs[s] /\ Posts' = Posts
      BY <1>5 DEF PostsKept
    <3> DEFINE m == Len(runs[s].checkpoints)
    <3>2. CASE \E q \in Posts : Stores(q, s)
      <4>1. Kept(s) = m - 1 /\ (Kept(s)' = m \/ Kept(s)' = m - 1)
        BY <3>1, <3>2 DEF Kept
      <4>2. i \in Int /\ 1 <= i /\ i <= m - 1
        BY <2>2, <4>1
      <4> QED BY <4>1, <4>2, <2>2, <3>1
    <3>3. CASE ~\E q \in Posts : Stores(q, s)
      BY <2>1, <2>2, <3>1, <3>3 DEF Kept
    <3> QED BY <3>2, <3>3
  <2> QED BY <1>5, <2>2 DEF Grows
<1>7. TypeOK'
  BY <1>1, <1>5 DEF TypeOK, PostsKept
<1>8. Registered'
  BY <1>1, <1>5 DEF Registered, PostsKept, TypeOK
<1>9. Sane(Standing(X), Allowed(r)', Backed(r)')
  <2>1. CASE v = <<>> /\ ~p
    BY <2>1, <1>3 DEF Sane, Cleared, Checkpoint
  <2>2. CASE /\ parent \in Runs
             /\ Sane(Checkpoint(v, n, p), Allowed(parent), Backed(parent))
    <3>1. Sane(Checkpoint(v, n, p), Allowed(parent)', Backed(parent)')
      BY <2>2, <1>6, SaneStays DEF Sane
    <3>2. Lineage(parent)' \subseteq Lineage(r)'
      BY <2>2, <1>3, <1>5 DEF Lineage
    <3>3. Allowed(parent)' \subseteq Allowed(r)' /\ (Backed(parent)' => Backed(r)')
      BY <3>2 DEF Allowed, Backed
    <3> QED BY <3>1, <3>3, <1>3 DEF Sane, Cleared
  <2> QED BY <2>1, <2>2
<1>10. RunOK(r)'
  BY <1>3, <1>4, <1>5, <1>9 DEF RunOK, Local, Owned, Decision
<1>11. \A s \in Runs' : (s \in Runs /\ runs'[s] = runs[s]) \/ RunOK(s)'
  BY <1>5, <1>10
<1>12. \A q \in Posts' : /\ q \in Posts /\ posts'[q].run = posts[q].run
                         /\ posts'[q].checkpoint = posts[q].checkpoint
  BY DEF PostsKept
<1> QED BY <1>6, <1>7, <1>8, <1>11, <1>12, GrowsKeepsIInv

LEMMA StartKeeps ==
    ASSUME IInv, Start
    PROVE  IInv'
<1>1. PICK v \in Seq(Nodes) : v = <<>>
  <2>1. <<>> \in Seq(Nodes)
    OBVIOUS
  <2> QED BY <2>1
<1>2. OnPath(Checkpoint(v, Entry, FALSE))
  BY <1>1 DEF OnPath, Checkpoint
<1>3. runs' = Append(runs, Begun(Entry, v, FALSE, 0, Len(runs) + 1)) /\ UNCHANGED <<known, stored, posts>>
  BY <1>1 DEF Start
<1>4. PostsKept /\ known' \subseteq stored /\ Entry \in Nodes /\ Len(runs) + 1 \in Nat
  BY <1>3, SamePosts, RuntimeAssumption DEF IInv, TypeOK
<1> QED BY <1>1, <1>2, <1>3, <1>4, BeginsKeep

LEMMA ResumeKeeps ==
    ASSUME IInv, NEW q \in Posts, Resume(q)
    PROVE  IInv'
<1>1. TypeOK /\ PostOK(q)
  BY DEF IInv
<1>2. posts[q] \in Post
  BY <1>1 DEF TypeOK, Posts
<1>3. PICK r \in Runs : r = posts[q].run
  BY <1>1 DEF TypeOK
<1>4. PICK c \in Place : c = posts[q].checkpoint
  BY <1>2 DEF Post
<1>5. /\ posts[q].op = "resume" /\ r \in stored /\ c.next # END
      /\ known' = known \cup {r} /\ stored' = stored
      /\ runs' = Append(runs, Begun(c.next, c.visited, c.paused, r, runs[r].owner))
      /\ posts' = [posts EXCEPT ![q].phase = "holding", ![q].child = Len(runs) + 1]
  BY <1>1, <1>3, <1>4 DEF Resume, Waits, TypeOK
<1>6. /\ c.visited \in Seq(Nodes) /\ c.next \in Nodes /\ c.paused \in BOOLEAN
      /\ c = Checkpoint(c.visited, c.next, c.paused)
  BY <1>4, <1>5 DEF Place, Checkpoint
<1>7. Sane(c, Allowed(r), Backed(r)) /\ OnPath(c)
  BY <1>1, <1>3, <1>4 DEF PostOK, Sane
<1>8. PostsKept
  <2>1. posts \in Seq(Post) /\ Len(runs) + 1 \in Nat
    BY <1>1 DEF TypeOK
  <2>2. PICK new : new = [posts[q] EXCEPT !.phase = "holding", !.child = Len(runs) + 1]
    OBVIOUS
  <2>3. new \in Post /\ new.op = posts[q].op /\ new.run = posts[q].run
        /\ new.checkpoint = posts[q].checkpoint
    BY <1>2, <2>1, <2>2 DEF Post
  <2>4. posts' = [posts EXCEPT ![q] = new]
    BY <1>5, <2>2
  <2>5. posts' \in Seq(Post) /\ DOMAIN posts' = DOMAIN posts
    BY <2>1, <2>3, <2>4 DEF Posts
  <2>6. \A p \in Posts : IF p = q THEN posts'[p] = new ELSE posts'[p] = posts[p]
    BY <2>1, <2>4 DEF Posts
  <2> QED BY <1>5, <2>3, <2>5, <2>6 DEF PostsKept, Posts
<1>9. known' \subseteq stored /\ r \in Nat \ {0}
  BY <1>1, <1>5 DEF TypeOK, Runs
<1>10. runs[r].owner \in stored /\ runs[r].owner \in Nat
  <2>1. Owned(r) /\ runs[r] \in Run
    BY <1>1, Typed DEF IInv, RunOK
  <2> QED BY <2>1, <1>5 DEF Owned, Run
<1> QED BY <1>5, <1>6, <1>7, <1>8, <1>9, <1>10, BeginsKeep

-----------------------------------------------------------------------------
(* Sending a run back.  A nonempty set of positions has a first one: among   *)
(* the intervals from 1 that meet it there is a least.                      *)
LEMMA FirstExists ==
    ASSUME NEW n \in Nat, NEW S \in SUBSET (1..n), S # {}
    PROVE  \E i \in S : \A j \in 1..(i - 1) : j \notin S
<1> DEFINE I(k) == 1..k
           Meets == {T \in SUBSET (1..n) : \E k \in 0..n : T = I(k) /\ S \cap I(k) # {}}
           R == StrictSubsetOrdering(1..n)
           D == FiniteSubsetsOf(1..n)
<1>1. IsWellFoundedOn(R, D)
  <2> DEFINE N == 1..n
  <2> HIDE DEF N
  <2>1. IsWellFoundedOn(StrictSubsetOrdering(N), FiniteSubsetsOf(N))
    BY FS_StrictSubsetOrderingWellFounded
  <2> QED BY <2>1 DEF N
<1>2. D = SUBSET (1..n)
  <2>1. IsFiniteSet(1..n)
    BY FS_Interval
  <2> DEFINE N == 1..n
  <2> HIDE DEF N
  <2>2. FiniteSubsetsOf(N) = SUBSET N
    BY <2>1, FS_FiniteSubsetsOfFinite DEF N
  <2> QED BY <2>2 DEF N
<1>3. I(n) \in Meets
  <2>1. PICK s \in S : TRUE
    OBVIOUS
  <2>2. s \in S \cap I(n)
    BY <2>1
  <2>3. n \in 0..n /\ I(n) \in SUBSET (1..n)
    OBVIOUS
  <2> QED BY <2>2, <2>3
<1>4. Meets \subseteq D /\ Meets # {}
  BY <1>2, <1>3
<1>5. PICK T \in Meets : \A U \in Meets : <<U, T>> \notin R
  <2> HIDE DEF I, Meets, R, D
  <2> QED BY <1>1, <1>4, WFMin
<1>6. PICK k \in 0..n : T = I(k) /\ S \cap I(k) # {}
  OBVIOUS
<1>7. ASSUME NEW j \in S, j <= k PROVE j = k
  <2>1. SUFFICES ASSUME j # k PROVE FALSE
    OBVIOUS
  <2>2. j \in 1..n /\ j < k /\ j \in 0..n
    BY <1>7, <2>1
  <2>3. I(j) \in Meets
    BY <2>2
  <2>4. I(j) \subseteq T /\ I(j) # T /\ I(j) \in SUBSET (1..n) /\ T \in SUBSET (1..n)
    <3>1. k \in I(k) /\ k \notin I(j)
      BY <2>2, <1>6
    <3>2. I(j) \subseteq I(k)
      BY <2>2, <1>6
    <3> QED BY <3>1, <3>2, <1>6, <2>3
  <2>5. <<I(j), T>> \in R
    BY <2>4 DEF StrictSubsetOrdering
  <2> QED BY <2>3, <2>5, <1>5
<1>8. k \in S
  <2>1. PICK j \in S : j \in I(k)
    BY <1>6
  <2> QED BY <2>1, <1>7
<1>9. \A j \in 1..(k - 1) : j \notin S
  BY <1>7
<1> QED BY <1>8, <1>9

LEMMA BeforeIsPrefix ==
    ASSUME NEW walk \in Seq(Nodes), NEW target, \E i \in DOMAIN walk : walk[i] = target
    PROVE  \E i \in 1..Len(walk) :
              /\ walk[i] = target
              /\ Before(walk, target) \in Seq(Nodes)
              /\ Len(Before(walk, target)) = i - 1
              /\ \A j \in 1..(i - 1) : Before(walk, target)[j] = walk[j]
<1> DEFINE F(i) == i \in DOMAIN walk /\ walk[i] = target /\ \A j \in 1..(i - 1) : walk[j] # target
           S == {i \in 1..Len(walk) : walk[i] = target}
           first == CHOOSE i \in DOMAIN walk :
                       walk[i] = target /\ \A j \in 1..(i - 1) : walk[j] # target
<1>1. Len(walk) \in Nat /\ DOMAIN walk = 1..Len(walk)
  OBVIOUS
<1>2. \E i \in S : \A j \in 1..(i - 1) : j \notin S
  <2>1. S \in SUBSET (1..Len(walk)) /\ S # {}
    BY <1>1
  <2> HIDE DEF S
  <2> QED BY <1>1, <2>1, FirstExists
<1>3. PICK i \in S : \A j \in 1..(i - 1) : j \notin S
  BY <1>2
<1>4. F(i)
  BY <1>1, <1>3
<1>5. F(first)
  BY <1>4
<1> HIDE DEF first
<1>6. Before(walk, target) = SubSeq(walk, 1, first - 1)
  BY DEF Before, first
<1>7. first \in 1..Len(walk) /\ walk[first] = target
  BY <1>1, <1>5
<1>8. PICK m \in 1..Len(walk) : m = first
  BY <1>7
<1>9. /\ SubSeq(walk, 1, m - 1) \in Seq(Nodes)
      /\ Len(SubSeq(walk, 1, m - 1)) = m - 1
      /\ \A j \in 1..(m - 1) : SubSeq(walk, 1, m - 1)[j] = walk[j]
  BY <1>1
<1> QED BY <1>6, <1>7, <1>8, <1>9

LEMMA BackTo ==
    ASSUME NEW c \in Place, NEW target \in Nodes, NEW A, NEW f,
           OnPath(c), Cleared(c, A), \E i \in DOMAIN c.visited : c.visited[i] = target
    PROVE  /\ Before(c.visited, target) \in Seq(Nodes)
           /\ OnPath(Checkpoint(Before(c.visited, target), target, f))
           /\ Cleared(Checkpoint(Before(c.visited, target), target, f), A)
<1>1. PICK walk \in Seq(Nodes) : walk = c.visited
  BY DEF Place
<1>2. PICK b : b = Before(walk, target)
  OBVIOUS
<1>3. PICK i \in 1..Len(walk) : /\ walk[i] = target /\ b \in Seq(Nodes) /\ Len(b) = i - 1
                                /\ \A j \in 1..(i - 1) : b[j] = walk[j]
  BY <1>1, <1>2, BeforeIsPrefix
<1>4. Len(walk) \in Nat /\ DOMAIN walk = 1..Len(walk) /\ DOMAIN b = 1..(i - 1)
  BY <1>3
<1>5. PICK d : d = Checkpoint(b, target, f)
  OBVIOUS
<1>6. d.visited = b /\ d.next = target
  BY <1>5 DEF Checkpoint
<1>7. ASSUME NEW j \in 1..(i - 1)
      PROVE  j \in DOMAIN walk /\ After(d, j) = After(c, j) /\ b[j] = walk[j]
  <2>1. j \in 1..Len(walk) /\ j < Len(walk) /\ After(c, j) = walk[j + 1]
    BY <1>1, <1>3, <1>4 DEF After
  <2>2. CASE j < i - 1
    <3>1. After(d, j) = b[j + 1] /\ b[j + 1] = walk[j + 1]
      BY <1>3, <1>4, <1>6, <2>2 DEF After
    <3> QED BY <2>1, <3>1, <1>3, <1>4
  <2>3. CASE j = i - 1
    <3>1. After(d, j) = target /\ walk[j + 1] = target
      BY <1>3, <1>4, <1>6, <2>3 DEF After
    <3> QED BY <2>1, <3>1, <1>3, <1>4
  <2> QED BY <1>4, <2>2, <2>3
<1>8. OnPath(d)
  <2>1. b = <<>> => target = Entry
    <3>1. b = <<>> => i = 1
      BY <1>3
    <3>2. walk # <<>>
      BY <1>3
    <3> QED BY <3>1, <3>2, <1>1, <1>3 DEF OnPath
  <2>2. b # <<>> => b[1] = Entry
    <3>1. b # <<>> => 1 \in 1..(i - 1)
      BY <1>3
    <3>2. walk # <<>>
      BY <1>3
    <3> QED BY <3>1, <3>2, <1>1, <1>3 DEF OnPath
  <2>3. \A j \in DOMAIN b : \/ After(d, j) \in Routes[b[j]]
                            \/ After(d, j) = b[j] /\ b[j] \in Gates
    BY <1>1, <1>4, <1>7 DEF OnPath
  <2> QED BY <1>6, <2>1, <2>2, <2>3 DEF OnPath
<1>9. Cleared(d, A)
  BY <1>1, <1>4, <1>6, <1>7 DEF Cleared
<1> QED BY <1>1, <1>2, <1>3, <1>5, <1>8, <1>9

LEMMA RetargetKeeps ==
    ASSUME IInv, NEW q \in Posts, Retarget(q)
    PROVE  IInv'
<1>1. TypeOK /\ Registered
  BY DEF IInv
<1>2. posts[q] \in Post /\ posts \in Seq(Post)
  BY <1>1 DEF TypeOK, Posts
<1>3. PICK r \in Runs : r = posts[q].run
  BY <1>1 DEF TypeOK
<1>4. runs[r] \in Run /\ RunOK(r)
  BY <1>1, Typed DEF IInv
<1> DEFINE old == runs[r].checkpoints
<1>5. PICK latest : latest = old[Len(old)]
  OBVIOUS
<1>6. PICK target \in Nodes : target = posts[q].target
  <2>1. posts[q].target \in Nodes \cup {END}
    BY <1>2 DEF Post
  <2>2. posts[q].target # END
    BY Zenon DEF Retarget
  <2> QED BY <2>1, <2>2
<1>7. /\ posts[q].op = "reject" /\ r \in known /\ old # <<>>
      /\ \E i \in DOMAIN latest.visited : latest.visited[i] = target
      /\ runs' = [runs EXCEPT ![r].checkpoints =
            Append(@, Checkpoint(Before(latest.visited, target), target, latest.paused))]
      /\ posts' = [posts EXCEPT ![q].phase = "holding"]
      /\ UNCHANGED <<known, stored, crashes>>
  BY <1>3, <1>5, <1>6 DEF Retarget, Waits
<1>8. old \in Seq(Place) /\ Len(old) \in DOMAIN old /\ latest \in Place
  <2>1. old \in Seq(Place)
    BY <1>4 DEF Run
  <2> HIDE DEF old
  <2> QED BY <2>1, <1>5, <1>7
<1>9. Sane(latest, Allowed(r), Backed(r))
  BY <1>4, <1>5, <1>8 DEF RunOK
<1>10. PICK c : c = Checkpoint(Before(latest.visited, target), target, latest.paused)
  OBVIOUS
<1>11. /\ Before(latest.visited, target) \in Seq(Nodes)
       /\ OnPath(c) /\ Cleared(c, Allowed(r))
  BY <1>7, <1>8, <1>9, <1>10, BackTo DEF Sane
<1>12. c \in Place /\ (c.paused => Backed(r))
  BY <1>8, <1>9, <1>10, <1>11 DEF Place, Checkpoint, Sane
<1>13. PICK new \in Seq(Place) : new = Append(old, c)
  <2> HIDE DEF old
  <2>1. Append(old, c) \in Seq(Place)
    BY <1>8, <1>12
  <2> QED BY <2>1
<1>14. PICK X : X = [runs[r] EXCEPT !.checkpoints = new]
  OBVIOUS
<1>15. /\ X \in Run /\ X.visited = runs[r].visited /\ X.at = runs[r].at
       /\ X.paused = runs[r].paused /\ X.checkpoints = new
       /\ X.parent = runs[r].parent /\ X.owner = runs[r].owner /\ X.passed = runs[r].passed
       /\ X.phase = runs[r].phase /\ X.result = runs[r].result
       /\ X.outcome = runs[r].outcome /\ X.answer = runs[r].answer
       /\ X.acked = runs[r].acked /\ X.fired = runs[r].fired
  BY <1>4, <1>13, <1>14 DEF Run
<1>16. RunChanges(r, X)
  BY <1>7, <1>10, <1>12, <1>13, <1>14, <1>15 DEF RunChanges
<1>17. /\ runs' \in Seq(Run) /\ Runs' = Runs /\ runs'[r] = X
       /\ \A p \in Runs : p # r => runs'[p] = runs[p]
  BY <1>1, <1>16, ChangedRuns
<1>18. /\ posts' \in Seq(Post) /\ Posts' = Posts
       /\ \A p \in Posts : /\ posts'[p].op = posts[p].op /\ posts'[p].run = posts[p].run
                           /\ posts'[p].checkpoint = posts[p].checkpoint
                           /\ p # q => posts'[p].phase = posts[p].phase
  <2>1. PICK post : post = [posts[q] EXCEPT !.phase = "holding"]
    OBVIOUS
  <2>2. post \in Post /\ post.op = posts[q].op /\ post.run = posts[q].run
        /\ post.checkpoint = posts[q].checkpoint
    BY <1>2, <2>1 DEF Post
  <2>3. posts' = [posts EXCEPT ![q] = post]
    BY <1>7, <2>1
  <2>4. posts' \in Seq(Post) /\ DOMAIN posts' = DOMAIN posts
    BY <1>2, <2>2, <2>3 DEF Posts
  <2>5. \A p \in Posts : IF p = q THEN posts'[p] = post ELSE posts'[p] = posts[p]
    BY <1>2, <2>3 DEF Posts
  <2> QED BY <2>2, <2>4, <2>5 DEF Posts
\* What a crash would leave: the new checkpoint is not stored yet, the others are.
<1>19. Grows
  <2>1. ASSUME NEW p \in Runs, NEW i \in 1..Kept(p)
        PROVE  i \in 1..Kept(p)' /\ runs'[p].checkpoints[i] = runs[p].checkpoints[i]
    <3>1. CASE p = r
      <4>1. Kept(r) = Len(old) \/ Kept(r) = Len(old) - 1
        BY DEF Kept
      <4>2. Kept(r)' = Len(new) \/ Kept(r)' = Len(new) - 1
        BY <1>15, <1>17 DEF Kept
      <4> HIDE DEF old
      <4>3. Len(new) = Len(old) + 1 /\ Len(old) \in Nat /\ \A j \in 1..Len(old) : new[j] = old[j]
        BY <1>8, <1>12, <1>13
      <4>4. i \in 1..Len(old) /\ i \in 1..Kept(r)'
        BY <2>1, <3>1, <4>1, <4>2, <4>3
      <4>5. new[i] = old[i]
        BY <4>3, <4>4
      <4> QED BY <3>1, <4>4, <4>5, <1>15, <1>17 DEF old
    <3>2. CASE p # r
      <4>1. \A s \in Posts : Stores(s, p)' => Stores(s, p)
        BY <3>2, <1>3, <1>18 DEF Stores
      <4>2. runs'[p] = runs[p] /\ Posts' = Posts
        BY <3>2, <1>17, <1>18
      <4> DEFINE m == Len(runs[p].checkpoints)
      <4>3. CASE \E s \in Posts : Stores(s, p)
        <5>1. Kept(p) = m - 1 /\ (Kept(p)' = m \/ Kept(p)' = m - 1)
          BY <4>2, <4>3 DEF Kept
        <5>2. i \in Int /\ 1 <= i /\ i <= m - 1
          BY <2>1, <5>1
        <5> QED BY <5>1, <5>2, <2>1, <4>2
      <4>4. CASE ~\E s \in Posts : Stores(s, p)
        BY <2>1, <4>1, <4>2, <4>4 DEF Kept
      <4> QED BY <4>3, <4>4
    <3> QED BY <3>1, <3>2
  <2>2. \A p \in Runs : /\ runs'[p].parent = runs[p].parent
                       /\ runs'[p].owner = runs[p].owner
                       /\ runs[p].passed \subseteq runs'[p].passed
    BY <1>15, <1>17
  <2> QED BY <2>1, <2>2, <1>7, <1>17 DEF Grows
<1>20. NewRunOK(r, X)
  <2>1. Standing(X) = Standing(runs[r]) /\ Standing(X).paused = X.paused
    BY <1>15 DEF Standing, Checkpoint
  <2>2. Local(X)
    BY <1>4, <1>15 DEF RunOK, Local
  <2>3. r \in stored' => X.phase = "ended"
    BY <1>1, <1>7, <1>15 DEF Registered
  <2> QED BY <1>4, <1>11, <1>12, <1>13, <1>15, <2>1, <2>2, <2>3 DEF NewRunOK, RunOK, Sane
<1>21. RunOK(r)'
  BY <1>16, <1>19, <1>20, RunIsOK
<1>22. TypeOK'
  BY <1>1, <1>7, <1>17, <1>18 DEF TypeOK
<1>23. Registered'
  <2>1. \A p \in stored' : runs'[p].phase = "ended"
    BY <1>1, <1>7, <1>15, <1>17 DEF Registered, TypeOK
  <2>2. r \in stored'
    BY <1>1, <1>7 DEF TypeOK
  <2> QED BY <2>1, <2>2, <1>1, <1>3, <1>7, <1>18 DEF Registered
<1> QED BY <1>17, <1>18, <1>19, <1>21, <1>22, <1>23, GrowsKeepsIInv

-----------------------------------------------------------------------------
(* A crash takes away the checkpoint that was being stored, which backs     *)
(* nothing, and memory.                                                     *)
LEMMA CrashKeeps ==
    ASSUME IInv, Crash
    PROVE  IInv'
<1>1. TypeOK /\ Registered /\ \A r \in Runs : RunOK(r) /\ runs[r] \in Run
  BY Typed DEF IInv
<1> DEFINE Cut(r) == IF \E q \in Posts : Stores(q, r)
                     THEN SubSeq(runs[r].checkpoints, 1, Len(runs[r].checkpoints) - 1)
                     ELSE runs[r].checkpoints
           Left(r) == [runs[r] EXCEPT !.checkpoints = Cut(r)]
           Lost(r) == IF runs[r].phase = "ended" THEN Left(r)
                      ELSE [Left(r) EXCEPT !.phase = "ended", !.result = "lost"]
<1>2. ASSUME NEW r \in Runs
      PROVE  /\ Cut(r) \in Seq(Place)
             /\ 1..Len(Cut(r)) = 1..Kept(r)
             /\ \A i \in 1..Kept(r) : i \in DOMAIN runs[r].checkpoints
                                      /\ Cut(r)[i] = runs[r].checkpoints[i]
  <2> DEFINE old == runs[r].checkpoints
  <2>1. old \in Seq(Place)
    BY <1>1 DEF Run
  <2>2. CASE \E q \in Posts : Stores(q, r)
    <3>1. Cut(r) = SubSeq(old, 1, Len(old) - 1) /\ Kept(r) = Len(old) - 1
      BY <2>2 DEF Kept
    <3> HIDE DEF old, Cut
    <3>2. /\ SubSeq(old, 1, Len(old) - 1) \in Seq(Place)
          /\ 1..Len(SubSeq(old, 1, Len(old) - 1)) = 1..(Len(old) - 1)
          /\ \A i \in 1..(Len(old) - 1) :
                i \in DOMAIN old /\ SubSeq(old, 1, Len(old) - 1)[i] = old[i]
      <4>1. CASE Len(old) = 0
        <5>1. SubSeq(old, 1, Len(old) - 1) = <<>>
          BY <2>1, <4>1, SubSeqEmpty
        <5>2. Len(<<>>) = 0 /\ <<>> \in Seq(Place)
          OBVIOUS
        <5> QED BY <4>1, <5>1, <5>2
      <4>2. CASE Len(old) # 0
        BY <2>1, <4>2
      <4> QED BY <4>1, <4>2
    <3> QED BY <3>1, <3>2 DEF old
  <2>3. CASE ~\E q \in Posts : Stores(q, r)
    <3>1. Cut(r) = old /\ Kept(r) = Len(old)
      BY <2>3 DEF Kept
    <3> HIDE DEF old, Cut
    <3>2. DOMAIN old = 1..Len(old)
      BY <2>1
    <3> QED BY <2>1, <3>1, <3>2 DEF old
  <2> QED BY <2>2, <2>3
<1>3. runs' = [r \in Runs |-> Lost(r)] /\ known' = {} /\ stored' = stored
  BY DEF Crash
<1> HIDE DEF Cut
<1>4. ASSUME NEW r \in Runs
      PROVE  /\ runs'[r] = Lost(r) /\ runs'[r] \in Run
             /\ runs'[r].visited = runs[r].visited /\ runs'[r].at = runs[r].at
             /\ runs'[r].paused = runs[r].paused /\ runs'[r].checkpoints = Cut(r)
             /\ runs'[r].parent = runs[r].parent /\ runs'[r].owner = runs[r].owner
             /\ runs'[r].passed = runs[r].passed /\ runs'[r].answer = runs[r].answer
             /\ runs'[r].phase = "ended"
             /\ runs'[r].result = "paused" => runs[r].result = "paused"
             /\ runs'[r].outcome = runs[r].outcome /\ runs'[r].acked = runs[r].acked
             /\ runs'[r].fired = runs[r].fired
  <2>1. runs'[r] = Lost(r)
    BY <1>3
  <2>2. PICK cut \in Seq(Place) : cut = Cut(r)
    BY <1>2
  <2>3. PICK kept : kept = [runs[r] EXCEPT !.checkpoints = cut]
    OBVIOUS
  <2>4. /\ kept \in Run
        /\ kept.visited = runs[r].visited /\ kept.at = runs[r].at
        /\ kept.paused = runs[r].paused /\ kept.checkpoints = cut
        /\ kept.parent = runs[r].parent /\ kept.owner = runs[r].owner
        /\ kept.passed = runs[r].passed /\ kept.answer = runs[r].answer
        /\ kept.phase = runs[r].phase /\ kept.result = runs[r].result
        /\ kept.outcome = runs[r].outcome /\ kept.acked = runs[r].acked
        /\ kept.fired = runs[r].fired
    BY <1>1, <2>2, <2>3 DEF Run
  <2>5. \/ Lost(r) = kept /\ runs[r].phase = "ended"
        \/ Lost(r) = [kept EXCEPT !.phase = "ended", !.result = "lost"]
    BY <2>2, <2>3
  <2> HIDE DEF Lost, Left
  <2>6. CASE Lost(r) = kept /\ runs[r].phase = "ended"
    BY <2>1, <2>2, <2>4, <2>6
  <2>7. CASE Lost(r) = [kept EXCEPT !.phase = "ended", !.result = "lost"]
    <3>1. PICK gone : gone = [kept EXCEPT !.phase = "ended", !.result = "lost"]
      OBVIOUS
    <3>2. /\ gone \in Run
          /\ gone.visited = kept.visited /\ gone.at = kept.at
          /\ gone.paused = kept.paused /\ gone.checkpoints = kept.checkpoints
          /\ gone.parent = kept.parent /\ gone.owner = kept.owner
          /\ gone.passed = kept.passed /\ gone.answer = kept.answer
          /\ gone.phase = "ended" /\ gone.result = "lost"
          /\ gone.outcome = kept.outcome /\ gone.acked = kept.acked
          /\ gone.fired = kept.fired
      BY <2>4, <3>1 DEF Run
    <3>3. runs'[r] = gone
      BY <2>1, <2>7, <3>1
    <3> QED BY <2>1, <2>2, <2>4, <3>2, <3>3
  <2> QED BY <2>5, <2>6, <2>7
<1>5. Runs' = Runs
  BY <1>3 DEF Runs
<1>6. runs' \in Seq(Run)
  <2>1. PICK n \in Nat : n = Len(runs) /\ Runs = 1..n
    BY <1>1 DEF TypeOK, Runs
  <2>2. runs' \in [1..n -> Run]
    <3>1. \A r \in 1..n : Lost(r) \in Run
      BY <1>4, <2>1
    <3> HIDE DEF Lost, Left
    <3> QED BY <1>3, <2>1, <3>1, SMTT(30)
  <2> QED BY <2>2, SeqDef
<1> HIDE DEF Lost, Left
<1>7. /\ posts' \in Seq(Post) /\ Posts' = Posts
      /\ \A q \in Posts : /\ posts'[q].run = posts[q].run
                          /\ posts'[q].checkpoint = posts[q].checkpoint
                          /\ posts'[q].phase = "answered"
  <2>1. PICK n \in Nat : n = Len(posts) /\ Posts = 1..n
    BY <1>1 DEF TypeOK, Posts
  <2>2. \A q \in Posts : posts[q] \in Post
    BY <1>1 DEF TypeOK, Posts
  <2>3. /\ DOMAIN posts' = Posts /\ posts' = [q \in Posts |-> posts'[q]]
        /\ \A q \in Posts :
              \/ posts'[q] = posts[q] /\ posts[q].phase = "answered"
              \/ posts'[q] = [posts[q] EXCEPT !.phase = "answered", !.answer = "lost"]
    BY DEF Crash
  <2>4. \A q \in Posts : /\ posts'[q] \in Post
                         /\ posts'[q].run = posts[q].run
                         /\ posts'[q].checkpoint = posts[q].checkpoint
                         /\ posts'[q].phase = "answered"
    <3> SUFFICES ASSUME NEW q \in Posts
                 PROVE  /\ posts'[q] \in Post
                        /\ posts'[q].run = posts[q].run
                        /\ posts'[q].checkpoint = posts[q].checkpoint
                        /\ posts'[q].phase = "answered"
      OBVIOUS
    <3>1. PICK post \in Post : post = posts[q]
      BY <2>2
    <3>2. PICK gone : gone = [post EXCEPT !.phase = "answered", !.answer = "lost"]
      OBVIOUS
    <3>3. gone \in Post /\ gone.run = post.run /\ gone.checkpoint = post.checkpoint
          /\ gone.phase = "answered"
      BY <3>2 DEF Post, Reply
    <3> QED BY <2>3, <3>1, <3>2, <3>3
  <2>5. posts' \in [1..n -> Post]
    BY <2>1, <2>3, <2>4
  <2>6. posts' \in Seq(Post)
    BY <2>5, SeqDef
  <2> QED BY <2>3, <2>4, <2>6 DEF Posts
<1>8. Grows
  <2>1. ASSUME NEW r \in Runs, NEW i \in 1..Kept(r)
        PROVE  i \in 1..Kept(r)' /\ runs'[r].checkpoints[i] = runs[r].checkpoints[i]
    <3>1. \A q \in Posts' : ~Stores(q, r)'
      BY <1>7 DEF Stores
    <3>2. Kept(r)' = Len(Cut(r))
      BY <3>1, <1>4 DEF Kept
    <3> QED BY <3>2, <1>2, <1>4, <2>1
  <2> QED BY <2>1, <1>3, <1>4, <1>5 DEF Grows
<1>9. TypeOK' /\ Registered'
  BY <1>1, <1>3, <1>4, <1>5, <1>6, <1>7 DEF TypeOK, Registered
<1>10. ASSUME NEW r \in Runs PROVE RunOK(r)'
  <2>1. RunOK(r)
    BY <1>1
  <2>2. ASSUME NEW c, Sane(c, Allowed(r), Backed(r))
        PROVE  Sane(c, Allowed(r)', Backed(r)')
    BY <2>2, <1>8, SaneStays DEF Sane
  <2>3. Standing(runs[r]) = Standing(runs'[r])
    BY <1>4 DEF Standing
  <2>4. Sane(Standing(runs'[r]), Allowed(r)', Backed(r)')
    BY <2>1, <2>2, <2>3 DEF RunOK
  <2>5. \A i \in 1..Kept(r) : Sane(Cut(r)[i], Allowed(r)', Backed(r)')
    BY <2>1, <2>2, <1>2 DEF RunOK
  <2>6. DOMAIN Cut(r) = 1..Kept(r)
    BY <1>2
  <2>7. runs'[r].result = "paused" => Backed(r)'
    BY <2>1, <1>4, <1>8, AllowedGrows DEF RunOK
  <2>8. Local(runs'[r]) /\ Owned(r)'
    BY <2>1, <1>3, <1>4 DEF RunOK, Local, Owned
  <2> QED BY <1>4, <2>4, <2>5, <2>6, <2>7, <2>8 DEF RunOK
<1> QED BY <1>5, <1>7, <1>8, <1>9, <1>10, GrowsKeepsIInv

-----------------------------------------------------------------------------
(* The invariant holds.                                                     *)
LEMMA InitIInv == Init => IInv
<1> SUFFICES ASSUME Init PROVE IInv
  OBVIOUS
<1>1. runs = <<>> /\ posts = <<>> /\ known = {} /\ stored = {}
  BY DEF Init
<1>2. Runs = {} /\ Posts = {} /\ runs \in Seq(Run) /\ posts \in Seq(Post)
  BY <1>1 DEF Runs, Posts
<1> QED BY <1>1, <1>2 DEF IInv, TypeOK, Registered

LEMMA NextIInv == IInv /\ [Next]_vars => IInv'
<1> SUFFICES ASSUME IInv, [Next]_vars PROVE IInv'
  OBVIOUS
<1>1. CASE UNCHANGED vars
  <2>1. PostsKept
    BY <1>1, SamePosts DEF vars, IInv
  <2> QED BY <1>1, <2>1, RequestsKeep DEF vars, IInv, TypeOK
<1>2. CASE Start
  BY <1>2, StartKeeps
<1>3. CASE Crash
  BY <1>3, CrashKeeps
<1>4. ASSUME NEW r \in Runs,
             \/ Step(r) \/ Skip(r) \/ Raise(r) \/ End(r)
             \/ OpenGate(r) \/ Fire(r) \/ GateAnswered(r) \/ GateTimedOut(r)
             \/ OpenPrompt(r) \/ PromptAnswered(r) \/ PromptTimedOut(r)
             \/ \E answer \in {"approve", "reject"} : Submit(r, answer) \/ Decide(r, answer)
             \/ PostResume(r) \/ PostReject(r)
      PROVE  IInv'
  BY <1>4, StepKeeps, SkipKeeps, RaiseKeeps, EndKeeps, OpenGateKeeps, FireKeeps,
     GateAnsweredKeeps, GateTimedOutKeeps, OpenPromptKeeps, PromptKeeps, SubmitKeeps,
     DecideKeeps, PostResumeKeeps, PostRejectKeeps
<1>5. ASSUME NEW q \in Posts,
             \/ Resume(q) \/ ResumeRefused(q)
             \/ Reject(q) \/ RejectRefused(q) \/ Retarget(q) \/ Retargeted(q)
      PROVE  IInv'
  BY <1>5, ResumeKeeps, RefusedKeeps, RejectedKeeps, RetargetKeeps
<1> QED BY <1>1, <1>2, <1>3, <1>4, <1>5 DEF Next

LEMMA Invariance == Spec => []IInv
BY InitIInv, NextIInv, PTL DEF Spec

(* Every run, checkpoint and request has its type, and whatever is known in *)
(* memory is on disk too.                                                   *)
THEOREM TypeCorrect == Spec => []TypeOK
<1>1. IInv => TypeOK
  BY DEF IInv
<1> QED BY <1>1, Invariance, PTL

(* A path is a walk, with or without the node it leads to. *)
LEMMA OnPathWalks ==
    ASSUME NEW c \in Place, OnPath(c)
    PROVE  /\ IsWalk(c.visited)
           /\ IsWalk(IF c.next = END THEN c.visited ELSE Append(c.visited, c.next))
<1>1. PICK v \in Seq(Nodes) : v = c.visited
  BY DEF Place
<1>2. Len(v) \in Nat /\ DOMAIN v = 1..Len(v)
  OBVIOUS
<1>3. \A i \in 1..(Len(v) - 1) : v[i + 1] = After(c, i)
  BY <1>1, <1>2 DEF After
<1>4. IsWalk(v)
  BY <1>1, <1>2, <1>3 DEF OnPath, IsWalk
<1>5. ASSUME c.next # END
      PROVE  IsWalk(Append(v, c.next))
  <2>1. PICK w : w = Append(v, c.next)
    OBVIOUS
  <2>2. /\ Len(w) = Len(v) + 1 /\ w[Len(v) + 1] = c.next
        /\ \A i \in 1..Len(v) : w[i] = v[i]
    BY <2>1, <1>2
  <2>3. \A i \in 1..Len(v) : w[i + 1] = After(c, i)
    BY <1>1, <1>2, <2>2 DEF After
  <2>4. w[1] = Entry
    <3>1. CASE v = <<>>
      BY <3>1, <1>1, <1>5, <2>2 DEF OnPath
    <3>2. CASE v # <<>>
      <4>1. 1 \in 1..Len(v)
        BY <3>2, <1>2
      <4> QED BY <4>1, <3>2, <1>1, <2>2 DEF OnPath
    <3> QED BY <3>1, <3>2
  <2>5. \A i \in 1..Len(v) : w[i + 1] \in Routes[w[i]] \/ (w[i + 1] = w[i] /\ w[i] \in Gates)
    BY <1>1, <1>2, <2>2, <2>3 DEF OnPath
  <2>6. 1..(Len(w) - 1) = 1..Len(v)
    BY <1>2, <2>2
  <2> QED BY <2>1, <2>4, <2>5, <2>6 DEF IsWalk
<1> QED BY <1>1, <1>4, <1>5

(* What a run visited, and what a checkpoint leads to, is a walk through the *)
(* workflow, however often runs were paused, sent back and resumed          *)
(* (service.py:1095, 1166, 573-593).                                        *)
THEOREM WalksStayOnPath == Spec => []ResumesOnPath
<1>1. ASSUME IInv PROVE ResumesOnPath
  <2>1. ASSUME NEW r \in Runs PROVE IsWalk(runs[r].visited)
    <3>1. runs[r] \in Run /\ OnPath(Standing(runs[r]))
      BY <1>1, Typed DEF IInv, RunOK, Sane
    <3>2. Standing(runs[r]) \in Place /\ Standing(runs[r]).visited = runs[r].visited
      BY <3>1 DEF Standing, Checkpoint, Place, Run
    <3> QED BY <3>1, <3>2, OnPathWalks
  <2>2. ASSUME NEW r \in Runs, NEW i \in DOMAIN runs[r].checkpoints
        PROVE  LET c == runs[r].checkpoints[i]
               IN  IsWalk(IF c.next = END THEN c.visited ELSE Append(c.visited, c.next))
    <3>1. PICK c : c = runs[r].checkpoints[i]
      OBVIOUS
    <3>2. OnPath(c)
      BY <1>1, <3>1 DEF IInv, RunOK, Sane
    <3>3. c \in Place
      <4>1. runs[r].checkpoints \in Seq(Place)
        BY <1>1, Typed DEF IInv, Run
      <4> QED BY <4>1, <3>1
    <3> QED BY <3>1, <3>2, <3>3, OnPathWalks
  <2> QED BY <2>1, <2>2 DEF ResumesOnPath
<1> QED BY <1>1, Invariance, PTL

(* A gate or prompt ends with the last decision acknowledged under its key,  *)
(* with its timeout, or, in a run that was resumed, without the decision    *)
(* that another took; and whatever lies behind a gate, or prompts, runs     *)
(* only when somebody let it, or its activation was suppressed, in this run *)
(* or one it goes back to (service.py:659-668, 1277-1286, 3018-3045;        *)
(* permissions.py:128-146).                                                 *)
THEOREM DecisionsCount == Spec => []AckedDecisionCounts
<1>1. ASSUME IInv PROVE AckedDecisionCounts
  <2>1. ASSUME NEW r \in Runs
        PROVE  /\ runs[r].outcome \in {"approve", "reject"} => runs[r].outcome = runs[r].acked
               /\ runs[r].outcome = "timeout" => runs[r].fired
               /\ runs[r].outcome = "unset" => runs[r].parent # 0
    BY <1>1 DEF IInv, RunOK, Local, Decision
  <2>2. ASSUME NEW r \in Runs, NEW i \in DOMAIN runs[r].visited,
               \/ runs[r].visited[i] \in Prompts
               \/ /\ runs[r].visited[i] \in Gates /\ i < Len(runs[r].visited)
                  /\ runs[r].visited[i + 1] # runs[r].visited[i]
        PROVE  runs[r].visited[i] \in UNION {runs[p].passed : p \in Lineage(r)}
    <3>1. Cleared(Standing(runs[r]), Allowed(r))
      BY <1>1 DEF IInv, RunOK, Sane
    <3>2. PICK c : c = Standing(runs[r])
      OBVIOUS
    <3>3. c.visited = runs[r].visited
      BY <3>2 DEF Standing, Checkpoint
    <3>4. runs[r].visited[i] \in Allowed(r)
      BY <2>2, <3>1, <3>2, <3>3 DEF Cleared, After
    <3> QED BY <3>4 DEF Allowed
  <2> QED BY <2>1, <2>2 DEF AckedDecisionCounts
<1> QED BY <1>1, Invariance, PTL

(* A run that is shown as paused can be resumed at a gate, a restart later  *)
(* too: some run of its lineage is on disk with such a checkpoint           *)
(* (service.py:1298-1355, 1680).                                            *)
THEOREM PausesCanResume == Spec => []PausedResumable
<1>1. ASSUME IInv PROVE PausedResumable
  <2>1. ASSUME NEW r \in Runs, runs[r].result = "paused"
        PROVE  \E p \in Lineage(r) :
                  /\ p \in known \cup stored
                  /\ \E i \in DOMAIN runs[p].checkpoints : runs[p].checkpoints[i].next \in Gates
    <3>1. Backed(r)
      BY <1>1, <2>1 DEF IInv, RunOK
    <3>2. PICK p \in Lineage(r) :
             p \in stored /\ \E i \in 1..Kept(p) : runs[p].checkpoints[i].next \in Gates
      BY <3>1 DEF Backed
    <3>3. PICK i \in 1..Kept(p) : runs[p].checkpoints[i].next \in Gates
      BY <3>2
    <3>4. p \in Runs
      BY DEF Lineage
    <3>5. runs[p].checkpoints \in Seq(Place)
      BY <1>1, <3>4, Typed DEF IInv, Run
    <3>6. i \in DOMAIN runs[p].checkpoints
      <4>1. PICK cs \in Seq(Place) : cs = runs[p].checkpoints
        BY <3>5
      <4>2. Kept(p) = Len(cs) \/ Kept(p) = Len(cs) - 1
        BY <4>1 DEF Kept
      <4>3. Len(cs) \in Nat /\ DOMAIN cs = 1..Len(cs)
        OBVIOUS
      <4>4. i \in 1..Len(cs)
        BY <4>2, <4>3
      <4> QED BY <4>1, <4>3, <4>4
    <3> QED BY <3>2, <3>3, <3>6
  <2> QED BY <2>1 DEF PausedResumable
<1> QED BY <1>1, Invariance, PTL

-----------------------------------------------------------------------------
(***************************************************************************)
(* Why a probe is alone: when the breaker opens, the calls under way have  *)
(* less time left than the window, and both run down together.             *)
(***************************************************************************)
Outlived == state = "open" => \A c \in Waiting : left[c] < window

\* The inductive invariant.
BreakerInv == BreakerTypeOK /\ Outlived /\ ProbesAlone /\ SlotInUse

\* It holds before the first call.
LEMMA InitBreakerInv == BreakerInit => BreakerInv
<1> SUFFICES ASSUME BreakerInit PROVE BreakerInv
  OBVIOUS
<1>1. BreakerTypeOK
  <2>1. lost \in BOOLEAN /\ state \in {"closed", "open", "half_open"}
    BY DEF BreakerInit
  <2>2. pc \in [Callers -> {"idle", "calling", "probing", "refused"}]
    BY DEF BreakerInit
  <2>3. window \in 0..Window /\ 0 \in 0..Timeout
    BY BreakerAssumption DEF BreakerInit
  <2>4. left \in [Callers -> 0..Timeout]
    BY <2>3 DEF BreakerInit
  <2> QED
    BY <2>1, <2>2, <2>3, <2>4 DEF BreakerTypeOK
<1>2. Probing = {} /\ state = "closed"
  BY DEF BreakerInit, Probing
<1> QED
  BY <1>1, <1>2 DEF BreakerInv, Outlived, ProbesAlone, SlotInUse

\* Who waits when a call is let through: the caller too.
LEMMA Joins ==
    ASSUME BreakerTypeOK, NEW c \in Callers, NEW how \in {"calling", "probing"}, Proceeds(c, how)
    PROVE  /\ Waiting' = Waiting \cup {c}
           /\ Probing' = IF how = "probing" THEN Probing \cup {c} ELSE Probing
           /\ c \notin Waiting
  BY DEF BreakerTypeOK, Proceeds, Waiting, Probing

\* Who waits when a call is over: the others.
LEMMA GivesUp ==
    ASSUME BreakerTypeOK, NEW c \in Callers, Over(c)
    PROVE  /\ Waiting' = Waiting \ {c}
           /\ Probing' = Probing \ {c}
           /\ c \in Waiting
           /\ \A d \in Waiting \ {c} : left'[d] = left[d]
  BY DEF BreakerTypeOK, Over, Waiting, Probing

\* A refused caller waits for nothing.
LEMMA Stays ==
    ASSUME BreakerTypeOK, NEW c \in Callers, Refused(c) \/ Shrugs(c)
    PROVE  Waiting' = Waiting /\ Probing' = Probing
  BY DEF BreakerTypeOK, Refused, Shrugs, Waiting, Probing

\* The variables keep their types.
LEMMA NextBreakerTypes == BreakerTypeOK /\ [BreakerNext]_breakerVars => BreakerTypeOK'
<1> SUFFICES ASSUME BreakerTypeOK, [BreakerNext]_breakerVars PROVE BreakerTypeOK'
  OBVIOUS
<1> USE BreakerAssumption
<1>1. CASE Tick
  BY <1>1 DEF Tick, BreakerTypeOK, Waiting
<1>2. ASSUME NEW c \in Callers, Call(c) \/ Probe(c) PROVE BreakerTypeOK'
  BY <1>2 DEF Call, Probe, Proceeds, BreakerTypeOK
<1>3. ASSUME NEW c \in Callers, Refused(c) \/ Shrugs(c) PROVE BreakerTypeOK'
  BY <1>3 DEF Refused, Shrugs, BreakerTypeOK
<1>4. ASSUME NEW c \in Callers, Succeeds(c) PROVE BreakerTypeOK'
  BY <1>4 DEF Succeeds, Over, BreakerTypeOK
<1>5. ASSUME NEW c \in Callers, TimesOut(c) PROVE BreakerTypeOK'
  BY <1>5 DEF TimesOut, Trips, Over, BreakerTypeOK
<1>6. ASSUME NEW c \in Callers, Raises(c) PROVE BreakerTypeOK'
  BY <1>6 DEF Raises, Over, BreakerTypeOK
<1>7. CASE UNCHANGED breakerVars
  BY <1>7 DEF breakerVars, BreakerTypeOK
<1> QED
  BY <1>1, <1>2, <1>3, <1>4, <1>5, <1>6, <1>7 DEF BreakerNext

\* Every step keeps the invariant.
LEMMA NextBreakerInv == BreakerInv /\ [BreakerNext]_breakerVars => BreakerInv'
<1> SUFFICES ASSUME BreakerInv, [BreakerNext]_breakerVars PROVE BreakerInv'
  OBVIOUS
<1> USE BreakerAssumption
<1>0. BreakerTypeOK /\ BreakerTypeOK'
  BY NextBreakerTypes DEF BreakerInv
<1>1. CASE Tick
  <2>1. Waiting' = Waiting /\ Probing' = Probing
    BY <1>1 DEF Tick, Waiting, Probing
  <2>2. Outlived'
    <3> SUFFICES ASSUME state = "open", NEW c \in Waiting PROVE left'[c] < window'
      BY <1>1, <2>1 DEF Outlived, Tick
    <3>1. left[c] < window /\ left[c] > 0 /\ c \in Callers
      BY <1>1 DEF BreakerInv, Outlived, Tick, Waiting
    <3> QED
      BY <1>0, <1>1, <3>1 DEF Tick, BreakerTypeOK
  <2> QED
    BY <1>0, <1>1, <2>1, <2>2 DEF BreakerInv, ProbesAlone, SlotInUse, Tick
<1>2. ASSUME NEW c \in Callers, Call(c) PROVE BreakerInv'
  <2>1. Probing = {} /\ state = "closed"
    BY <1>2 DEF Call, BreakerInv, ProbesAlone
  <2>2. Probing' = {} /\ state' = "closed"
    BY <1>0, <1>2, <2>1, Joins DEF Call
  <2> QED
    BY <1>0, <2>2 DEF BreakerInv, Outlived, ProbesAlone, SlotInUse
<1>3. ASSUME NEW c \in Callers, Probe(c) PROVE BreakerInv'
  <2>1. Waiting = {}
    BY <1>0, <1>3 DEF Probe, BreakerInv, Outlived, BreakerTypeOK, Waiting
  <2>2. Waiting' = {c} /\ Probing' = {c} /\ state' = "half_open"
    BY <1>0, <1>3, <2>1, Joins DEF Probe, Waiting, Probing
  <2> QED
    BY <1>0, <2>2 DEF BreakerInv, Outlived, ProbesAlone, SlotInUse
<1>4. ASSUME NEW c \in Callers, Refused(c) \/ Shrugs(c) PROVE BreakerInv'
  BY <1>0, <1>4, Stays
  DEF Refused, Shrugs, BreakerInv, Outlived, ProbesAlone, SlotInUse
<1>5. ASSUME NEW c \in Callers, Succeeds(c) PROVE BreakerInv'
  <2> USE <1>0, <1>5, GivesUp DEF Succeeds
  <2>1. CASE pc[c] = "probing" /\ state = "half_open"
    <3>1. Waiting = {c} /\ Probing \subseteq Waiting
      BY <2>1 DEF BreakerInv, ProbesAlone, Probing, Waiting
    <3> QED
      BY <2>1, <3>1 DEF BreakerInv, Outlived, ProbesAlone, SlotInUse
  <2>2. CASE ~(pc[c] = "probing" /\ state = "half_open")
    <3>1. c \notin Probing
      BY <2>2 DEF BreakerInv, ProbesAlone, Probing
    <3>2. UNCHANGED <<state, window, lost>> /\ Probing' = Probing
      BY <2>2, <3>1
    <3>3. Probing = {}
      BY <3>1 DEF BreakerInv, ProbesAlone
    <3> QED
      BY <3>2, <3>3 DEF BreakerInv, Outlived, ProbesAlone, SlotInUse
  <2> QED
    BY <2>1, <2>2
<1>6. ASSUME NEW c \in Callers, TimesOut(c) PROVE BreakerInv'
  <2> USE <1>0, <1>6, GivesUp DEF TimesOut
  <2>1. Probing' = {}
    BY DEF BreakerInv, ProbesAlone, Probing, Waiting
  <2>2. CASE state = "open"
    BY <2>1, <2>2 DEF Trips, BreakerInv, Outlived, ProbesAlone, SlotInUse
  <2>3. CASE state # "open"
    <3>1. state' = "open" /\ window' = Window
      BY <2>3 DEF Trips
    <3>2. \A d \in Waiting' : left'[d] < window'
      BY <3>1 DEF BreakerTypeOK, Waiting
    <3> QED
      BY <2>1, <3>1, <3>2 DEF BreakerInv, Outlived, ProbesAlone, SlotInUse
  <2> QED
    BY <2>2, <2>3
<1>7. ASSUME NEW c \in Callers, Raises(c) PROVE BreakerInv'
  <2> USE <1>0, <1>7, GivesUp DEF Raises
  <2>1. Probing' = {}
    BY DEF BreakerInv, ProbesAlone, Probing, Waiting
  <2>2. SlotInUse'
    <3>1. CASE c \in Probing
      BY <3>1 DEF SlotInUse, Probing
    <3>2. CASE c \notin Probing
      <4>1. Probing = {}
        BY <3>2 DEF BreakerInv, ProbesAlone
      <4> QED
        BY <4>1 DEF BreakerInv, SlotInUse
    <3> QED
      BY <3>1, <3>2
  <2> QED
    BY <2>1, <2>2 DEF BreakerInv, Outlived, ProbesAlone
<1>8. CASE UNCHANGED breakerVars
  BY <1>8 DEF breakerVars, BreakerInv, BreakerTypeOK, Outlived, ProbesAlone, SlotInUse, Waiting, Probing
<1> QED
  BY <1>1, <1>2, <1>3, <1>4, <1>5, <1>6, <1>7, <1>8 DEF BreakerNext

\* The invariant holds in every reachable state.
LEMMA BreakerInvariance == BreakerSpec => []BreakerInv
<1>1. BreakerInit => BreakerInv
  BY InitBreakerInv
<1>2. BreakerInv /\ [BreakerNext]_breakerVars => BreakerInv'
  BY NextBreakerInv
<1> QED
  BY <1>1, <1>2, PTL DEF BreakerSpec

(***************************************************************************)
(* While a probe is under way nothing else is, for any number of callers   *)
(* and any times of which the call's is the shorter.                       *)
(***************************************************************************)
THEOREM ProbeIsAlone == BreakerSpec => []ProbesAlone
<1>1. BreakerInv => ProbesAlone
  BY DEF BreakerInv
<1> QED
  BY <1>1, BreakerInvariance, PTL

(***************************************************************************)
(* The probe's slot is held by a probe, or one was lost to an exception.   *)
(***************************************************************************)
THEOREM SlotIsHeld == BreakerSpec => []SlotInUse
<1>1. BreakerInv => SlotInUse
  BY DEF BreakerInv
<1> QED
  BY <1>1, BreakerInvariance, PTL
=============================================================================
