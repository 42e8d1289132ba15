--------------------------- MODULE ToolTurnProofs ----------------------------
(***************************************************************************)
(* Proofs about ToolTurn, for any turns, sessions and requests, and any    *)
(* number of iterations and of calls in an answer.                         *)
(*                                                                         *)
(* The inductive invariant describes the log of a request completely: no   *)
(* frame, its prompt, or its prompt and one decision, where "approve" is   *)
(* the user's.  That a tool runs only with an approval of its own then     *)
(* follows from where the turn that runs it was parked.                    *)
(***************************************************************************)
EXTENDS ToolTurn, SequenceTheorems, TLAPS

Answers == [decision : {"approve", "deny"}, by : {"user", "timeout", "abort"}]

(* "approve" is never the answer of a timer or of a signal. *)
LogOK == \A r \in Requests :
    \/ log[r] = <<>>
    \/ log[r] = <<Asked>>
    \/ \E f \in Answers :
          /\ log[r] = <<Asked, f>>
          /\ f.decision = "approve" => f = [decision |-> "approve", by |-> "user"]

(* Who waits for what. *)
ParkedOK ==
    /\ \A r \in Requests : log[r] = <<Asked>> => owner[r] \in Turns /\ parked[owner[r]] = r
    /\ \A r \in Requests : owner[r] = None <=> log[r] = <<>>
    /\ \A t \in Turns : pc[t] = "ask" <=> parked[t] # None
    /\ \A t \in Turns : parked[t] # None =>
          /\ parked[t] \in Requests
          /\ owner[parked[t]] = t
          /\ log[parked[t]] # <<>>

Kept ==
    \A r \in Requests : log[r] = <<Asked>> => home[owner[r]] \notin aborted

(* A turn that asks or executes does so for the first call that is left. *)
Busy == \A t \in Turns : pc[t] \in {"ask", "run"} => calls[t] # <<>>

IInv == TypeOK /\ LogOK /\ ParkedOK /\ Kept /\ Busy /\ HistoryPaired

-----------------------------------------------------------------------------
(* Sequences of one and of two elements. *)
LEMMA ShortSeqs ==
    ASSUME NEW a, NEW b
    PROVE  /\ Len(<<>>) = 0 /\ Len(<<a>>) = 1 /\ Len(<<a, b>>) = 2
           /\ <<a>> # <<>> /\ <<a, b>> # <<>> /\ <<a, b>> # <<a>>
           /\ <<a>>[1] = a /\ <<a, b>>[1] = a /\ <<a, b>>[2] = b
           /\ Append(<<a>>, b) = <<a, b>>
<1>1. Append(<<a>>, b) = <<a, b>>
  <2> DEFINE S == {a, b}
             s == Append(<<a>>, b)
             t == <<a, b>>
  <2>1. <<a>> \in Seq(S) /\ Len(<<a>>) = 1 /\ <<a>>[1] = a
    OBVIOUS
  <2>2. s \in Seq(S) /\ Len(s) = 2 /\ s[1] = a /\ s[2] = b
    BY <2>1, AppendProperties
  <2>3. t \in Seq(S) /\ Len(t) = 2 /\ t[1] = a /\ t[2] = b
    OBVIOUS
  <2>4. Len(s) = Len(t) /\ \A i \in 1..Len(s) : s[i] = t[i]
    BY <2>2, <2>3
  <2> HIDE DEF s, t, S
  <2>5. s = t
    BY <2>2, <2>3, <2>4, SeqEqual
  <2> QED BY <2>5 DEF s, t
<1>2. Len(<<>>) = 0 /\ Len(<<a>>) = 1 /\ Len(<<a, b>>) = 2
  OBVIOUS
<1> QED BY <1>1, <1>2

(* Unused, Pending and Settled are the three shapes of a log. *)
LEMMA Shapes ==
    ASSUME LogOK, NEW r \in Requests
    PROVE  /\ Unused(r) <=> log[r] = <<>>
           /\ Pending(r) <=> log[r] = <<Asked>>
           /\ Settled(r) <=> log[r] # <<>> /\ log[r] # <<Asked>>
           /\ Settled(r) => \E f \in Answers :
                /\ log[r] = <<Asked, f>>
                /\ log[r][2] = f
                /\ f.decision = "approve" => f = [decision |-> "approve", by |-> "user"]
<1>1. CASE log[r] = <<>>
  BY <1>1, ShortSeqs DEF Unused, Pending, Settled
<1>2. CASE log[r] = <<Asked>>
  BY <1>2, ShortSeqs DEF Unused, Pending, Settled
<1>3. CASE \E f \in Answers :
              /\ log[r] = <<Asked, f>>
              /\ f.decision = "approve" => f = [decision |-> "approve", by |-> "user"]
  BY <1>3, ShortSeqs DEF Unused, Pending, Settled
<1> QED BY <1>1, <1>2, <1>3 DEF LogOK

(* An answer fills the second place of an open request, and only then. *)
LEMMA AnswerShape ==
    ASSUME LogOK, NEW r \in Requests, NEW d, NEW by
    PROVE  /\ log[r] = <<Asked>> => Answer(r, d, by) = <<Asked, [decision |-> d, by |-> by]>>
           /\ Settled(r) => Answer(r, d, by) = log[r]
<1>1. ASSUME log[r] = <<Asked>>
      PROVE  Answer(r, d, by) = <<Asked, [decision |-> d, by |-> by]>>
  BY <1>1, Shapes, ShortSeqs DEF Answer
<1> QED BY <1>1 DEF Answer

LEMMA InitIInv == Init => IInv
BY TurnAssumption
   DEF Init, IInv, TypeOK, LogOK, ParkedOK, Kept, Busy, HistoryPaired, Frames, Asked, Kinds

-----------------------------------------------------------------------------
(* Steps of the registry. *)

(* decide() and a timer answer one open request and touch nothing else. *)
LEMMA AnsweredIInv ==
    ASSUME IInv, NEW r \in Requests, Pending(r),
           NEW d \in {"approve", "deny"}, NEW by \in {"user", "timeout", "abort"},
           d = "approve" => by = "user",
           log' = [log EXCEPT ![r] = Answer(r, d, by)],
           UNCHANGED <<home, aborted, pc, loopVars, parked, owner>>
    PROVE  IInv'
<1> DEFINE f == [decision |-> d, by |-> by]
<1>0. LogOK /\ TypeOK
  BY DEF IInv
<1>1. log[r] = <<Asked>> /\ log' = [log EXCEPT ![r] = <<Asked, f>>]
  BY <1>0, Shapes, AnswerShape
<1>2. f \in Answers /\ (f.decision = "approve" => f = [decision |-> "approve", by |-> "user"])
  BY DEF Answers
<1>3. <<Asked, f>> \in Seq(Frames) /\ <<Asked, f>> # <<Asked>> /\ <<Asked, f>> # <<>>
  BY <1>2, ShortSeqs DEF Frames, Answers
<1> HIDE DEF f
<1>4. log' \in [Requests -> Seq(Frames)]
  BY <1>0, <1>1, <1>3 DEF TypeOK
<1>5. \A q \in Requests : log'[q] = IF q = r THEN <<Asked, f>> ELSE log[q]
  BY <1>0, <1>1 DEF TypeOK
<1>6. TypeOK'
  BY <1>0, <1>4 DEF TypeOK, loopVars
<1>7. LogOK'
  BY <1>0, <1>2, <1>5 DEF LogOK
<1>8. ParkedOK'
  BY <1>1, <1>3, <1>5 DEF ParkedOK, IInv
<1>9. Kept' /\ Busy' /\ HistoryPaired'
  BY <1>3, <1>5 DEF Kept, Busy, HistoryPaired, IInv, loopVars
<1> QED BY <1>6, <1>7, <1>8, <1>9 DEF IInv

(* The signal of a session answers every open request made under it. *)
LEMMA AbortIInv == ASSUME IInv, NEW s \in Sessions, Abort(s) PROVE IInv'
<1> DEFINE f == [decision |-> "deny", by |-> "abort"]
           Hit(q) == log[q] = <<Asked>> /\ home[owner[q]] = s
<1>0. LogOK /\ TypeOK
  BY DEF IInv
<1>1. f \in Answers /\ f.decision # "approve"
  BY DEF Answers
<1>2. <<Asked, f>> \in Seq(Frames) /\ <<Asked, f>> # <<Asked>> /\ <<Asked, f>> # <<>>
  BY <1>1, ShortSeqs DEF Frames, Answers
<1>3. \A q \in Requests : log'[q] = IF Hit(q) THEN <<Asked, f>> ELSE log[q]
  <2> SUFFICES ASSUME NEW q \in Requests
               PROVE  log'[q] = IF Hit(q) THEN <<Asked, f>> ELSE log[q]
    OBVIOUS
  <2>1. log'[q] = IF ~Unused(q) /\ home[owner[q]] = s THEN Answer(q, "deny", "abort") ELSE log[q]
    BY DEF Abort
  <2>2. CASE log[q] = <<>>
    BY <1>0, <2>1, <2>2, Shapes, ShortSeqs
  <2>3. CASE log[q] = <<Asked>>
    BY <1>0, <2>1, <2>3, Shapes, AnswerShape
  <2>4. CASE log[q] # <<>> /\ log[q] # <<Asked>>
    BY <1>0, <2>1, <2>4, Shapes, AnswerShape
  <2> QED BY <2>2, <2>3, <2>4
<1>4. log' = [q \in Requests |-> log'[q]]
  BY DEF Abort
<1> HIDE DEF f
<1>5. log' \in [Requests -> Seq(Frames)]
  BY <1>0, <1>2, <1>3, <1>4 DEF TypeOK
<1>6. TypeOK'
  BY <1>0, <1>5 DEF TypeOK, loopVars, Abort
<1>7. LogOK'
  BY <1>0, <1>1, <1>3 DEF LogOK
<1>8. ParkedOK'
  BY <1>2, <1>3 DEF ParkedOK, IInv, Abort
<1>9. Kept'
  BY <1>2, <1>3 DEF Kept, IInv, Abort
<1>10. Busy' /\ HistoryPaired'
  BY DEF Busy, HistoryPaired, IInv, loopVars, Abort
<1> QED BY <1>6, <1>7, <1>8, <1>9, <1>10 DEF IInv

-----------------------------------------------------------------------------
(* Steps of a turn that leave the registry alone. *)

(* A tool_result pays one call off. *)
LEMMA ResultPays ==
    ASSUME TypeOK, HistoryPaired, NEW t \in Turns, calls[t] # <<>>, pc[t] # "over", Result(t)
    PROVE  /\ calls' \in [Turns -> Seq(Kinds)]
           /\ owed' \in [Turns -> Nat]
           /\ owed'[t] = Len(calls'[t])
           /\ \A u \in Turns \ {t} : owed'[u] = owed[u] /\ calls'[u] = calls[u]
<1>1. calls[t] \in Seq(Kinds) /\ owed[t] = Len(calls[t])
  BY DEF TypeOK, HistoryPaired
<1>2. Tail(calls[t]) \in Seq(Kinds) /\ Len(Tail(calls[t])) = Len(calls[t]) - 1
  BY <1>1, HeadTailProperties
<1>3. calls' = [calls EXCEPT ![t] = Tail(calls[t])] /\ owed' = [owed EXCEPT ![t] = owed[t] - 1]
  BY DEF Result
<1>4. Len(Tail(calls[t])) \in Nat
  BY <1>2, LenProperties
<1>5. calls'[t] = Tail(calls[t]) /\ owed'[t] = owed[t] - 1
  BY <1>3 DEF TypeOK
<1>6. owed[t] - 1 \in Nat
  BY <1>1, <1>2, <1>4
<1> QED BY <1>1, <1>2, <1>3, <1>5, <1>6 DEF TypeOK

(* A turn that moves between places other than "ask" disturbs no request. *)
LEMMA MovesIInv ==
    ASSUME IInv, NEW t \in Turns, NEW place \in {"next", "stream", "run", "over"},
           pc[t] # "ask", Goes(t, place),
           UNCHANGED <<home, aborted, parked, registry>>,
           round' \in [Turns -> 0..MaxRounds],
           calls' \in [Turns -> Seq(Kinds)],
           owed' \in [Turns -> Nat],
           place # "over" => owed'[t] = Len(calls'[t]),
           place = "stream" => owed'[t] = 0,
           place = "run" => calls'[t] # <<>>,
           \A u \in Turns \ {t} : owed'[u] = owed[u] /\ calls'[u] = calls[u]
    PROVE  IInv'
<1>1. \A u \in Turns : pc'[u] = IF u = t THEN place ELSE pc[u]
  BY DEF IInv, TypeOK, Goes
<1>2. TypeOK'
  BY DEF IInv, TypeOK, Goes, registry
<1>3. LogOK' /\ Kept'
  BY DEF IInv, LogOK, Kept, registry
<1>4. ParkedOK'
  BY <1>1 DEF IInv, ParkedOK, registry
<1>5. HistoryPaired' /\ Busy'
  BY <1>1 DEF IInv, HistoryPaired, Busy
<1> QED BY <1>2, <1>3, <1>4, <1>5 DEF IInv

LEMMA IterateIInv == ASSUME IInv, NEW t \in Turns, Iterate(t) PROVE IInv'
<1>1. owed[t] = 0 /\ Len(calls[t]) = 0
  BY ShortSeqs DEF IInv, HistoryPaired, Iterate
<1>2. round' \in [Turns -> 0..MaxRounds]
  <2>1. CASE round[t] < MaxRounds /\ round' = [round EXCEPT ![t] = @ + 1]
    <3>1. round[t] + 1 \in 0..MaxRounds
      BY <2>1, TurnAssumption DEF IInv, TypeOK
    <3> QED BY <2>1, <3>1 DEF IInv, TypeOK
  <2>2. CASE UNCHANGED round
    BY <2>2 DEF IInv, TypeOK
  <2> QED BY <2>1, <2>2 DEF Iterate
<1>3. PICK place \in {"stream", "over"} : Goes(t, place)
  BY DEF Iterate
<1>4. calls' \in [Turns -> Seq(Kinds)] /\ owed' \in [Turns -> Nat]
  BY DEF Iterate, IInv, TypeOK
<1> QED BY <1>1, <1>2, <1>3, <1>4, MovesIInv DEF Iterate

LEMMA StreamedIInv ==
    ASSUME IInv, NEW t \in Turns, NEW cs \in CallLists, Streamed(t, cs) PROVE IInv'
<1>1. cs \in Seq(Kinds) /\ Len(cs) \in Nat
  <2>1. PICK n \in 0..MaxCalls : cs \in [1..n -> Kinds]
    BY DEF CallLists
  <2>2. n \in Nat
    BY TurnAssumption
  <2>3. cs \in Seq(Kinds)
    BY <2>1, <2>2, SeqDef
  <2> QED BY <2>3, LenProperties
<1>2. pc[t] = "stream" /\ owed[t] = 0
  BY DEF IInv, HistoryPaired, Streamed
<1>3. calls' = [calls EXCEPT ![t] = cs] /\ owed' = [owed EXCEPT ![t] = Len(cs)]
  <2>1. owed[t] + Len(cs) = Len(cs)
    BY <1>1, <1>2
  <2> QED BY <2>1 DEF Streamed
<1>4. /\ calls' \in [Turns -> Seq(Kinds)] /\ owed' \in [Turns -> Nat]
      /\ owed'[t] = Len(calls'[t])
      /\ \A u \in Turns \ {t} : owed'[u] = owed[u] /\ calls'[u] = calls[u]
  BY <1>1, <1>3 DEF IInv, TypeOK
<1>5. PICK place \in {"next", "over"} : Goes(t, place)
  BY DEF Streamed
<1>6. round' \in [Turns -> 0..MaxRounds]
  BY DEF Streamed, IInv, TypeOK
<1> QED BY <1>2, <1>4, <1>5, <1>6, MovesIInv DEF Streamed

(* A stream that threw, and a turn that stopped between two calls. *)
LEMMA GivenUpIInv ==
    ASSUME IInv, NEW t \in Turns, StreamThrew(t) \/ Stopped(t) PROVE IInv'
<1>1. pc[t] # "ask" /\ Goes(t, "over") /\ UNCHANGED <<home, aborted, loopVars, parked, registry>>
  BY DEF StreamThrew, Stopped
<1>2. /\ round' \in [Turns -> 0..MaxRounds]
      /\ calls' \in [Turns -> Seq(Kinds)] /\ owed' \in [Turns -> Nat]
      /\ \A u \in Turns \ {t} : owed'[u] = owed[u] /\ calls'[u] = calls[u]
  BY <1>1 DEF IInv, TypeOK, loopVars
<1> QED BY <1>1, <1>2, MovesIInv

(* A call that ends here: refused, without an executor, or executed. *)
LEMMA ResultIInv ==
    ASSUME IInv, NEW t \in Turns, pc[t] \in {"next", "run"}, calls[t] # <<>>,
           Goes(t, "next"), Result(t), UNCHANGED <<home, aborted, parked, registry>>
    PROVE  IInv'
<1>1. TypeOK /\ HistoryPaired
  BY DEF IInv
<1>2. round' \in [Turns -> 0..MaxRounds]
  BY <1>1 DEF Result, TypeOK
<1> QED BY <1>1, <1>2, ResultPays, MovesIInv

LEMMA RefuseIInv == ASSUME IInv, NEW t \in Turns, Refuse(t) PROVE IInv'
<1>1. Goes(t, "next")
  BY DEF Refuse, Dispatching, Goes, IInv, TypeOK
<1> QED BY <1>1, ResultIInv DEF Refuse, Dispatching

LEMMA AllowIInv ==
    ASSUME IInv, NEW t \in Turns, NEW executor \in BOOLEAN, Allow(t, executor) PROVE IInv'
<1>1. CASE Goes(t, "next") /\ Result(t)
  BY <1>1, ResultIInv DEF Allow, Dispatching
<1>2. CASE Goes(t, "run") /\ UNCHANGED loopVars
  <2>1. owed'[t] = Len(calls'[t]) /\ calls'[t] # <<>>
    BY <1>2 DEF loopVars, IInv, HistoryPaired, Allow, Dispatching
  <2>2. /\ round' \in [Turns -> 0..MaxRounds]
        /\ calls' \in [Turns -> Seq(Kinds)] /\ owed' \in [Turns -> Nat]
        /\ \A u \in Turns \ {t} : owed'[u] = owed[u] /\ calls'[u] = calls[u]
    BY <1>2 DEF IInv, TypeOK, loopVars
  <2> QED BY <1>2, <2>1, <2>2, MovesIInv DEF Allow, Dispatching
<1> QED BY <1>1, <1>2 DEF Allow, Proceed

LEMMA ReturnedIInv == ASSUME IInv, NEW t \in Turns, Returned(t) PROVE IInv'
<1>1. calls[t] # <<>>
  BY DEF IInv, Busy, Returned
<1> QED BY <1>1, ResultIInv DEF Returned

-----------------------------------------------------------------------------
(* Steps that park a turn and wake it. *)

LEMMA AskIInv == ASSUME IInv, NEW t \in Turns, Ask(t) PROVE IInv'
<1> DEFINE f == [decision |-> "deny", by |-> "abort"]
<1>0. LogOK /\ TypeOK /\ ParkedOK
  BY DEF IInv
<1>1. PICK r \in Requests :
         /\ Unused(r)
         /\ owner' = [owner EXCEPT ![r] = t]
         /\ log' = [log EXCEPT ![r] = Opened(t)]
         /\ parked' = [parked EXCEPT ![t] = r]
  BY DEF Ask
<1>2. Opened(t) = <<Asked>>
  BY DEF Opened, Ask, Dispatching
<1>3. log[r] = <<>> /\ <<Asked>> \in Seq(Frames) /\ <<Asked>> # <<>>
  BY <1>1, ShortSeqs DEF Unused, Frames
<1>4. \A q \in Requests : /\ log'[q] = IF q = r THEN <<Asked>> ELSE log[q]
                          /\ owner'[q] = IF q = r THEN t ELSE owner[q]
  BY <1>0, <1>1, <1>2 DEF TypeOK
<1>5. /\ log' \in [Requests -> Seq(Frames)]
      /\ owner' \in [Requests -> Turns \cup {None}]
      /\ parked' \in [Turns -> Requests \cup {None}]
  BY <1>0, <1>1, <1>2, <1>3 DEF TypeOK
<1>6. \A u \in Turns : /\ pc'[u] = IF u = t THEN "ask" ELSE pc[u]
                       /\ parked'[u] = IF u = t THEN r ELSE parked[u]
  BY <1>0, <1>1 DEF TypeOK, Ask, Goes
<1>7. TypeOK'
  BY <1>0, <1>5 DEF TypeOK, Ask, Goes, loopVars
<1>8. LogOK'
  BY <1>0, <1>4 DEF LogOK
<1>9. r # None /\ t # None /\ pc[t] # "ask" /\ parked[t] = None
  BY <1>0, TurnAssumption DEF Ask, Dispatching, ParkedOK
<1>10. ParkedOK'
  <2>1. ASSUME NEW q \in Requests, log'[q] = <<Asked>>
        PROVE  owner'[q] \in Turns /\ parked'[owner'[q]] = q
    <3>1. CASE q = r
      BY <3>1, <1>4, <1>6
    <3>2. CASE q # r
      <4>1. owner[q] \in Turns /\ parked[owner[q]] = q
        BY <3>2, <2>1, <1>0, <1>4 DEF ParkedOK
      <4>2. q # None
        BY TurnAssumption
      <4>3. owner[q] # t
        BY <4>1, <4>2, <1>9
      <4> QED BY <3>2, <4>1, <4>3, <1>4, <1>6
    <3> QED BY <3>1, <3>2
  <2>2. \A q \in Requests : owner'[q] = None <=> log'[q] = <<>>
    BY <1>0, <1>3, <1>4, <1>9 DEF ParkedOK
  <2>3. \A u \in Turns : pc'[u] = "ask" <=> parked'[u] # None
    BY <1>0, <1>6, <1>9 DEF ParkedOK
  <2>4. ASSUME NEW u \in Turns, parked'[u] # None
        PROVE  /\ parked'[u] \in Requests
               /\ owner'[parked'[u]] = u
               /\ log'[parked'[u]] # <<>>
    <3>1. CASE u = t
      BY <3>1, <1>3, <1>4, <1>6
    <3>2. CASE u # t
      BY <3>2, <2>4, <1>0, <1>3, <1>4, <1>6 DEF ParkedOK
    <3> QED BY <3>1, <3>2
  <2> QED BY <2>1, <2>2, <2>3, <2>4 DEF ParkedOK
<1>11. Kept'
  BY <1>4 DEF Kept, IInv, Ask, Dispatching
<1>12. Busy' /\ HistoryPaired'
  BY <1>6 DEF Busy, HistoryPaired, IInv, Ask, Dispatching, loopVars
<1> QED BY <1>7, <1>8, <1>10, <1>11, <1>12 DEF IInv

(* Waking up: the turn lets go of a settled request. *)
LEMMA ResumeIInv ==
    ASSUME IInv, NEW t \in Turns, NEW executor \in BOOLEAN, Resume(t, executor) PROVE IInv'
<1>0. LogOK /\ TypeOK /\ ParkedOK /\ HistoryPaired
  BY DEF IInv
<1>1. /\ pc[t] = "ask" /\ calls[t] # <<>> /\ parked[t] \in Requests
      /\ log[parked[t]] # <<Asked>>
  <2>1. parked[t] \in Requests
    BY <1>0 DEF Resume, ParkedOK
  <2> QED BY <1>0, <2>1, Shapes DEF Resume, Busy, IInv
<1>2. \/ Goes(t, "next") /\ Result(t)
      \/ Goes(t, "run") /\ UNCHANGED loopVars
  BY DEF Resume, Proceed
<1>3. PICK place \in {"next", "run"} : Goes(t, place)
  BY <1>2
<1>4. \A u \in Turns : /\ pc'[u] = IF u = t THEN place ELSE pc[u]
                       /\ parked'[u] = IF u = t THEN None ELSE parked[u]
  BY <1>0, <1>3 DEF TypeOK, Goes, Resume
<1>5. /\ calls' \in [Turns -> Seq(Kinds)] /\ owed' \in [Turns -> Nat]
      /\ round' \in [Turns -> 0..MaxRounds]
      /\ owed'[t] = Len(calls'[t])
      /\ \A u \in Turns \ {t} : owed'[u] = owed[u] /\ calls'[u] = calls[u]
  <2>1. CASE Goes(t, "next") /\ Result(t)
    BY <2>1, <1>0, <1>1, ResultPays DEF Result, TypeOK
  <2>2. CASE Goes(t, "run") /\ UNCHANGED loopVars
    BY <2>2, <1>0, <1>1 DEF loopVars, TypeOK, HistoryPaired
  <2> QED BY <1>2, <2>1, <2>2
<1>6. place = "run" => calls'[t] # <<>>
  <2>1. ASSUME place = "run" PROVE UNCHANGED loopVars
    BY <2>1, <1>0, <1>2, <1>3 DEF Goes, TypeOK
  <2> QED BY <2>1, <1>1 DEF loopVars
<1>7. TypeOK'
  <2>1. parked' \in [Turns -> Requests \cup {None}]
    BY <1>0 DEF TypeOK, Resume
  <2> QED BY <2>1, <1>0, <1>3, <1>5 DEF TypeOK, Goes, Resume, registry
<1>8. LogOK' /\ Kept'
  BY DEF LogOK, Kept, IInv, Resume, registry
<1>9. ParkedOK'
  <2>1. ASSUME NEW q \in Requests, log[q] = <<Asked>>
        PROVE  owner[q] \in Turns /\ parked'[owner[q]] = q
    BY <2>1, <1>0, <1>1, <1>4 DEF ParkedOK
  <2>2. \A u \in Turns : pc'[u] = "ask" <=> parked'[u] # None
    BY <1>0, <1>4 DEF ParkedOK
  <2>3. \A u \in Turns : parked'[u] # None => u # t /\ parked'[u] = parked[u]
    BY <1>4
  <2> QED BY <2>1, <2>2, <2>3, <1>0 DEF ParkedOK, Resume, registry
<1>10. Busy' /\ HistoryPaired'
  BY <1>4, <1>5, <1>6 DEF Busy, HistoryPaired, IInv
<1> QED BY <1>7, <1>8, <1>9, <1>10 DEF IInv

-----------------------------------------------------------------------------
LEMMA StepIInv == IInv /\ [Next]_vars => IInv'
<1> SUFFICES ASSUME IInv, [Next]_vars PROVE IInv'
  OBVIOUS
<1>1. ASSUME NEW r \in Requests, TimedOut(r) PROVE IInv'
  BY <1>1, AnsweredIInv DEF TimedOut
<1>2. ASSUME NEW r \in Requests, NEW s \in Sessions, NEW d \in {"approve", "deny"},
             Decide(r, d, s)
      PROVE  IInv'
  BY <1>2, AnsweredIInv DEF Decide
<1>3. ASSUME NEW s \in Sessions, Abort(s) PROVE IInv'
  BY <1>3, AbortIInv
<1>4. ASSUME NEW t \in Turns, StreamThrew(t) \/ Stopped(t) PROVE IInv'
  BY <1>4, GivenUpIInv
<1>5. CASE UNCHANGED vars
  BY <1>5 DEF vars, loopVars, registry, IInv, TypeOK, LogOK, ParkedOK, Kept, Busy, HistoryPaired
<1> QED
  BY <1>1, <1>2, <1>3, <1>4, <1>5, IterateIInv, StreamedIInv, RefuseIInv, AskIInv,
     ReturnedIInv, AllowIInv, ResumeIInv
  DEF Next

THEOREM Invariance == Spec => []IInv
<1>1. Init => IInv
  BY InitIInv
<1>2. IInv /\ [Next]_vars => IInv'
  BY StepIInv
<1> QED BY <1>1, <1>2, PTL DEF Spec

(* The state of turns, requests and signals keeps its types, however many   *)
(* turns share the registry.                                                *)
THEOREM TypeCorrect == Spec => []TypeOK
<1>1. IInv => TypeOK
  BY DEF IInv
<1> QED BY <1>1, Invariance, PTL

(* tool-approval.ts, settleEntry: every request shows its prompt and then   *)
(* at most one decision, and only the turn that made it waits for it.       *)
THEOREM OneDecision == Spec => []SettledOnce
<1>1. ASSUME IInv PROVE SettledOnce
  <2>0. LogOK /\ ParkedOK
    BY <1>1 DEF IInv
  <2>1. ASSUME NEW r \in Requests
        PROVE  Len(log[r]) <= 2 /\ (~Unused(r) => log[r][1] = Asked)
    <3>1. CASE log[r] = <<>>
      BY <3>1, ShortSeqs DEF Unused
    <3>2. CASE log[r] = <<Asked>>
      BY <3>2, ShortSeqs
    <3>3. CASE \E f \in Answers : log[r] = <<Asked, f>>
      BY <3>3, ShortSeqs
    <3> QED BY <2>0, <3>1, <3>2, <3>3 DEF LogOK
  <2>2. \A r \in Requests : Pending(r) => parked[owner[r]] = r
    BY <2>0, Shapes DEF ParkedOK
  <2>3. \A t \in Turns : parked[t] # None => owner[parked[t]] = t /\ ~Unused(parked[t])
    BY <2>0 DEF ParkedOK, Unused
  <2> QED BY <2>0, <2>1, <2>2, <2>3 DEF SettledOnce, ParkedOK
<1> QED BY <1>1, Invariance, PTL

(* tool-approval.ts, request: once the signal of a run has fired, no user   *)
(* is asked anything on its behalf.                                         *)
THEOREM AbortReleases == Spec => []AbortAnswers
<1>1. ASSUME IInv PROVE AbortAnswers
  BY <1>1, Shapes DEF IInv, Kept, AbortAnswers
<1> QED BY <1>1, Invariance, PTL

(* conversation-runtime-impl.ts, runTurn: the model is never asked again    *)
(* while a tool_use block lacks its tool_result.                            *)
THEOREM ResultsComplete == Spec => []HistoryPaired
<1>1. IInv => HistoryPaired
  BY DEF IInv
<1> QED BY <1>1, Invariance, PTL

(* tool-runner.ts, dispatch: a tool that needs approval executes only after *)
(* the user approved the very request its turn was parked on, and no tool   *)
(* starts once the signal has fired.                                        *)
THEOREM FailClosed == Spec => OnlyApproved
<1>1. ASSUME IInv, [Next]_vars, NEW t \in Turns, pc[t] # "run", pc'[t] = "run"
      PROVE  /\ home[t] \notin aborted
             /\ Head(calls[t]) = "prompt" =>
                  /\ parked[t] # None
                  /\ owner[parked[t]] = t
                  /\ log[parked[t]] = <<Asked, [decision |-> "approve", by |-> "user"]>>
  <2>0. LogOK /\ TypeOK /\ ParkedOK
    BY <1>1 DEF IInv
  <2>1. \E executor \in BOOLEAN : Allow(t, executor) \/ Resume(t, executor)
    BY <1>1, <2>0
    DEF Next, vars, TimedOut, Decide, Abort, Iterate, StreamThrew, Stopped, Refuse, Ask,
        Returned, Streamed, Allow, Resume, Proceed, Goes, TypeOK
  <2>2. ASSUME NEW executor \in BOOLEAN, Proceed(t, executor)
        PROVE  home[t] \notin aborted
    BY <1>1, <2>0, <2>2 DEF Proceed, Goes, TypeOK
  <2>3. ASSUME NEW executor \in BOOLEAN, Allow(t, executor)
        PROVE  home[t] \notin aborted /\ Head(calls[t]) # "prompt"
    BY <2>3 DEF Allow, Dispatching
  <2>4. ASSUME NEW executor \in BOOLEAN, Resume(t, executor)
        PROVE  /\ Proceed(t, executor)
               /\ parked[t] # None /\ owner[parked[t]] = t
               /\ log[parked[t]] = <<Asked, [decision |-> "approve", by |-> "user"]>>
    <3>1. parked[t] \in Requests /\ parked[t] # None /\ owner[parked[t]] = t
      BY <2>0, <2>4 DEF ParkedOK, Resume
    <3>2. log[parked[t]][2].decision = "approve" /\ Proceed(t, executor)
      BY <1>1, <2>0, <2>4 DEF Resume, Goes, TypeOK
    <3>3. PICK f \in Answers :
             /\ log[parked[t]] = <<Asked, f>>
             /\ log[parked[t]][2] = f
             /\ f.decision = "approve" => f = [decision |-> "approve", by |-> "user"]
      BY <2>0, <2>4, <3>1, Shapes DEF Resume
    <3> QED BY <3>1, <3>2, <3>3
  <2> QED BY <2>1, <2>2, <2>3, <2>4
<1>2. IInv /\ [Next]_vars =>
        [\A t \in Turns : pc[t] # "run" /\ pc'[t] = "run" =>
           /\ home[t] \notin aborted
           /\ Head(calls[t]) = "prompt" =>
                /\ parked[t] # None
                /\ owner[parked[t]] = t
                /\ log[parked[t]] = <<Asked, [decision |-> "approve", by |-> "user"]>>]_vars
  BY <1>1
<1> QED BY <1>2, Invariance, PTL DEF Spec, OnlyApproved
=============================================================================
