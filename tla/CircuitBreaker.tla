---------------------------- MODULE CircuitBreaker ----------------------------
(***************************************************************************)
(* The breaker between an agent and its external memory                    *)
(* (runtime/memory_bridge/circuit_breaker.py), for one agent and one       *)
(* operation.  Every drink and every pour of the agent goes through call,  *)
(* whichever session it is for, so that calls overlap.                     *)
(*                                                                         *)
(* The lock of a state is never held across an await, so deciding whether  *)
(* a call may proceed is one step, and so is what its end does to the      *)
(* state.  Between them the call waits for the memory.                     *)
(*                                                                         *)
(* Time is what is left: of the window since the breaker opened, and of    *)
(* each call.  Recorded durations and events are left out.                 *)
(***************************************************************************)
EXTENDS Naturals

CONSTANTS
    Callers,  \* tasks that use the memory for this agent
    Timeout,  \* TIMEOUT_SECONDS, with the time a memory takes to be cancelled
    Window    \* OPEN_WINDOW_SECONDS

\* 5 and 60 seconds in the code.
ASSUME BreakerAssumption ==
    /\ Timeout \in Nat /\ Window \in Nat
    /\ Timeout < Window

VARIABLES
    state,   \* "closed", "open" or "half_open"
    window,  \* time left of the open window, 0 once it has expired
    pc,      \* per caller: "idle", "calling", "probing" or "refused"
    left,    \* per caller: time left of its call
    lost     \* history: a probe has ended with neither answer nor timeout

breakerVars == <<state, window, pc, left, lost>>

Waiting == {c \in Callers : pc[c] \in {"calling", "probing"}}
Probing == {c \in Callers : pc[c] = "probing"}

BreakerInit ==
    /\ state = "closed"
    /\ window = 0
    /\ pc = [c \in Callers |-> "idle"]
    /\ left = [c \in Callers |-> 0]
    /\ lost = FALSE

----------------------------------------------------------------------------

\* The call is let through and waits, as the probe or as any other.
Proceeds(c, how) ==
    /\ pc[c] = "idle"
    /\ pc' = [pc EXCEPT ![c] = how]
    /\ left' = [left EXCEPT ![c] = Timeout]
    /\ UNCHANGED <<window, lost>>

\* try_acquire_probe while the breaker is closed.
Call(c) == state = "closed" /\ Proceeds(c, "calling") /\ UNCHANGED state

\* Mutant: the window is over a moment early.
ProbeEarly(c) ==
    /\ state = "open" /\ window <= 1
    /\ Proceeds(c, "probing")
    /\ state' = "half_open"

\* The same after the window: this caller is the probe.
Probe(c) ==
    /\ state = "open" /\ window = 0
    /\ Proceeds(c, "probing")
    /\ state' = "half_open"

\* Within the window, or while another caller probes, the call is not made.
Refused(c) ==
    /\ pc[c] = "idle"
    /\ state = "half_open" \/ (state = "open" /\ window > 0)
    /\ pc' = [pc EXCEPT ![c] = "refused"]
    /\ UNCHANGED <<state, window, left, lost>>

\* The caller takes the empty result and does something else.
Shrugs(c) ==
    /\ pc[c] = "refused"
    /\ pc' = [pc EXCEPT ![c] = "idle"]
    /\ UNCHANGED <<state, window, left, lost>>

\* The call is over.
Over(c) ==
    /\ c \in Waiting
    /\ pc' = [pc EXCEPT ![c] = "idle"]
    /\ left' = [left EXCEPT ![c] = 0]

\* The memory answers.  The probe closes the breaker if it is still half open.
Succeeds(c) ==
    /\ Over(c)
    /\ LET recovers == pc[c] = "probing" /\ state = "half_open"
       IN  /\ state' = IF recovers THEN "closed" ELSE state
           /\ window' = IF recovers THEN 0 ELSE window
    /\ UNCHANGED lost

\* Mutant: only a closed breaker is tripped.
TripsClosed ==
    IF state = "closed" THEN state' = "open" /\ window' = Window
                        ELSE UNCHANGED <<state, window>>

\* trip: an open breaker keeps its window, any other opens for a new one.
Trips ==
    IF state = "open" THEN UNCHANGED <<state, window>>
                      ELSE state' = "open" /\ window' = Window

\* wait_for gives up, or the memory itself reports a timeout.
TimesOut(c) ==
    /\ Over(c)
    /\ Trips
    /\ UNCHANGED lost

(***************************************************************************)
(* The memory raises anything else, or the caller's task is cancelled: the *)
(* exception passes through call, and the state stays as it is.            *)
(***************************************************************************)
Raises(c) ==
    /\ Over(c)
    /\ lost' = (lost \/ pc[c] = "probing")
    /\ UNCHANGED <<state, window>>

\* Time passes, though never past the end of a call's time.
Tick ==
    /\ window > 0 \/ Waiting # {}
    /\ \A c \in Waiting : left[c] > 0
    /\ window' = IF window > 0 THEN window - 1 ELSE 0
    /\ left' = [c \in Callers |-> IF c \in Waiting THEN left[c] - 1 ELSE left[c]]
    /\ UNCHANGED <<state, pc, lost>>

BreakerNext ==
    \/ Tick
    \/ \E c \in Callers :
          \/ Call(c) \/ Probe(c) \/ Refused(c) \/ Shrugs(c)
          \/ Succeeds(c) \/ TimesOut(c) \/ Raises(c)

\* The clock goes on, a refusal is returned at once, and a call whose time is
\* up ends.  Nobody has to call, nor the memory to answer.
BreakerFairness ==
    /\ WF_breakerVars(Tick)
    /\ \A c \in Callers : WF_breakerVars(Shrugs(c)) /\ WF_breakerVars(left[c] = 0 /\ TimesOut(c))

BreakerSpec == BreakerInit /\ [][BreakerNext]_breakerVars /\ BreakerFairness

----------------------------------------------------------------------------
(* Properties.                                                             *)

\* What the variables hold.
BreakerTypeOK ==
    /\ state \in {"closed", "open", "half_open"}
    /\ window \in 0..Window
    /\ pc \in [Callers -> {"idle", "calling", "probing", "refused"}]
    /\ left \in [Callers -> 0..Timeout]
    /\ lost \in BOOLEAN

(***************************************************************************)
(* While the memory is probed nothing else is under way there, not even a  *)
(* call that was let through before the breaker opened                     *)
(* (circuit_breaker.py:16-18, 202-204): what the probe's end does to the   *)
(* state is then about the probe.                                          *)
(***************************************************************************)
ProbesAlone == \A c \in Probing : Waiting = {c} /\ state = "half_open"

(***************************************************************************)
(* Who finds the probe's slot taken is refused for the sake of a probe     *)
(* that will settle it (circuit_breaker.py:202-204), unless a probe ended  *)
(* with an exception other than a timeout: nobody gives its slot back.     *)
(***************************************************************************)
SlotInUse == state = "half_open" => Probing # {} \/ lost

(***************************************************************************)
(* Whoever is refused again and again sees calls let through again and     *)
(* again (circuit_breaker.py:7-8): late timeouts do not move the window,   *)
(* and probes succeed or start a new one.  Only a lost probe stops that.   *)
(***************************************************************************)
KeepsTrying ==
    []<>(\E c \in Callers : pc[c] = "refused") => []<>(Waiting # {}) \/ <>[]lost
=============================================================================
