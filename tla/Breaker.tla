------------------------------ MODULE Breaker -------------------------------
(***************************************************************************)
(* The circuit breaker of one shard, internal/breaker/breaker.go, with the *)
(* calls that pool.Manager.Acquire makes through it: Allow first, then,    *)
(* with the breaker's lock free in between, one Success or Failure.  The   *)
(* three methods are atomic under the lock; any number of calls overlap.   *)
(***************************************************************************)
EXTENDS Integers

CONSTANTS
    Calls,             \* goroutines that acquire connections of the shard
    Detached,          \* the calls without deadline: secondaries of a dual write
    FailureThreshold,  \* consecutive failures that trip the breaker
    ResetTimeout       \* ticks the breaker stays open

ASSUME BreakerAssumption ==
    /\ Detached \subseteq Calls
    /\ FailureThreshold \in Nat \ {0}
    /\ ResetTimeout \in Nat \ {0}

VARIABLES
    state,             \* "Closed", "Open" or "HalfOpen"
    consecutiveFails,  \* not counted beyond FailureThreshold
    sinceOpened,       \* time.Since(openedAt), not counted beyond ResetTimeout
    call,              \* where each call is: "idle" or "inFlight"
    sinceFailure       \* history: time since the last reported failure, counted likewise

vars == <<state, consecutiveFails, sinceOpened, call, sinceFailure>>

(* The zero openedAt of a new breaker is long ago. *)
Init ==
    /\ state = "Closed"
    /\ consecutiveFails = 0
    /\ sinceOpened = ResetTimeout
    /\ call = [c \in Calls |-> "idle"]
    /\ sinceFailure = ResetTimeout

-----------------------------------------------------------------------------
ResetElapsed == sinceOpened >= ResetTimeout

(* Allow in state Open after the timeout: the breaker becomes half-open. *)
AllowProbe(c) ==
    /\ call[c] = "idle"
    /\ state = "Open" /\ ResetElapsed
    /\ state' = "HalfOpen"
    /\ call' = [call EXCEPT ![c] = "inFlight"]
    /\ UNCHANGED <<consecutiveFails, sinceOpened, sinceFailure>>

(* Allow in any other state; while half-open every call is let through.    *)
(* In state Open before the timeout it returns ErrOpen, nothing changes.   *)
AllowCall(c) ==
    /\ call[c] = "idle"
    /\ state # "Open"
    /\ call' = [call EXCEPT ![c] = "inFlight"]
    /\ UNCHANGED <<state, consecutiveFails, sinceOpened, sinceFailure>>

Returns(c) ==
    /\ call[c] # "idle"
    /\ call' = [call EXCEPT ![c] = "idle"]

(* Faulty: a success starts a new count but leaves the breaker as it is. *)
SuccessKeepsState(c) ==
    /\ Returns(c)
    /\ consecutiveFails' = 0
    /\ UNCHANGED <<state, sinceOpened, sinceFailure>>

Success(c) ==
    /\ Returns(c)
    /\ consecutiveFails' = 0
    /\ state' = "Closed"
    /\ UNCHANGED <<sinceOpened, sinceFailure>>

(* Faulty: one failure too many. *)
TripsLate == state = "HalfOpen" \/ consecutiveFails + 1 > FailureThreshold

Trips == state = "HalfOpen" \/ consecutiveFails + 1 >= FailureThreshold

CountFailure ==
    consecutiveFails' = IF consecutiveFails < FailureThreshold
                        THEN consecutiveFails + 1 ELSE consecutiveFails

(* Faulty: the time of opening is kept if the breaker is open already. *)
FailureKeepsOpenedAt(c) ==
    /\ Returns(c)
    /\ CountFailure
    /\ sinceFailure' = 0
    /\ \/ /\ Trips
          /\ state' = "Open"
          /\ sinceOpened' = IF state = "Open" THEN sinceOpened ELSE 0
       \/ /\ ~Trips
          /\ UNCHANGED <<state, sinceOpened>>

Failure(c) ==
    /\ Returns(c)
    /\ CountFailure
    /\ sinceFailure' = 0
    /\ \/ /\ Trips
          /\ state' = "Open" /\ sinceOpened' = 0
       \/ /\ ~Trips
          /\ UNCHANGED <<state, sinceOpened>>

(* The clock (external).  Times beyond ResetTimeout need not be told apart. *)
Later(t) == IF t < ResetTimeout THEN t + 1 ELSE t

Tick ==
    /\ sinceOpened < ResetTimeout \/ sinceFailure < ResetTimeout
    /\ sinceOpened' = Later(sinceOpened)
    /\ sinceFailure' = Later(sinceFailure)
    /\ UNCHANGED <<state, consecutiveFails, call>>

-----------------------------------------------------------------------------
CallNext(c) == AllowProbe(c) \/ AllowCall(c) \/ Success(c) \/ Failure(c)

Next == Tick \/ \E c \in Calls : CallNext(c)

Spec == Init /\ [][Next]_vars

(***************************************************************************)
(* Fairness: time passes, requests for the shard keep arriving, and every  *)
(* request that was allowed returns (its context ends after 30 s).  The    *)
(* secondary of a dual write acquires with context.Background: it need not *)
(* ever return.  Nothing is assumed of outcomes.                           *)
(***************************************************************************)
Arrives(c) == AllowProbe(c) \/ AllowCall(c)

Completes(c) == Success(c) \/ Failure(c)

Fairness ==
    /\ WF_vars(Tick)
    /\ \A c \in Calls \ Detached : WF_vars(Arrives(c)) /\ WF_vars(Completes(c))

FairSpec == Spec /\ Fairness

-----------------------------------------------------------------------------
(* Properties. *)

(* Type correctness of the breaker and its calls. *)
TypeOK ==
    /\ state \in {"Closed", "Open", "HalfOpen"}
    /\ consecutiveFails \in 0 .. FailureThreshold
    /\ sinceOpened \in 0 .. ResetTimeout
    /\ call \in [Calls -> {"idle", "inFlight"}]
    /\ sinceFailure \in 0 .. ResetTimeout

(***************************************************************************)
(* The breaker is closed exactly while fewer than FailureThreshold calls   *)
(* failed in a row, however outcomes of overlapping calls interleave: only *)
(* enough failures open it, and once they did only a success closes it.    *)
(***************************************************************************)
ClosedIffBelowThreshold == state = "Closed" <=> consecutiveFails < FailureThreshold

(***************************************************************************)
(* A failing shard is left alone: after FailureThreshold failures in a row *)
(* no call is let through until a full ResetTimeout has passed since the   *)
(* last failure anyone reported, a call that was allowed before the trip   *)
(* and failed long after it included.                                      *)
(***************************************************************************)
CooldownHonoured ==
    [][\A c \in Calls : call[c] = "idle" /\ call'[c] = "inFlight"
                           => \/ consecutiveFails < FailureThreshold
                              \/ sinceFailure >= ResetTimeout]_vars

(***************************************************************************)
(* A shard that recovers is used again: if from some point on no call      *)
(* fails, the breaker ends up closed for good, even if the call that was   *)
(* let through as a probe is a dual write that hangs forever.              *)
(***************************************************************************)
Recovers == <>[][\A c \in Calls : ~Failure(c)]_vars => <>[](state = "Closed")
=============================================================================
