--------------------------- MODULE BreakerProofs ----------------------------
(***************************************************************************)
(* What holds of the circuit breaker for any number of overlapping calls,  *)
(* any threshold and any timeout.                                          *)
(***************************************************************************)
EXTENDS Breaker, TLAPS

(***************************************************************************)
(* Outside state Closed the breaker was opened at the last failure, and    *)
(* half-open it is only after a full ResetTimeout without another one.     *)
(***************************************************************************)
OpenedAtLastFailure ==
    /\ state # "Closed" => sinceOpened = sinceFailure
    /\ state = "HalfOpen" => ResetElapsed

(* The inductive invariant. *)
IInv == TypeOK /\ ClosedIffBelowThreshold /\ OpenedAtLastFailure

(* The initial state: no failures, and the threshold is at least one. *)
LEMMA InitEstablishesIInv == Init => IInv
BY BreakerAssumption DEF Init, IInv, TypeOK, ClosedIffBelowThreshold, OpenedAtLastFailure, ResetElapsed

(* Every step of the breaker keeps the types and the equivalence. *)
LEMMA NextPreservesIInv == IInv /\ [Next]_vars => IInv'
<1> SUFFICES ASSUME IInv, [Next]_vars PROVE IInv'
  OBVIOUS
<1> USE BreakerAssumption
    DEF IInv, TypeOK, ClosedIffBelowThreshold, OpenedAtLastFailure, ResetElapsed
<1>1. ASSUME NEW c \in Calls, AllowProbe(c) PROVE IInv'
  BY <1>1 DEF AllowProbe
<1>2. ASSUME NEW c \in Calls, AllowCall(c) PROVE IInv'
  BY <1>2 DEF AllowCall
<1>3. ASSUME NEW c \in Calls, Success(c) PROVE IInv'
  BY <1>3 DEF Success, Returns
<1>4. ASSUME NEW c \in Calls, Failure(c) PROVE IInv'
  BY <1>4 DEF Failure, Returns, CountFailure, Trips
<1>5. ASSUME Tick PROVE IInv'
  BY <1>5 DEF Tick, Later
<1>6. ASSUME UNCHANGED vars PROVE IInv'
  BY <1>6 DEF vars
<1>7. QED
  BY <1>1, <1>2, <1>3, <1>4, <1>5, <1>6 DEF Next, CallNext

(***************************************************************************)
(* The breaker is closed exactly while fewer than FailureThreshold calls   *)
(* in a row have failed, for every interleaving of Allow, Success and      *)
(* Failure of any number of calls.                                         *)
(***************************************************************************)
THEOREM BreakerClosedIffBelowThreshold == Spec => []ClosedIffBelowThreshold
<1>1. IInv => ClosedIffBelowThreshold
  BY DEF IInv
<1>2. QED
  BY <1>1, InitEstablishesIInv, NextPreservesIInv, PTL DEF Spec

(* One step: who lets a call through finds the count low or the time over. *)
LEMMA StepHonoursCooldown ==
    ASSUME IInv, [Next]_vars, NEW c \in Calls, call[c] = "idle", call'[c] = "inFlight"
    PROVE  consecutiveFails < FailureThreshold \/ sinceFailure >= ResetTimeout
<1> USE BreakerAssumption DEF IInv, TypeOK
<1>1. ASSUME NEW d \in Calls, AllowProbe(d)
      PROVE  sinceFailure >= ResetTimeout
  BY <1>1 DEF AllowProbe, OpenedAtLastFailure, ResetElapsed
<1>2. ASSUME NEW d \in Calls, AllowCall(d)
      PROVE  consecutiveFails < FailureThreshold \/ sinceFailure >= ResetTimeout
  BY <1>2 DEF AllowCall, ClosedIffBelowThreshold, OpenedAtLastFailure, ResetElapsed
<1>3. ASSUME NEW d \in Calls, Returns(d) PROVE FALSE
  BY <1>3 DEF Returns
<1>4. call' # call
  OBVIOUS
<1>5. QED
  BY <1>1, <1>2, <1>3, <1>4 DEF Next, CallNext, Success, Failure, Tick, vars

(***************************************************************************)
(* For any number of overlapping calls, no call reaches a shard that has   *)
(* failed FailureThreshold times in a row before a full ResetTimeout has   *)
(* passed since the last failure, whoever reported it and however late.    *)
(***************************************************************************)
THEOREM BreakerHonoursCooldown == Spec => CooldownHonoured
<1>1. IInv /\ [Next]_vars =>
        [\A c \in Calls : call[c] = "idle" /\ call'[c] = "inFlight"
                             => \/ consecutiveFails < FailureThreshold
                                \/ sinceFailure >= ResetTimeout]_vars
  BY StepHonoursCooldown
<1>2. QED
  BY <1>1, InitEstablishesIInv, NextPreservesIInv, PTL DEF Spec, CooldownHonoured
=============================================================================
