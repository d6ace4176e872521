------------------------ MODULE CircuitBreakerProofs ------------------------
(***************************************************************************)
(* Safety of the circuit breaker for every number of callers and every     *)
(* setting of the thresholds.                                              *)
(***************************************************************************)
EXTENDS CircuitBreaker, TLAPS

\* What every state of the breaker satisfies.
Sound(b) ==
    /\ b \in Breakers
    /\ b.state = "closed" => b.failures < FailureThreshold
    /\ b.state = "half_open" => b.successes < SuccessThreshold
    /\ b.state = "open" => b.timer # "none"

IInv == TypeOK /\ Sound(cb)

LEMMA InitIInv == Init => IInv
  BY ThresholdAssumption DEF Init, IInv, TypeOK, Sound, Breakers, Breaker

\* A saturating counter stays within its bound.
LEMMA CountUpToType ==
    ASSUME NEW bound \in Nat, NEW n \in 0..bound
    PROVE  CountUpTo(bound, n) \in 0..bound
  BY DEF CountUpTo

\* The transitions and the two record functions keep a breaker sound, so that
\* their composition in SucceedWithList does too.
LEMMA ClosedSound == ASSUME NEW b \in Breakers PROVE Sound(Closed(b))
  BY ThresholdAssumption DEF Sound, Breakers, Closed, Breaker

LEMMA OpenedSound == ASSUME NEW b \in Breakers PROVE Sound(Opened(b))
  BY ThresholdAssumption DEF Sound, Breakers, Opened, Breaker

LEMMA HalfOpenedSound == ASSUME NEW b \in Breakers PROVE Sound(HalfOpened(b))
  BY ThresholdAssumption DEF Sound, Breakers, HalfOpened, Breaker

LEMMA OnSuccessSound == ASSUME NEW b, Sound(b) PROVE Sound(OnSuccess(b))
  <1>1. CASE b.state # "half_open"
    BY <1>1, ThresholdAssumption DEF OnSuccess, Sound, Breakers, Breaker
  <1>2. CASE b.state = "half_open" /\ b.successes + 1 >= SuccessThreshold
    BY <1>2, ClosedSound DEF OnSuccess, Sound
  <1>3. CASE b.state = "half_open" /\ ~(b.successes + 1 >= SuccessThreshold)
    BY <1>3, ThresholdAssumption DEF OnSuccess, Sound, Breakers, Breaker
  <1> QED
    BY <1>1, <1>2, <1>3

LEMMA OnFailureSound == ASSUME NEW b, Sound(b) PROVE Sound(OnFailure(b))
  <1> DEFINE failures == CountUpTo(FailureThreshold, b.failures)
             failed == Breaker(b.state, failures, b.successes, b.halfOpenCalls, b.timer)
  <1>1. failures \in 0..FailureThreshold
    BY CountUpToType, ThresholdAssumption DEF Sound, Breakers
  <1>2. failed \in Breakers
    BY <1>1 DEF Sound, Breakers, Breaker
  <1>3. CASE (b.state = "closed" /\ failures >= FailureThreshold) \/ b.state = "half_open"
    BY <1>2, <1>3, OpenedSound DEF OnFailure
  <1>4. CASE ~((b.state = "closed" /\ failures >= FailureThreshold) \/ b.state = "half_open")
    BY <1>1, <1>2, <1>4, ThresholdAssumption DEF OnFailure, Sound, Breakers, Breaker
  <1> QED
    BY <1>3, <1>4

-----------------------------------------------------------------------------

\* Every step keeps the breaker sound.
LEMMA NextSound == IInv /\ [Next]_vars => Sound(cb')
  <1> SUFFICES ASSUME IInv, [Next]_vars PROVE Sound(cb')
    OBVIOUS
  <1>0. cb \in Breakers /\ Sound(cb)
    BY DEF IInv, TypeOK
  <1>1. ASSUME NEW c \in Callers, CanCall(c) PROVE Sound(cb')
    BY <1>0, <1>1, HalfOpenedSound DEF CanCall
  <1>2. ASSUME NEW c \in Callers, End(c) PROVE Sound(cb')
    BY <1>0, <1>2, OnSuccessSound, OnFailureSound DEF End, Succeed, SucceedWithList, Fail
  <1>3. ASSUME NEW c \in Callers, Drop(c) PROVE Sound(cb')
    BY <1>0, <1>3 DEF Drop
  <1>4. CASE Reset
    BY <1>0, <1>4, ClosedSound DEF Reset
  <1>5. CASE TimeoutPasses
    BY <1>0, <1>5 DEF TimeoutPasses, Sound, Breakers, Breaker
  <1>6. CASE ServiceChanges \/ UNCHANGED vars
    BY <1>0, <1>6 DEF ServiceChanges, vars
  <1> QED
    BY <1>1, <1>2, <1>3, <1>4, <1>5, <1>6 DEF Next

LEMMA NextIInv == IInv /\ [Next]_vars => IInv'
  <1> SUFFICES ASSUME IInv, [Next]_vars PROVE IInv'
    OBVIOUS
  <1>0. Sound(cb') /\ cb' \in Breakers
    BY NextSound DEF Sound
  <1> USE ThresholdAssumption, CountUpToType DEF IInv, TypeOK
  <1>1. ASSUME NEW c \in Callers, CanCall(c) PROVE TypeOK'
    BY <1>0, <1>1 DEF CanCall
  <1>2. ASSUME NEW c \in Callers, Succeed(c) \/ SucceedWithList(c) PROVE TypeOK'
    BY <1>0, <1>2 DEF Succeed, SucceedWithList, Return
  <1>3. ASSUME NEW c \in Callers, Fail(c) \/ Drop(c) PROVE TypeOK'
    <2>1. CASE Fail(c)
      BY <1>0, <2>1 DEF Fail, Return
    <2>2. CASE Drop(c)
      BY <1>0, <2>2 DEF Drop, Return
    <2> QED
      BY <1>3, <2>1, <2>2
  <1>4. CASE Reset \/ TimeoutPasses \/ UNCHANGED vars
    BY <1>0, <1>4 DEF Reset, TimeoutPasses, vars
  <1>5. CASE ServiceChanges
    BY <1>0, <1>5 DEF ServiceChanges
  <1>6. TypeOK'
    BY <1>1, <1>2, <1>3, <1>4, <1>5 DEF Next, End, IInv
  <1> QED
    BY <1>0, <1>6

THEOREM Invariance == Spec => []IInv
  BY InitIInv, NextIInv, PTL DEF Spec

\* Type correctness of the breaker and of its environment.
THEOREM TypeCorrect == Spec => []TypeOK
  <1>1. IInv => TypeOK
    BY DEF IInv
  <1> QED
    BY <1>1, Invariance, PTL

\* No interleaving of late results leaves a state with its exit overdue.
THEOREM ExitsInTime == Spec => []NoExitOverdue
  <1>1. IInv => NoExitOverdue
    BY DEF IInv, Sound, NoExitOverdue
  <1> QED
    BY <1>1, Invariance, PTL

\* An open circuit can always expire.
THEOREM OpenExpires == Spec => []OpenCanExpire
  <1>1. IInv => OpenCanExpire
    BY DEF IInv, Sound, OpenCanExpire
  <1> QED
    BY <1>1, Invariance, PTL

\* Nothing passes an open circuit before its timeout.
THEOREM OpenIsShut == Spec => OpenBlocks
  <1> DEFINE Shut == \A c \in Callers : c \notin calling /\ c \in calling'
            => ~(cb.state = "open" /\ cb.timer = "running")
  <1>1. [Next]_vars => [Shut]_vars
    BY DEF Next, CanCall, TimeoutElapsed, End, Succeed, SucceedWithList, Fail, Drop,
           Return, Reset, TimeoutPasses, ServiceChanges, vars
  <1> QED
    BY <1>1, PTL DEF Spec, OpenBlocks
=============================================================================
