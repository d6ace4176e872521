--------------------------- MODULE CircuitBreaker ---------------------------
(***************************************************************************)
(* One CircuitBreaker of backend/integrations/policies/circuit_breaker.py  *)
(* and the concurrent calls that pass through it.  A caller is an          *)
(* IntegrationExecutionEngine.execute (or a function under                 *)
(* with_circuit_breaker): can_call, an await on the external service, then *)
(* record_success or record_failure on whatever state the breaker has      *)
(* reached in the meantime.  The registry keeps one independent breaker    *)
(* per integration.                                                        *)
(*                                                                         *)
(* Time is abstract: `timer' says whether opened_at is unset, within       *)
(* timeout_seconds, or past it.  consecutive_failures saturates at the     *)
(* threshold it is compared with.  failure_count, total_calls and the      *)
(* remaining timestamps are read by get_status alone and are left out.     *)
(***************************************************************************)
EXTENDS Integers, FiniteSets

CONSTANTS
    Callers,            \* the coroutines that call through the breaker
    FailureThreshold,   \* failure_threshold
    SuccessThreshold,   \* success_threshold
    HalfOpenMaxCalls,   \* half_open_max_calls
    MaxDrops            \* bound on calls that end without recording a result

ASSUME ThresholdAssumption ==
    /\ FailureThreshold \in Nat \ {0}
    /\ SuccessThreshold \in Nat \ {0}
    /\ HalfOpenMaxCalls \in Nat \ {0}
    /\ MaxDrops \in Nat

VARIABLES
    cb,           \* CircuitBreakerState
    calling,      \* the callers awaiting the external service
    service,      \* the external service: what it answers now (environment)
    drops         \* how many admitted calls recorded nothing

vars == <<cb, calling, service, drops>>

\* Down, or answering with JSON objects or JSON lists.
Answers == {"down", "objects", "lists"}

Breakers ==
    [ state         : {"closed", "open", "half_open"},
      failures      : 0..FailureThreshold,      \* consecutive_failures
      successes     : 0..SuccessThreshold,      \* success_count
      halfOpenCalls : Nat,                      \* half_open_calls
      timer         : {"none", "running", "elapsed"} ]  \* opened_at

Breaker(st, f, s, h, t) ==
    [state |-> st, failures |-> f, successes |-> s, halfOpenCalls |-> h, timer |-> t]

TypeOK ==
    /\ cb \in Breakers
    /\ calling \subseteq Callers
    /\ service \in Answers
    /\ drops \in 0..MaxDrops

Init ==
    /\ cb = Breaker("closed", 0, 0, 0, "none")
    /\ calling = {}
    /\ service \in Answers
    /\ drops = 0

CountUpTo(bound, n) == IF n < bound THEN n + 1 ELSE bound

-----------------------------------------------------------------------------
(* _transition_to_open, _transition_to_half_open, _transition_to_closed *)

Opened(b) == Breaker("open", b.failures, 0, 0, "running")

\* Mutant: the transition takes the half-open calls, and nothing returns them.
HalfOpenedFull(b) == Breaker("half_open", b.failures, 0, HalfOpenMaxCalls, b.timer)

HalfOpened(b) == Breaker("half_open", b.failures, 0, 0, b.timer)

\* Mutant: consecutive_failures is not reset on closing.
ClosedKeepingFailures(b) == Breaker("closed", b.failures, 0, 0, "none")

Closed(b) == Breaker("closed", 0, 0, 0, "none")

(* record_success, record_failure *)

\* Mutant: the success threshold is never compared.
OnSuccessNeverCloses(b) ==
    Breaker(b.state, 0, IF b.state = "half_open" THEN b.successes + 1 ELSE b.successes,
            b.halfOpenCalls, b.timer)

OnSuccess(b) ==
    IF b.state # "half_open"
    THEN Breaker(b.state, 0, b.successes, b.halfOpenCalls, b.timer)
    ELSE IF b.successes + 1 >= SuccessThreshold
    THEN Closed(b)
    ELSE Breaker(b.state, 0, b.successes + 1, b.halfOpenCalls, b.timer)

\* The monitoring window never resets anything: last_failure_time is set to
\* now just before it is compared with now - monitoring_window_seconds.
OnFailure(b) ==
    LET failures == CountUpTo(FailureThreshold, b.failures)
        failed   == Breaker(b.state, failures, b.successes, b.halfOpenCalls, b.timer)
    IN  IF \/ b.state = "closed" /\ failures >= FailureThreshold
           \/ b.state = "half_open"
        THEN Opened(failed)
        ELSE failed

-----------------------------------------------------------------------------
(* can_call *)

TimeoutElapsed == cb.timer = "elapsed"

\* A call that is let through.  (A refused call changes nothing.)  The breaker
\* only compares half_open_calls with its limit: no code increments it.
CanCall(c) ==
    /\ c \notin calling
    /\ \/ cb.state = "closed" /\ UNCHANGED cb
       \/ cb.state = "open" /\ TimeoutElapsed /\ cb' = HalfOpened(cb)
       \/ /\ cb.state = "half_open" /\ cb.halfOpenCalls < HalfOpenMaxCalls
          /\ UNCHANGED cb
    /\ calling' = calling \cup {c}
    /\ UNCHANGED <<service, drops>>

-----------------------------------------------------------------------------
(* The end of a call *)

Return(c) ==
    /\ c \in calling
    /\ calling' = calling \ {c}
    /\ UNCHANGED service

Succeed(c) ==
    /\ service = "objects"
    /\ Return(c)
    /\ cb' = OnSuccess(cb)
    /\ UNCHANGED drops

\* The reply is a JSON list: execute records the success, then fails to build
\* ExecutionResult(data=<list>), and its except clause records a failure too.
SucceedWithList(c) ==
    /\ service = "lists"
    /\ Return(c)
    /\ cb' = OnFailure(OnSuccess(cb))
    /\ UNCHANGED drops

Fail(c) ==
    /\ service = "down"
    /\ Return(c)
    /\ cb' = OnFailure(cb)
    /\ UNCHANGED drops

\* The rate limiter refuses the call after can_call let it through, or its
\* task is cancelled: no result is recorded.
Drop(c) ==
    /\ Return(c)
    /\ drops < MaxDrops
    /\ drops' = drops + 1
    /\ UNCHANGED cb

\* reset, from the administration API.
Reset ==
    /\ cb' = Closed(cb)
    /\ UNCHANGED <<calling, service, drops>>

-----------------------------------------------------------------------------
(* Time and the external service *)

TimeoutPasses ==
    /\ cb.timer = "running"
    /\ cb' = Breaker(cb.state, cb.failures, cb.successes, cb.halfOpenCalls, "elapsed")
    /\ UNCHANGED <<calling, service, drops>>

ServiceChanges ==
    /\ service' \in Answers \ {service}
    /\ UNCHANGED <<cb, calling, drops>>

End(c) == Succeed(c) \/ SucceedWithList(c) \/ Fail(c)

Next ==
    \/ \E c \in Callers : CanCall(c) \/ End(c) \/ Drop(c)
    \/ Reset \/ TimeoutPasses \/ ServiceChanges

Spec == Init /\ [][Next]_vars

\* Calls keep arriving, each ends (HTTP timeouts), and time passes.
FairSpec ==
    /\ Spec
    /\ WF_vars(TimeoutPasses)
    /\ \A c \in Callers : WF_vars(CanCall(c)) /\ WF_vars(End(c))

-----------------------------------------------------------------------------
(* Properties *)

\* A closed circuit has not yet seen the failures that open it, and a
\* half-open one not yet the successes that close it, whatever results of
\* older calls arrive in between: no state is left with its exit overdue.
NoExitOverdue ==
    /\ cb.state = "closed" => cb.failures < FailureThreshold
    /\ cb.state = "half_open" => cb.successes < SuccessThreshold

\* An open circuit always has an opening time, without which can_call would
\* refuse for ever.
OpenCanExpire == cb.state = "open" => cb.timer # "none"

\* No call passes an open circuit before its timeout.
OpenBlocks ==
    [][\A c \in Callers : c \notin calling /\ c \in calling'
            => ~(cb.state = "open" /\ cb.timer = "running")]_vars

\* Once the service answers with JSON objects and goes on doing so, the circuit
\* closes for good, even if some admitted calls were dropped without a result.
ClosesAfterRecovery == <>[](service = "objects") => <>[](cb.state = "closed")

\* The same of any answer: a healthy integration does not stay open.
HealthyCloses == <>[](service # "down") => <>[](cb.state = "closed")

=============================================================================
