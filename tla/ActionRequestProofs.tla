------------------------- MODULE ActionRequestProofs ------------------------
(***************************************************************************)
(* What ActionRequest keeps for any number of requests, callers and        *)
(* failures, and what it keeps of a request whose calls do not overlap.     *)
(***************************************************************************)
EXTENDS ActionRequest, FiniteSetTheorems, TLAPS

-----------------------------------------------------------------------------
(* Type correctness: a call in flight is about some request *)

Bound == \A p \in Analysts : op[p].pc # "idle" => op[p].req \in Requests

TypeInv == TypeOK /\ Bound

LEMMA InitTypeInv == Init => TypeInv
  BY RequestAssumption DEF Init, TypeInv, TypeOK, Bound, Idle, Points, Outcomes

LEMMA NextTypeInv == TypeInv /\ [Next]_vars => TypeInv'
<1> SUFFICES ASSUME TypeInv, [Next]_vars PROVE TypeInv'
  OBVIOUS
<1> USE RequestAssumption DEF TypeInv, TypeOK, Bound, rows, history, Sets, At, Goes, Begins, Decides, Ends, Idle, Call,
                              Points, Outcomes
<1>1. ASSUME NEW r \in Requests, CreateActionRequest(r) \/ BecomeOverdue(r) PROVE TypeInv'
  BY <1>1 DEF CreateActionRequest, BecomeOverdue
<1>2. ASSUME NEW p \in Analysts, ExpireInstead(p) \/ ApproveWrite(p) \/ DenyWrite(p) PROVE TypeInv'
  <2>1. CASE ExpireInstead(p)
    BY <2>1 DEF ExpireInstead
  <2>2. CASE ApproveWrite(p)
    <3>1. approved' \in SUBSET Requests /\ UNCHANGED <<effects, crossed, faults>>
      BY <2>2 DEF ApproveWrite
    <3>2. status' \in [Requests -> {"absent", "pending", "approved", "denied", "expired",
                                    "executing"} \cup Outcomes]
      BY <2>2 DEF ApproveWrite
    <3>3. op' \in [Analysts -> [pc : Points, req : Requests \cup {NoRequest}, outcome : Outcomes]]
      BY <2>2 DEF ApproveWrite
    <3>4. Bound'
      BY <2>2 DEF ApproveWrite
    <3> QED
      BY <2>2, <3>1, <3>2, <3>3, <3>4 DEF ApproveWrite
  <2>3. CASE DenyWrite(p)
    BY <2>3 DEF DenyWrite
  <2> QED
    BY <1>2, <2>1, <2>2, <2>3
<1>3. ASSUME NEW p \in Analysts, ExecuteRead(p) \/ ExecuteStart(p) PROVE TypeInv'
  BY <1>3 DEF ExecuteRead, ExecuteStart
<1>4. ASSUME NEW p \in Analysts, ExecuteViaIntegration(p) PROVE TypeInv'
  <2>1. \A n \in 0..2 : (IF n < 2 THEN n + 1 ELSE 2) \in 0..2
    OBVIOUS
  <2>2. effects' \in [Requests -> 0..2]
    BY <1>4, <2>1 DEF ExecuteViaIntegration
  <2> QED
    BY <1>4, <2>2 DEF ExecuteViaIntegration
<1>5. ASSUME NEW p \in Analysts, RecordOutcome(p) \/ ExecuteExcept(p) PROVE TypeInv'
  <2>1. op[p].outcome \in Outcomes
    OBVIOUS
  <2>2. CASE RecordOutcome(p)
    BY <2>1, <2>2 DEF RecordOutcome
  <2>3. CASE ExecuteExcept(p)
    BY <2>3 DEF ExecuteExcept, FailedStatus
  <2> QED
    BY <1>5, <2>2, <2>3
<1>6. ASSUME NEW p \in Analysts, RollbackMark(p) \/ ExpireOldRequests(p) PROVE TypeInv'
  <2>1. CASE RollbackMark(p)
    BY <2>1 DEF RollbackMark
  <2>2. CASE ExpireOldRequests(p)
    BY <2>2 DEF ExpireOldRequests
  <2> QED
    BY <1>6, <2>1, <2>2
<1>7. ASSUME NEW p \in Analysts, RollbackRefused(p) \/ ExecuteRaises(p) \/ Abandon(p) PROVE TypeInv'
  BY <1>7 DEF RollbackRefused, ExecuteRaises, Abandon
<1>8. ASSUME NEW p \in Analysts, NEW r \in Requests,
             ApproveRead(p, r) \/ DenyRead(p, r) \/ ExecuteCall(p, r) \/ RollbackRead(p, r)
      PROVE  TypeInv'
  BY <1>8 DEF ApproveRead, DenyRead, ExecuteCall, RollbackRead
<1>9. ASSUME NEW p \in Analysts, NEW r \in Requests, RollbackCreate(p, r) PROVE TypeInv'
  BY <1>9 DEF RollbackCreate
<1>10. ASSUME UNCHANGED vars PROVE TypeInv'
  BY <1>10 DEF vars
<1> QED
  BY <1>1, <1>2, <1>3, <1>4, <1>5, <1>6, <1>7, <1>8, <1>9, <1>10 DEF Next, Proceed

\* The rows and the calls in flight stay in their types.
THEOREM TypeCorrect == Spec => []TypeOK
<1>1. TypeInv => TypeOK
  BY DEF TypeInv
<1> QED
  BY <1>1, InitTypeInv, NextTypeInv, PTL DEF Spec

-----------------------------------------------------------------------------
(* Approval before execution *)

\* `approved' in the row means that someone approved it, and a call that has
\* passed the test of execute_action is for such a request or an unattended one.
Permitted == Unattended \cup approved

ApprovedRows == \A r \in Requests : status[r] = "approved" => r \in approved

PermittedCalls ==
    \A p \in Analysts : op[p].pc \in {"starting", "calling"} => op[p].req \in Permitted

IInv == ApprovedRows /\ PermittedCalls /\ NothingUnapproved

LEMMA InitIInv == Init => IInv
  BY DEF Init, IInv, ApprovedRows, PermittedCalls, NothingUnapproved, Idle

LEMMA NextIInv == TypeInv /\ IInv /\ [Next]_vars => IInv'
<1> SUFFICES ASSUME TypeInv, IInv, [Next]_vars PROVE IInv'
  OBVIOUS
<1> USE RequestAssumption DEF TypeInv, TypeOK, Bound, rows, history, Sets, At, Goes, Begins, Decides, Ends, Idle, Call,
                              IInv, ApprovedRows, PermittedCalls, Permitted,
                              NothingUnapproved
<1>1. ASSUME NEW r \in Requests, CreateActionRequest(r) \/ BecomeOverdue(r) PROVE IInv'
  BY <1>1 DEF CreateActionRequest, BecomeOverdue
<1>2. ASSUME NEW p \in Analysts, ExpireInstead(p) \/ ApproveWrite(p) \/ DenyWrite(p) PROVE IInv'
  BY <1>2 DEF ExpireInstead, ApproveWrite, DenyWrite
<1>3. ASSUME NEW p \in Analysts, ExecuteRead(p) PROVE IInv'
  BY <1>3 DEF ExecuteRead, MayExecute
<1>4. ASSUME NEW p \in Analysts, ExecuteStart(p) PROVE IInv'
  BY <1>4 DEF ExecuteStart
<1>5. ASSUME NEW p \in Analysts, ExecuteViaIntegration(p) PROVE IInv'
  BY <1>5 DEF ExecuteViaIntegration
<1>6. ASSUME NEW p \in Analysts, RecordOutcome(p) \/ ExecuteExcept(p) PROVE IInv'
  BY <1>6 DEF RecordOutcome, ExecuteExcept, FailedStatus, Outcomes
<1>7. ASSUME NEW p \in Analysts, RollbackMark(p) \/ ExpireOldRequests(p) PROVE IInv'
  <2>1. CASE RollbackMark(p)
    BY <2>1 DEF RollbackMark
  <2>2. CASE ExpireOldRequests(p)
    BY <2>2 DEF ExpireOldRequests
  <2> QED
    BY <1>7, <2>1, <2>2
<1>8. ASSUME NEW p \in Analysts, RollbackRefused(p) \/ ExecuteRaises(p) \/ Abandon(p) PROVE IInv'
  BY <1>8 DEF RollbackRefused, ExecuteRaises, Abandon
<1>9. ASSUME NEW p \in Analysts, NEW r \in Requests,
             ApproveRead(p, r) \/ DenyRead(p, r) \/ ExecuteCall(p, r) \/ RollbackRead(p, r)
      PROVE  IInv'
  BY <1>9 DEF ApproveRead, DenyRead, ExecuteCall, RollbackRead
<1>10. ASSUME NEW p \in Analysts, NEW r \in Requests, RollbackCreate(p, r) PROVE IInv'
  BY <1>10 DEF RollbackCreate
<1>11. ASSUME UNCHANGED vars PROVE IInv'
  BY <1>11 DEF vars
<1> QED
  BY <1>1, <1>2, <1>3, <1>4, <1>5, <1>6, <1>7, <1>8, <1>9, <1>10, <1>11 DEF Next, Proceed

\* No integration is called for a request that needs approval and never got it.
THEOREM ApprovalRequired == Spec => []NothingUnapproved
<1>1. IInv => NothingUnapproved
  BY DEF IInv
<1> QED
  BY <1>1, InitTypeInv, NextTypeInv, InitIInv, NextIInv, PTL DEF Spec

-----------------------------------------------------------------------------
(* Rollback: what is reversed has run *)

\* `completed' is only ever written behind a call of the integration, and a
\* rollback that read it keeps a request on which the call was made.
CompletedRows == \A r \in Requests : status[r] = "completed" => effects[r] > 0

CalledAlready ==
    \A p \in Analysts :
        op[p].pc \in {"recording", "reversing", "marking"} => effects[op[p].req] > 0

RanInv == CompletedRows /\ CalledAlready /\ ReversesWhatRan

LEMMA InitRanInv == Init => RanInv
  BY DEF Init, RanInv, CompletedRows, CalledAlready, ReversesWhatRan, Idle

LEMMA NextRanInv == TypeInv /\ RanInv /\ [Next]_vars => RanInv'
<1> SUFFICES ASSUME TypeInv, RanInv, [Next]_vars PROVE RanInv'
  OBVIOUS
<1> USE RequestAssumption DEF TypeInv, TypeOK, Bound, rows, history, Sets, At, Goes, Begins, Decides, Ends, Idle, Call,
                              RanInv, CompletedRows, CalledAlready, ReversesWhatRan
<1>1. ASSUME NEW r \in Requests, CreateActionRequest(r) \/ BecomeOverdue(r) PROVE RanInv'
  BY <1>1 DEF CreateActionRequest, BecomeOverdue
<1>2. ASSUME NEW p \in Analysts, ExpireInstead(p) \/ ApproveWrite(p) \/ DenyWrite(p) PROVE RanInv'
  BY <1>2 DEF ExpireInstead, ApproveWrite, DenyWrite
<1>3. ASSUME NEW p \in Analysts, ExecuteRead(p) \/ ExecuteStart(p) PROVE RanInv'
  BY <1>3 DEF ExecuteRead, ExecuteStart
<1>4. ASSUME NEW p \in Analysts, ExecuteViaIntegration(p) PROVE RanInv'
  <2>1. \A n \in 0..2 : (IF n < 2 THEN n + 1 ELSE 2) > 0
    OBVIOUS
  <2>2. effects'[op[p].req] > 0
    BY <1>4, <2>1 DEF ExecuteViaIntegration
  <2>3. \A r \in Requests : effects[r] > 0 => effects'[r] > 0
    BY <1>4, <2>2 DEF ExecuteViaIntegration
  <2>4. CalledAlready'
    BY <1>4, <2>2, <2>3 DEF ExecuteViaIntegration
  <2> QED
    BY <1>4, <2>3, <2>4 DEF ExecuteViaIntegration
<1>5. ASSUME NEW p \in Analysts, RecordOutcome(p) \/ ExecuteExcept(p) PROVE RanInv'
  BY <1>5 DEF RecordOutcome, ExecuteExcept, FailedStatus, Outcomes
<1>6. ASSUME NEW p \in Analysts, RollbackMark(p) \/ ExpireOldRequests(p) PROVE RanInv'
  <2>1. CASE RollbackMark(p)
    BY <2>1 DEF RollbackMark
  <2>2. CASE ExpireOldRequests(p)
    BY <2>2 DEF ExpireOldRequests
  <2> QED
    BY <1>6, <2>1, <2>2
<1>7. ASSUME NEW p \in Analysts, RollbackRefused(p) \/ ExecuteRaises(p) \/ Abandon(p) PROVE RanInv'
  BY <1>7 DEF RollbackRefused, ExecuteRaises, Abandon
<1>8. ASSUME NEW p \in Analysts, NEW r \in Requests,
             ApproveRead(p, r) \/ DenyRead(p, r) \/ ExecuteCall(p, r)
      PROVE  RanInv'
  BY <1>8 DEF ApproveRead, DenyRead, ExecuteCall
<1>9. ASSUME NEW p \in Analysts, NEW r \in Requests, RollbackRead(p, r) PROVE RanInv'
  BY <1>9 DEF RollbackRead, MayRollBack
<1>10. ASSUME NEW p \in Analysts, NEW r \in Requests, RollbackCreate(p, r) PROVE RanInv'
  BY <1>10 DEF RollbackCreate
<1>11. ASSUME UNCHANGED vars PROVE RanInv'
  BY <1>11 DEF vars
<1> QED
  BY <1>1, <1>2, <1>3, <1>4, <1>5, <1>6, <1>7, <1>8, <1>9, <1>10, <1>11 DEF Next, Proceed

\* However many callers cross, a rollback request reverses a request for which
\* the integration was called.
THEOREM RollbackOfWhatRan == Spec => []ReversesWhatRan
<1>1. RanInv => ReversesWhatRan
  BY DEF RanInv
<1> QED
  BY <1>1, InitTypeInv, NextTypeInv, InitRanInv, NextRanInv, PTL DEF Spec

-----------------------------------------------------------------------------
(* What is left executing *)

Stuck == {r \in Requests : status[r] = "executing" /\ ~InFlight(r)}

\* Requests may be infinite; finitely many of them are stuck at any time.
StuckInv == IsFiniteSet(Stuck) /\ StuckNeedsFault

\* A step leaves at most one more request stuck, and only a fault does.
LEMMA StuckStep ==
  ASSUME TypeInv, [Next]_vars
  PROVE  \/ Stuck' \subseteq Stuck
         \/ /\ faults' = faults + 1
            /\ \E r \in Requests : Stuck' \subseteq Stuck \cup {r}
<1> DEFINE Steady == Stuck' \subseteq Stuck
<1> USE RequestAssumption DEF TypeInv, TypeOK, Bound, rows, history, Sets, At, Goes, Begins, Decides, Ends, Idle, Call,
                              Stuck, InFlight
<1>1. ASSUME NEW r \in Requests, CreateActionRequest(r) \/ BecomeOverdue(r) PROVE Steady
  BY <1>1 DEF CreateActionRequest, BecomeOverdue
<1>2. ASSUME NEW p \in Analysts, ExpireInstead(p) \/ ApproveWrite(p) \/ DenyWrite(p) PROVE Steady
  BY <1>2 DEF ExpireInstead, ApproveWrite, DenyWrite
<1>3. ASSUME NEW p \in Analysts, ExecuteRead(p) \/ ExecuteStart(p) PROVE Steady
  BY <1>3 DEF ExecuteRead, ExecuteStart
<1>4. ASSUME NEW p \in Analysts, ExecuteViaIntegration(p) PROVE Steady
  BY <1>4 DEF ExecuteViaIntegration
<1>5. ASSUME NEW p \in Analysts, RecordOutcome(p) \/ ExecuteExcept(p) PROVE Steady
  BY <1>5 DEF RecordOutcome, ExecuteExcept, FailedStatus, Outcomes
<1>6. ASSUME NEW p \in Analysts, RollbackMark(p) \/ ExpireOldRequests(p) PROVE Steady
  <2>1. CASE RollbackMark(p)
    BY <2>1 DEF RollbackMark
  <2>2. CASE ExpireOldRequests(p)
    BY <2>2 DEF ExpireOldRequests
  <2> QED
    BY <1>6, <2>1, <2>2
<1>7. ASSUME NEW p \in Analysts, RollbackRefused(p) \/ ExecuteRaises(p) PROVE Steady
  BY <1>7 DEF RollbackRefused, ExecuteRaises
<1>8. ASSUME NEW p \in Analysts, NEW r \in Requests,
             \/ ApproveRead(p, r) \/ DenyRead(p, r) \/ ExecuteCall(p, r)
             \/ RollbackRead(p, r) \/ RollbackCreate(p, r)
      PROVE  Steady
  BY <1>8 DEF ApproveRead, DenyRead, ExecuteCall, RollbackRead, RollbackCreate
<1>9. ASSUME UNCHANGED vars PROVE Steady
  BY <1>9 DEF vars
<1>10. ASSUME NEW p \in Analysts, Abandon(p)
       PROVE  faults' = faults + 1 /\ op[p].req \in Requests /\ Stuck' \subseteq Stuck \cup {op[p].req}
  BY <1>10 DEF Abandon
<1> HIDE DEF Stuck
<1> QED
  BY <1>1, <1>2, <1>3, <1>4, <1>5, <1>6, <1>7, <1>8, <1>9, <1>10 DEF Next, Proceed

\* Faults are only counted up.
LEMMA FaultsGrow == ASSUME TypeInv, [Next]_vars PROVE faults' >= faults
  BY RequestAssumption DEF TypeInv, TypeOK, Next, Proceed, vars, CreateActionRequest, BecomeOverdue,
     ExpireInstead, ApproveWrite, DenyWrite, ExecuteRead, ExecuteStart, ExecuteViaIntegration,
     RecordOutcome, ExecuteExcept, RollbackMark, ExpireOldRequests, RollbackRefused, ExecuteRaises,
     Abandon, ApproveRead, DenyRead, ExecuteCall, RollbackRead, RollbackCreate

LEMMA InitStuckInv == Init => StuckInv
<1> SUFFICES ASSUME Init PROVE StuckInv
  OBVIOUS
<1>1. Stuck = {}
  BY DEF Init, Stuck
<1> QED
  BY <1>1, FS_EmptySet DEF StuckInv, StuckNeedsFault, Stuck, Init

LEMMA NextStuckInv == TypeInv /\ StuckInv /\ [Next]_vars => StuckInv'
<1> SUFFICES ASSUME TypeInv, StuckInv, [Next]_vars PROVE StuckInv'
  OBVIOUS
<1> DEFINE n == Cardinality(Stuck)
<1>1. IsFiniteSet(Stuck) /\ n \in Nat /\ n <= faults
  BY FS_CardinalityType DEF StuckInv, StuckNeedsFault, Stuck
<1>2. faults \in Nat /\ faults' \in Nat /\ faults' >= faults
  BY FaultsGrow, NextTypeInv, RequestAssumption DEF TypeInv, TypeOK
<1>3. IsFiniteSet(Stuck') /\ Cardinality(Stuck') <= faults'
  <2>1. CASE Stuck' \subseteq Stuck
    <3>1. IsFiniteSet(Stuck') /\ Cardinality(Stuck') <= n
      BY <1>1, <2>1, FS_Subset
    <3>2. Cardinality(Stuck') \in Nat
      BY <3>1, FS_CardinalityType
    <3> QED
      BY <1>1, <1>2, <3>1, <3>2
  <2>2. ASSUME NEW r \in Requests, Stuck' \subseteq Stuck \cup {r}, faults' = faults + 1
        PROVE  IsFiniteSet(Stuck') /\ Cardinality(Stuck') <= faults'
    <3>1. IsFiniteSet(Stuck \cup {r}) /\ Cardinality(Stuck \cup {r}) <= n + 1
      BY <1>1, FS_AddElement
    <3>2. IsFiniteSet(Stuck') /\ Cardinality(Stuck') <= Cardinality(Stuck \cup {r})
      BY <2>2, <3>1, FS_Subset
    <3>3. Cardinality(Stuck') \in Nat /\ Cardinality(Stuck \cup {r}) \in Nat
      BY <3>1, <3>2, FS_CardinalityType
    <3> QED
      BY <1>1, <1>2, <2>2, <3>1, <3>2, <3>3
  <2> QED
    BY <2>1, <2>2, StuckStep
<1> QED
  BY <1>3 DEF StuckInv, StuckNeedsFault, Stuck, InFlight

\* However many callers cross, and overwrite each other's status, the requests
\* left `executing' with no call behind them are at most as many as the faults.
THEOREM FaultPerStuckRequest == Spec => []StuckNeedsFault
<1>1. StuckInv => StuckNeedsFault
  BY DEF StuckInv
<1> QED
  BY <1>1, InitTypeInv, NextTypeInv, InitStuckInv, NextStuckInv, PTL DEF Spec

-----------------------------------------------------------------------------
(* A request whose calls do not overlap: what a read said is still true at the *)
(* write                                                                       *)

\* One call at most is about to write the request's status ...
Alone ==
    \A p, q \in Analysts, r \in Requests \ crossed : Handles(p, r) /\ Handles(q, r) => p = q

\* ... and finds the row as it read it.
FreshReads ==
    \A p \in Analysts :
        op[p].req \in Requests \ crossed =>
            /\ op[p].pc \in {"expiring", "approving", "denying"} => status[op[p].req] = "pending"
            /\ op[p].pc = "starting" => status[op[p].req] \in {"pending", "approved"}
            /\ op[p].pc \in {"calling", "recording"} => status[op[p].req] = "executing"
            /\ op[p].pc = "calling" => effects[op[p].req] = 0

\* What may still be executed has not been.
UntouchedRows ==
    \A r \in Requests \ crossed :
        status[r] \in {"absent", "pending", "approved"} => effects[r] = 0

SoleInv == Alone /\ FreshReads /\ UntouchedRows /\ ExecutedOnce

LEMMA InitSoleInv == Init => SoleInv
  BY DEF Init, SoleInv, Alone, FreshReads, UntouchedRows, ExecutedOnce, Handles, Idle

\* The step lemma, and the same case analysis for RefusedNeverRuns.
RefusedStep ==
    \A r \in Requests \ crossed :
        status[r] \in {"denied", "expired"} => status'[r] \in {"denied", "expired", "failed"}

LEMMA NextSoleInv ==
  ASSUME TypeInv, SoleInv, [Next]_vars
  PROVE  SoleInv' /\ RefusedStep
<1> USE RequestAssumption DEF TypeInv, TypeOK, Bound, rows, history, Sets, At, Goes, Begins, Ends, Idle, Call,
                              Rollback, Handles, SoleInv, Alone, FreshReads, UntouchedRows, ExecutedOnce,
                              RefusedStep
<1>1. ASSUME NEW r \in Requests, CreateActionRequest(r) \/ BecomeOverdue(r)
      PROVE  SoleInv' /\ RefusedStep
  BY <1>1 DEF CreateActionRequest, BecomeOverdue
<1>2. ASSUME NEW p \in Analysts, ExpireInstead(p) \/ ApproveWrite(p) \/ DenyWrite(p)
      PROVE  SoleInv' /\ RefusedStep
  <2>1. CASE ExpireInstead(p)
    <3>1. \A q \in Analysts, s \in Requests : Handles(q, s)' => Handles(q, s)
      BY <2>1 DEF ExpireInstead
    <3>2. Alone'
      BY <2>1, <3>1 DEF ExpireInstead
    <3>3. FreshReads'
      BY <2>1 DEF ExpireInstead
    <3>4. UntouchedRows' /\ ExecutedOnce' /\ RefusedStep
      BY <2>1 DEF ExpireInstead
    <3> QED
      BY <3>2, <3>3, <3>4
  <2>2. CASE ApproveWrite(p)
    <3>1. \A q \in Analysts, s \in Requests : Handles(q, s)' => Handles(q, s)
      BY <2>2 DEF ApproveWrite
    <3>2. Alone'
      BY <2>2, <3>1 DEF ApproveWrite
    <3>3. FreshReads'
      BY <2>2 DEF ApproveWrite
    <3>4. UntouchedRows' /\ ExecutedOnce' /\ RefusedStep
      BY <2>2 DEF ApproveWrite
    <3> QED
      BY <3>2, <3>3, <3>4
  <2>3. CASE DenyWrite(p)
    <3>1. \A q \in Analysts, s \in Requests : Handles(q, s)' => Handles(q, s)
      BY <2>3 DEF DenyWrite
    <3>2. Alone'
      BY <2>3, <3>1 DEF DenyWrite
    <3>3. FreshReads'
      BY <2>3 DEF DenyWrite
    <3>4. UntouchedRows' /\ ExecutedOnce' /\ RefusedStep
      BY <2>3 DEF DenyWrite
    <3> QED
      BY <3>2, <3>3, <3>4
  <2> QED
    BY <1>2, <2>1, <2>2, <2>3
<1>3. ASSUME NEW p \in Analysts, ExecuteRead(p) PROVE SoleInv' /\ RefusedStep
  BY <1>3 DEF ExecuteRead, MayExecute
<1>4. ASSUME NEW p \in Analysts, ExecuteStart(p) PROVE SoleInv' /\ RefusedStep
  BY <1>4 DEF ExecuteStart
<1>5. ASSUME NEW p \in Analysts, ExecuteViaIntegration(p) PROVE SoleInv' /\ RefusedStep
  BY <1>5 DEF ExecuteViaIntegration
<1>6. ASSUME NEW p \in Analysts, RecordOutcome(p) \/ ExecuteExcept(p)
      PROVE  SoleInv' /\ RefusedStep
  <2>1. CASE RecordOutcome(p)
    BY <2>1 DEF RecordOutcome, Outcomes
  <2>2. CASE ExecuteExcept(p)
    BY <2>2 DEF ExecuteExcept, FailedStatus
  <2> QED
    BY <1>6, <2>1, <2>2
<1>7. ASSUME NEW p \in Analysts, RollbackMark(p) \/ ExpireOldRequests(p)
      PROVE  SoleInv' /\ RefusedStep
  <2>1. CASE RollbackMark(p)
    BY <2>1 DEF RollbackMark
  <2>2. CASE ExpireOldRequests(p)
    BY <2>2 DEF ExpireOldRequests, Handled
  <2> QED
    BY <1>7, <2>1, <2>2
<1>8. ASSUME NEW p \in Analysts, RollbackRefused(p) \/ ExecuteRaises(p) \/ Abandon(p)
      PROVE  SoleInv' /\ RefusedStep
  <2>1. CASE RollbackRefused(p)
    BY <2>1 DEF RollbackRefused
  <2>2. CASE ExecuteRaises(p)
    BY <2>2 DEF ExecuteRaises
  <2>3. CASE Abandon(p)
    BY <2>3 DEF Abandon
  <2> QED
    BY <1>8, <2>1, <2>2, <2>3
<1>9. ASSUME NEW p \in Analysts, NEW r \in Requests,
             ApproveRead(p, r) \/ DenyRead(p, r) \/ ExecuteCall(p, r)
      PROVE  SoleInv' /\ RefusedStep
  <2>1. CASE ApproveRead(p, r)
    BY <2>1 DEF ApproveRead, Decides, Handled
  <2>2. CASE DenyRead(p, r)
    BY <2>2 DEF DenyRead, Decides, Handled
  <2>3. CASE ExecuteCall(p, r)
    BY <2>3 DEF ExecuteCall, Decides, Handled
  <2> QED
    BY <1>9, <2>1, <2>2, <2>3
<1>10. ASSUME NEW p \in Analysts, NEW r \in Requests, RollbackRead(p, r) \/ RollbackCreate(p, r)
       PROVE  SoleInv' /\ RefusedStep
  <2>1. CASE RollbackRead(p, r)
    BY <2>1 DEF RollbackRead
  <2>2. CASE RollbackCreate(p, r)
    <3>1. \A q \in Analysts, s \in Requests : Handles(q, s)' => Handles(q, s)
      BY <2>2 DEF RollbackCreate
    <3>2. Alone'
      BY <2>2, <3>1 DEF RollbackCreate
    <3>3. FreshReads'
      BY <2>2 DEF RollbackCreate
    <3>4. UntouchedRows' /\ ExecutedOnce' /\ RefusedStep
      BY <2>2 DEF RollbackCreate
    <3> QED
      BY <3>2, <3>3, <3>4
  <2> QED
    BY <1>10, <2>1, <2>2
<1>11. ASSUME UNCHANGED vars PROVE SoleInv' /\ RefusedStep
  BY <1>11 DEF vars
<1> QED
  BY <1>1, <1>2, <1>3, <1>4, <1>5, <1>6, <1>7, <1>8, <1>9, <1>10, <1>11 DEF Next, Proceed

\* Of any number of callers, whatever fails and dies, it takes two whose calls
\* overlap on a request to call the integration for it a second time.
THEOREM AtMostOnce == Spec => []ExecutedOnce
<1>1. TypeInv /\ SoleInv /\ [Next]_vars => SoleInv'
  BY NextSoleInv
<1>2. SoleInv => ExecutedOnce
  BY DEF SoleInv
<1> QED
  BY <1>1, <1>2, InitTypeInv, NextTypeInv, InitSoleInv, PTL DEF Spec

\* Of any number of callers, it takes two whose calls overlap on a request, or
\* the expiry of a row that a call has read, to take back a refusal.
THEOREM RefusalStands == Spec => RefusedNeverRuns
<1>1. TypeInv /\ SoleInv /\ [Next]_vars => SoleInv' /\ RefusedStep
  BY NextSoleInv
<1>2. RefusedStep => [RefusedStep]_vars
  OBVIOUS
<1>3. Spec => [][RefusedStep]_vars
  BY <1>1, InitTypeInv, NextTypeInv, InitSoleInv, PTL DEF Spec
<1> QED
  BY <1>3 DEF RefusedNeverRuns, RefusedStep

=============================================================================
