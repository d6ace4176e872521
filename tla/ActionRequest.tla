--------------------------- MODULE ActionRequest ----------------------------
(***************************************************************************)
(* Response actions that an agent requests and a person decides:           *)
(* backend/services/action_request_service.py behind the /requests/...     *)
(* endpoints of backend/routes/actions.py.                                 *)
(*                                                                         *)
(* The rows of action_requests live in the database.  Each operation reads *)
(* a row, decides on what it read, and writes later, with an UPDATE that   *)
(* tests nothing: other operations run in between.                         *)
(***************************************************************************)
EXTENDS Naturals, FiniteSets

CONSTANTS
    Requests,    \* the rows of action_requests
    Analysts,    \* concurrent callers; each has one call in flight
    NoRequest,
    Unattended,  \* requests whose action type needs no approval
    Reversible,  \* requests whose action type is reversible
    MaxFaults    \* bound on exceptions and process crashes

ASSUME RequestAssumption ==
    /\ NoRequest \notin Requests
    /\ Unattended \subseteq Requests
    /\ Reversible \subseteq Requests
    /\ MaxFaults \in Nat

VARIABLES
    status,      \* action_requests.status
    overdue,     \* expires_at has passed
    rolledBack,  \* rolled_back_at is set
    reverses,    \* the request that a rollback request reverses
    op,          \* the calls in flight
    faults,
    approved,    \* history: requests some analyst approved
    effects,     \* history: integration calls made for a request, saturating at 2
    crossed      \* history: requests on which two calls have overlapped

vars == <<status, overdue, rolledBack, reverses, op, faults, approved, effects, crossed>>
rows == <<status, overdue, rolledBack, reverses>>
history == <<approved, effects, crossed>>

Outcomes == {"completed", "failed"}
Points == {"idle", "expiring", "approving", "denying", "toExecute", "starting",
           "calling", "recording", "excepting", "reversing", "marking"}
Rollback == {"reversing", "marking"}

TypeOK ==
    /\ status \in [Requests -> {"absent", "pending", "approved", "denied", "expired",
                                "executing"} \cup Outcomes]
    /\ overdue \in [Requests -> BOOLEAN]
    /\ rolledBack \in [Requests -> BOOLEAN]
    /\ reverses \in [Requests -> Requests \cup {NoRequest}]
    /\ op \in [Analysts -> [pc : Points, req : Requests \cup {NoRequest}, outcome : Outcomes]]
    /\ faults \in 0..MaxFaults
    /\ approved \in SUBSET Requests
    /\ effects \in [Requests -> 0..2]
    /\ crossed \in SUBSET Requests

Idle == [pc |-> "idle", req |-> NoRequest, outcome |-> "failed"]
Call(point, r, result) == [pc |-> point, req |-> r, outcome |-> result]

Init ==
    /\ status = [r \in Requests |-> "absent"]
    /\ overdue = [r \in Requests |-> FALSE]
    /\ rolledBack = [r \in Requests |-> FALSE]
    /\ reverses = [r \in Requests |-> NoRequest]
    /\ op = [p \in Analysts |-> Idle]
    /\ faults = 0
    /\ approved = {}
    /\ effects = [r \in Requests |-> 0]
    /\ crossed = {}

Sets(r, s) == status' = [status EXCEPT ![r] = s]
At(p, point) == op[p].pc = point
Goes(p, point) == op' = [op EXCEPT ![p] = Call(point, op[p].req, op[p].outcome)]
Begins(p, point, r) == At(p, "idle") /\ op' = [op EXCEPT ![p] = Call(point, r, "failed")]
Ends(p) == op' = [op EXCEPT ![p] = Idle]

\* A call that may write the request's status is in flight; another one begins.
Handles(p, r) == op[p].pc \notin Rollback \cup {"idle"} /\ op[p].req = r
Handled(r) == \E p \in Analysts : Handles(p, r)
Decides(p, point, r) ==
    /\ Begins(p, point, r)
    /\ crossed' = IF Handled(r) THEN crossed \cup {r} ELSE crossed

-----------------------------------------------------------------------------
(* create_action_request, and the clock *)

CreateActionRequest(r) ==
    /\ status[r] = "absent"
    /\ Sets(r, "pending")
    /\ UNCHANGED <<overdue, rolledBack, reverses, op, faults, history>>

BecomeOverdue(r) ==
    /\ status[r] # "absent" /\ ~overdue[r]
    /\ overdue' = [overdue EXCEPT ![r] = TRUE]
    /\ UNCHANGED <<status, rolledBack, reverses, op, faults, history>>

-----------------------------------------------------------------------------
(* approve_action *)

ApproveRead(p, r) ==
    /\ status[r] = "pending"
    /\ Decides(p, IF overdue[r] THEN "expiring" ELSE "approving", r)
    /\ UNCHANGED <<rows, faults, approved, effects>>

ExpireInstead(p) ==
    /\ At(p, "expiring")
    /\ Sets(op[p].req, "expired")
    /\ Ends(p)
    /\ UNCHANGED <<overdue, rolledBack, reverses, faults, history>>

\* execute_immediately is the caller's.
ApproveWrite(p) ==
    /\ At(p, "approving")
    /\ Sets(op[p].req, "approved")
    /\ approved' = approved \cup {op[p].req}
    /\ Goes(p, "toExecute") \/ Ends(p)
    /\ UNCHANGED <<overdue, rolledBack, reverses, faults, effects, crossed>>

-----------------------------------------------------------------------------
(* deny_action: an overdue request can be denied *)

DenyRead(p, r) ==
    /\ status[r] = "pending"
    /\ Decides(p, "denying", r)
    /\ UNCHANGED <<rows, faults, approved, effects>>

DenyWrite(p) ==
    /\ At(p, "denying")
    /\ Sets(op[p].req, "denied")
    /\ Ends(p)
    /\ UNCHANGED <<overdue, rolledBack, reverses, faults, history>>

-----------------------------------------------------------------------------
(* execute_action, from approve_action or from its own endpoint *)

ExecuteCall(p, r) ==
    /\ status[r] # "absent"
    /\ Decides(p, "toExecute", r)
    /\ UNCHANGED <<rows, faults, approved, effects>>

\* Mutant: the test for requires_approval is forgotten.
MayExecuteUnapproved(r) == status[r] \in {"approved", "pending"}

\* Mutant: a request left `executing' by a dead call may be started again.
MayExecuteAgain(r) ==
    status[r] \in {"approved", "executing"} \/ (status[r] = "pending" /\ r \in Unattended)

MayExecute(r) == status[r] = "approved" \/ (status[r] = "pending" /\ r \in Unattended)

ExecuteRead(p) ==
    /\ At(p, "toExecute")
    /\ IF MayExecute(op[p].req) THEN Goes(p, "starting") ELSE Ends(p)
    /\ UNCHANGED <<rows, faults, history>>

ExecuteStart(p) ==
    /\ At(p, "starting")
    /\ Sets(op[p].req, "executing")
    /\ Goes(p, "calling")
    /\ UNCHANGED <<overdue, rolledBack, reverses, faults, history>>

\* The integration does, or half does, what it was asked.
ExecuteViaIntegration(p) ==
    /\ At(p, "calling")
    /\ effects' = [effects EXCEPT ![op[p].req] = IF @ < 2 THEN @ + 1 ELSE 2]
    /\ \E result \in Outcomes : op' = [op EXCEPT ![p] = Call("recording", op[p].req, result)]
    /\ UNCHANGED <<rows, faults, approved, crossed>>

\* Mutant: a failed call leaves the status alone.
RecordSuccess(p) ==
    /\ At(p, "recording")
    /\ IF op[p].outcome = "completed" THEN Sets(op[p].req, "completed") ELSE UNCHANGED status
    /\ Ends(p)
    /\ UNCHANGED <<overdue, rolledBack, reverses, faults, history>>

\* Mutant: the status of the sister service, which this table refuses.
RecordAsExecuted(p) ==
    /\ At(p, "recording")
    /\ Sets(op[p].req, IF op[p].outcome = "completed" THEN "executed" ELSE "failed")
    /\ Ends(p)
    /\ UNCHANGED <<overdue, rolledBack, reverses, faults, history>>

RecordOutcome(p) ==
    /\ At(p, "recording")
    /\ Sets(op[p].req, op[p].outcome)
    /\ Ends(p)
    /\ UNCHANGED <<overdue, rolledBack, reverses, faults, history>>

\* Any statement of execute_action raises, its first SELECT and the call of the
\* integration included...
ExecuteRaises(p) ==
    /\ op[p].pc \in {"toExecute", "starting", "calling", "recording"}
    /\ faults < MaxFaults
    /\ faults' = faults + 1
    /\ Goes(p, "excepting")
    /\ UNCHANGED <<rows, history>>

\* Mutant: the failed request is put back in the queue.
FailedStatusRequeues == "pending"
FailedStatus == "failed"

\* ... and the row is marked failed, whatever it holds.
ExecuteExcept(p) ==
    /\ At(p, "excepting")
    /\ Sets(op[p].req, FailedStatus)
    /\ Ends(p)
    /\ UNCHANGED <<overdue, rolledBack, reverses, faults, history>>

-----------------------------------------------------------------------------
(* expire_old_requests: one guarded statement, of a call like the others *)

ExpireOldRequests(p) ==
    LET old == {r \in Requests : status[r] = "pending" /\ overdue[r]}
    IN  /\ At(p, "idle") /\ old # {}
        /\ status' = [r \in Requests |-> IF r \in old THEN "expired" ELSE status[r]]
        /\ crossed' = crossed \cup {r \in old : Handled(r)}
        /\ UNCHANGED <<overdue, rolledBack, reverses, op, faults, approved, effects>>

-----------------------------------------------------------------------------
(* rollback_action *)

\* Mutant: any request that has ended can be rolled back.
MayRollBackEnded(r) ==
    status[r] \in {"completed", "denied"} /\ r \in Reversible /\ ~rolledBack[r]

MayRollBack(r) == status[r] = "completed" /\ r \in Reversible /\ ~rolledBack[r]

RollbackRead(p, r) ==
    /\ MayRollBack(r)
    /\ Begins(p, "reversing", r)
    /\ UNCHANGED <<rows, faults, history>>

\* The reverse action is a request like any other, pending.
RollbackCreate(p, r) ==
    /\ At(p, "reversing")
    /\ status[r] = "absent"
    /\ Sets(r, "pending")
    /\ reverses' = [reverses EXCEPT ![r] = op[p].req]
    /\ Goes(p, "marking")
    /\ UNCHANGED <<overdue, rolledBack, faults, history>>

\* create_action_request refuses it: its type is unknown, or disabled by now.
RollbackRefused(p) ==
    /\ At(p, "reversing")
    /\ Ends(p)
    /\ UNCHANGED <<rows, faults, history>>

RollbackMark(p) ==
    /\ At(p, "marking")
    /\ rolledBack' = [rolledBack EXCEPT ![op[p].req] = TRUE]
    /\ Ends(p)
    /\ UNCHANGED <<status, overdue, reverses, faults, history>>

\* An exception the operation only reports, or the death of its process.
Abandon(p) ==
    /\ ~At(p, "idle")
    /\ faults < MaxFaults
    /\ faults' = faults + 1
    /\ Ends(p)
    /\ UNCHANGED <<rows, history>>

-----------------------------------------------------------------------------

Proceed(p) ==
    \/ ExpireInstead(p) \/ ApproveWrite(p) \/ DenyWrite(p)
    \/ ExecuteRead(p) \/ ExecuteStart(p) \/ ExecuteViaIntegration(p)
    \/ RecordOutcome(p) \/ ExecuteExcept(p)
    \/ RollbackMark(p)

Next ==
    \/ \E r \in Requests : CreateActionRequest(r) \/ BecomeOverdue(r)
    \/ \E p \in Analysts :
         \/ Proceed(p) \/ ExpireOldRequests(p) \/ RollbackRefused(p)
         \/ ExecuteRaises(p) \/ Abandon(p)
         \/ \E r \in Requests :
              \/ ApproveRead(p, r) \/ DenyRead(p, r) \/ ExecuteCall(p, r)
              \/ RollbackRead(p, r) \/ RollbackCreate(p, r)

Spec == Init /\ [][Next]_vars

-----------------------------------------------------------------------------
(* Properties *)

\* The integration is called for a request that needs approval only after some
\* analyst approved it, however approvals, denials, expiry and failures cross.
NothingUnapproved ==
    \A r \in Requests \ Unattended : effects[r] > 0 => r \in approved

\* A rollback request reverses something that was done.
ReversesWhatRan ==
    \A r \in Requests : reverses[r] # NoRequest => effects[reverses[r]] > 0

\* The integration is called at most once for a request, however many calls any
\* callers make of it one after the other, and whichever of them raise or die:
\* it takes two calls that overlap on this very request to run it again.
ExecutedOnce == \A r \in Requests \ crossed : effects[r] <= 1

\* A request that was denied or has expired does not run any more, unless two
\* calls have overlapped on it.
RefusedNeverRuns ==
    [][\A r \in Requests \ crossed :
         status[r] \in {"denied", "expired"}
            => status'[r] \in {"denied", "expired", "failed"}]_vars

\* The same of every request, which calls that overlap break.
NeverTwice == \A r \in Requests : effects[r] <= 1
RefusalsFinal ==
    [][\A r \in Requests :
         status[r] \in {"denied", "expired"}
            => status'[r] \in {"denied", "expired", "failed"}]_vars

InFlight(r) ==
    \E p \in Analysts : op[p].pc \in {"calling", "recording", "excepting"} /\ op[p].req = r

\* Each request left `executing' with no call behind it is accounted for by a
\* fault: crossing calls, which overwrite each other's status, strand nothing.
StuckNeedsFault ==
    Cardinality({r \in Requests : status[r] = "executing" /\ ~InFlight(r)}) <= faults

=============================================================================
