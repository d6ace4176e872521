------------------------- MODULE PlaybookExecution --------------------------
(***************************************************************************)
(* One playbook execution: the graph interpreter _run_execution of         *)
(* backend/services/playbook_engine.py, its start, resume and cancel       *)
(* operations, and the requests of backend/routes/playbooks.py that        *)
(* approve, reject, submit and cancel.                                     *)
(*                                                                         *)
(* A run is one _run_execution task, with its in-memory ExecutionContext;  *)
(* each resume starts another.  `at' counts its branches by node and       *)
(* stage: the code between two awaits is one step, a node's handler takes  *)
(* effect in one step.  The graph has no cycle, no loop node and no two    *)
(* edges between the same nodes in the same direction; the retries of a    *)
(* node are folded into its last outcome.                                  *)
(***************************************************************************)
EXTENDS Integers, FiniteSets

CONSTANTS
    Nodes,        \* the nodes of the canvas
    Start,        \* its trigger node
    Edges,        \* records [src, dst, handle]
    Kind,         \* "step", "condition", "gate", "edl", "form", "delay" or "end"
    ErrorPolicy,  \* "stop", "continue" or "route_to_error"
    Requests,     \* the HTTP requests made about this execution
    MaxCrashes    \* bound on process crashes

Handles == {"default", "yes", "no", "error"}
Runs == 1..(Cardinality(Requests) + 1)
Stages == {"scheduled", "entering", "executing", "pausing"}

ASSUME GraphAssumption ==
    /\ Start \in Nodes
    /\ Edges \subseteq [src : Nodes, dst : Nodes, handle : Handles]
    /\ \A d, e \in Edges : d.src = e.src /\ d.dst = e.dst => d = e
    /\ Kind \in [Nodes -> {"step", "condition", "gate", "edl", "form", "delay", "end"}]
    /\ ErrorPolicy \in [Nodes -> {"stop", "continue", "route_to_error"}]
    /\ MaxCrashes \in Nat

\* A canvas is a list in a JSON document, and requests are counted.
ASSUME FiniteAssumption == IsFiniteSet(Nodes) /\ IsFiniteSet(Requests)

VARIABLES
    \* the row of playbook_executions
    status,
    current,    \* current_node_id
    saved,      \* execution_context: completed_node_ids, approvals among nodes
    approval,   \* status of each node's row of playbook_node_approvals
    \* the _run_execution tasks
    pc,
    at,         \* how many branches of the run are at each node, by stage
    ctx,        \* its ExecutionContext
    failed,     \* some branch has returned an error
    origin,     \* history: where the run began
    ran,        \* history: completed handlers by node, saturating at 2
    \* the requests
    req,
    crashes

row == <<status, current, saved>>
tasks == <<pc, at, ctx, failed, origin, ran>>
vars == <<row, approval, tasks, req, crashes>>

Waiting == {"waiting_approval", "waiting_input", "waiting_delay"}
Contexts == [done : SUBSET Nodes, approved : SUBSET Nodes]
Context(done, approved) == [done |-> done, approved |-> approved]
RequestPoints == {"new", "resuming", "read", "rejecting", "ended"}

\* A request: resume_data["approved"], current_node_id and the context as read.
RequestStates ==
    [pc : RequestPoints, approved : BOOLEAN, node : Nodes, ctx : Contexts]
Request(point, yes, node, context) ==
    [pc |-> point, approved |-> yes, node |-> node, ctx |-> context]

TypeOK ==
    /\ status \in {"none", "running", "completed", "failed", "cancelled"} \cup Waiting
    /\ current \in Nodes
    /\ saved \in Contexts
    /\ approval \in [Nodes -> {"none", "pending", "approved", "rejected"}]
    /\ pc \in [Runs -> {"unused", "active", "finalized", "lost"}]
    /\ at \in [Runs -> [Nodes -> [Stages -> Nat]]]
    /\ ctx \in [Runs -> Contexts]
    /\ failed \in [Runs -> BOOLEAN]
    /\ origin \in [Runs -> SUBSET Nodes]
    /\ ran \in [Runs -> [Nodes -> 0..2]]
    /\ req \in [Requests -> RequestStates]
    /\ crashes \in 0..MaxCrashes

NewContext == Context({}, {})
Nowhere == [n \in Nodes |-> [stage \in Stages |-> 0]]

Init ==
    /\ status = "none"
    /\ current = Start
    /\ saved = NewContext
    /\ approval = [n \in Nodes |-> "none"]
    /\ pc = [r \in Runs |-> "unused"]
    /\ at = [r \in Runs |-> Nowhere]
    /\ ctx = [r \in Runs |-> NewContext]
    /\ failed = [r \in Runs |-> FALSE]
    /\ origin = [r \in Runs |-> {}]
    /\ ran = [r \in Runs |-> [n \in Nodes |-> 0]]
    /\ req = [q \in Requests |-> Request("new", FALSE, Start, NewContext)]
    /\ crashes = 0

-----------------------------------------------------------------------------
(* The graph: _get_next_nodes, _get_error_edge, _get_incoming_node_ids *)

\* Targets of the edges taken when a condition says `branch', or of all but the
\* error edges when there is no branch.
NextNodes(n, branch) ==
    {e.dst : e \in {d \in Edges : /\ d.src = n
                                  /\ d.handle # "error"
                                  /\ branch # "none" => d.handle = branch}}

\* The branch ends at an end node, whatever edges leave it.
Successors(n, branch) == IF Kind[n] = "end" THEN {} ELSE NextNodes(n, branch)

ErrorTargets(n) == {e.dst : e \in {d \in Edges : d.src = n /\ d.handle = "error"}}
Incoming(n) == {e \in Edges : e.dst = n}

\* Mutant: a convergence point runs as soon as one branch has arrived.
MayEnterOnFirst(n, done) ==
    Cardinality(Incoming(n)) > 1 => \E e \in Incoming(n) : e.src \in done

\* The implicit merge check at the top of execute_branch: error edges count.
MayEnter(n, done) ==
    Cardinality(Incoming(n)) > 1 => \A e \in Incoming(n) : e.src \in done

Leaves(counts, n, stage) == [counts EXCEPT ![n][stage] = @ - 1]
Joins(counts, n, stage) == [counts EXCEPT ![n][stage] = @ + 1]

\* A branch that reaches n goes on only past the merge check.
Reach(counts, n, done) == IF MayEnter(n, done) THEN Joins(counts, n, "entering") ELSE counts

\* A single successor is reached at once; several are scheduled as tasks, each
\* of which makes its own merge check when the event loop comes to it.
Schedule(counts, targets) ==
    [n \in Nodes |-> IF n \in targets THEN [counts[n] EXCEPT !["scheduled"] = @ + 1] ELSE counts[n]]

Continue(counts, targets, done) ==
    IF Cardinality(targets) = 1
    THEN Reach(counts, CHOOSE n \in targets : TRUE, done)
    ELSE Schedule(counts, targets)

\* asyncio.create_task(_run_execution(...)), with the lowest unused number.
Spawn(targets, context) ==
    \E r \in Runs :
        /\ pc[r] = "unused" /\ \A k \in 1..(r - 1) : pc[k] # "unused"
        /\ pc' = [pc EXCEPT ![r] = "active"]
        /\ at' = [at EXCEPT ![r] = Schedule(Nowhere, targets)]
        /\ ctx' = [ctx EXCEPT ![r] = context]
        /\ origin' = [origin EXCEPT ![r] = targets]
        /\ UNCHANGED <<failed, ran>>

StartExecution ==
    /\ status = "none"
    /\ status' = "running"
    /\ Spawn({Start}, NewContext)
    /\ UNCHANGED <<current, saved, approval, req, crashes>>

-----------------------------------------------------------------------------
(* execute_branch *)

At(r, n, stage) == pc[r] = "active" /\ at[r][n][stage] > 0

Moves(r, counts) == at' = [at EXCEPT ![r] = counts]

BeginBranch(r, n) ==
    /\ At(r, n, "scheduled")
    /\ Moves(r, Reach(Leaves(at[r], n, "scheduled"), n, ctx[r].done))
    /\ UNCHANGED <<row, approval, pc, ctx, failed, origin, ran, req, crashes>>

\* current_node_id and the context are saved before the node runs.
Enter(r, n) ==
    /\ At(r, n, "entering")
    /\ current' = n
    /\ saved' = ctx[r]
    /\ Moves(r, Joins(Leaves(at[r], n, "entering"), n, "executing"))
    /\ UNCHANGED <<status, approval, pc, ctx, failed, origin, ran, req, crashes>>

\* Node n is complete and the branch goes on to `targets'.
Advance(r, n, targets) ==
    LET done == ctx[r].done \cup {n}
    IN  /\ ctx' = [ctx EXCEPT ![r] = Context(done, ctx[r].approved)]
        /\ Moves(r, Continue(Leaves(at[r], n, "executing"), targets, done))

\* Mutant: the list is changed on the approval recorded in the context alone.
EdlApprovedInContext(r, n) == n \in ctx[r].approved

\* _execute_edl_add reads its approval row again before it changes the list.
EdlApproved(r, n) == approval[n] = "approved"

HandlerSucceeds(r, n) ==
    /\ At(r, n, "executing")
    /\ \/ Kind[n] \in {"step", "condition", "delay", "end"}
       \/ Kind[n] = "edl" /\ EdlApproved(r, n)
    /\ \E branch \in (IF Kind[n] = "condition" THEN {"yes", "no"} ELSE {"none"}) :
         Advance(r, n, Successors(n, branch))
    /\ ran' = [ran EXCEPT ![r][n] = IF @ < 2 THEN @ + 1 ELSE 2]
    /\ UNCHANGED <<row, approval, pc, failed, origin, req, crashes>>

\* The handler asks for a person or for time; a gate and an EDL node insert an
\* approval row, of which a node has one at most (a second INSERT fails).
HandlerWaits(r, n) ==
    /\ At(r, n, "executing")
    /\ \/ /\ Kind[n] \in {"gate", "edl"} /\ approval[n] = "none"
          /\ approval' = [approval EXCEPT ![n] = "pending"]
       \/ /\ Kind[n] \in {"form", "delay"} \/ (Kind[n] = "edl" /\ approval[n] = "pending")
          /\ UNCHANGED approval
    /\ Moves(r, Joins(Leaves(at[r], n, "executing"), n, "pausing"))
    /\ UNCHANGED <<row, pc, ctx, failed, origin, ran, req, crashes>>

\* Mutant: a failed branch is forgotten, as gather does when nobody looks.
StopWithoutError(r, n, stage) == Moves(r, Leaves(at[r], n, stage)) /\ UNCHANGED failed

StopBranch(r, n, stage) ==
    /\ Moves(r, Leaves(at[r], n, stage))
    /\ failed' = [failed EXCEPT ![r] = TRUE]

\* The last attempt failed; error_policy decides.
HandlerFails(r, n) ==
    /\ At(r, n, "executing")
    /\ \/ /\ ErrorPolicy[n] = "continue"
          /\ Advance(r, n, Successors(n, "none"))
          /\ UNCHANGED failed
       \/ /\ ErrorPolicy[n] = "route_to_error"
          /\ \E t \in ErrorTargets(n) : Advance(r, n, {t})
          /\ UNCHANGED failed
       \/ /\ ErrorPolicy[n] = "route_to_error" => ErrorTargets(n) = {}
          /\ ErrorPolicy[n] # "continue"
          /\ StopBranch(r, n, "executing")
          /\ UNCHANGED ctx
    /\ UNCHANGED <<row, approval, pc, origin, ran, req, crashes>>

\* An UPDATE of the branch itself raises: gather, or the outer except, sees it.
StatementRaises(r, n) ==
    /\ \E stage \in {"entering", "pausing"} : At(r, n, stage) /\ StopBranch(r, n, stage)
    /\ UNCHANGED <<row, approval, pc, ctx, origin, ran, req, crashes>>

\* Mutant: the node's kind is written as the status.
WaitingStatusIsKind(n) == Kind[n]

WaitingStatus(n) ==
    CASE Kind[n] \in {"gate", "edl"} -> "waiting_approval"
      [] Kind[n] = "delay" -> "waiting_delay"
      [] OTHER -> "waiting_input"

\* Mutant: the paused branch goes on.
LeavePausedGoingOn(r, n) ==
    Moves(r, Schedule(Leaves(at[r], n, "pausing"), NextNodes(n, "none")))

\* The paused branch returns; the node is not marked complete.
LeavePaused(r, n) == Moves(r, Leaves(at[r], n, "pausing"))

\* "Not an error, just paused": the waiting status is written over whatever
\* the row holds.
WritePause(r, n) ==
    /\ At(r, n, "pausing")
    /\ status' = WaitingStatus(n)
    /\ current' = n
    /\ saved' = ctx[r]
    /\ LeavePaused(r, n)
    /\ UNCHANGED <<approval, pc, ctx, failed, origin, ran, req, crashes>>

\* Mutant: only a failure is written.
OutcomeWhenFailed(r) == IF failed[r] THEN "failed" ELSE status

Outcome(r) == IF failed[r] THEN "failed" ELSE "completed"

\* Every branch has returned: the outcome is written, whatever the status is.
Finalize(r) ==
    /\ pc[r] = "active" /\ at[r] = Nowhere
    /\ status' = Outcome(r)
    /\ pc' = [pc EXCEPT ![r] = "finalized"]
    /\ UNCHANGED <<current, saved, approval, at, ctx, failed, origin, ran, req, crashes>>

-----------------------------------------------------------------------------
(* Requests: approve_node, submit_form_response and their like, reject_node,
   cancel_execution; resume_execution reads the row, then writes it. *)

Decide(n, decision) ==
    approval' = IF approval[n] = "pending" THEN [approval EXCEPT ![n] = decision] ELSE approval

Goes(q, point) ==
    req' = [req EXCEPT ![q] = Request(point, req[q].approved, req[q].node, req[q].ctx)]

Approve(q, n) ==
    /\ req[q].pc = "new" /\ status # "none"
    /\ Decide(n, "approved")
    /\ req' = [req EXCEPT ![q] = Request("resuming", TRUE, req[q].node, req[q].ctx)]
    /\ UNCHANGED <<row, tasks, crashes>>

Submit(q) ==
    /\ req[q].pc = "new" /\ status # "none"
    /\ Goes(q, "resuming")
    /\ UNCHANGED <<row, approval, tasks, crashes>>

ResumeRead(q) ==
    /\ req[q].pc = "resuming"
    /\ IF status \in {"waiting_approval", "waiting_input"}
       THEN req' = [req EXCEPT ![q] = Request("read", req[q].approved, current, saved)]
       ELSE Goes(q, "ended")
    /\ UNCHANGED <<row, approval, tasks, crashes>>

\* An approved EDL node (respond and action nodes likewise) runs again; any
\* other waiting node is skipped, in favour of its first outgoing edge only.
ResumePoints(q) ==
    LET n == req[q].node
    IN  IF req[q].approved /\ Kind[n] = "edl" THEN {n} ELSE NextNodes(n, "none")

\* Without a node to go on with the row says `running' all the same.
ResumeWrite(q) ==
    LET node == req[q].node
        old == req[q].ctx
        context == Context(old.done, IF req[q].approved THEN old.approved \cup {node}
                                                        ELSE old.approved)
    IN  /\ req[q].pc = "read"
        /\ status' = "running"
        /\ saved' = context
        /\ \/ \E n \in ResumePoints(q) : Spawn({n}, context)
           \/ ResumePoints(q) = {} /\ UNCHANGED tasks
        /\ Goes(q, "ended")
        /\ UNCHANGED <<current, approval, crashes>>

\* reject_node: two statements, no transaction.
Reject(q, n) ==
    /\ req[q].pc = "new" /\ status # "none"
    /\ Decide(n, "rejected")
    /\ Goes(q, "rejecting")
    /\ UNCHANGED <<row, tasks, crashes>>

RejectFails(q) ==
    /\ req[q].pc = "rejecting"
    /\ status' = "failed"
    /\ Goes(q, "ended")
    /\ UNCHANGED <<current, saved, approval, tasks, crashes>>

\* A scheduled delay is not in this list, and no task is stopped.
Cancel(q) ==
    /\ req[q].pc = "new"
    /\ status \in {"running", "waiting_approval", "waiting_input"}
    /\ status' = "cancelled"
    /\ Goes(q, "ended")
    /\ UNCHANGED <<current, saved, approval, tasks, crashes>>

\* The process dies with the runs in its event loop.
Crash ==
    /\ crashes < MaxCrashes
    /\ \E r \in Runs : pc[r] = "active"
    /\ crashes' = crashes + 1
    /\ pc' = [r \in Runs |-> IF pc[r] = "active" THEN "lost" ELSE pc[r]]
    /\ UNCHANGED <<row, approval, at, ctx, failed, origin, ran, req>>

-----------------------------------------------------------------------------

NodeStep(r, n) ==
    \/ BeginBranch(r, n) \/ Enter(r, n)
    \/ HandlerSucceeds(r, n) \/ HandlerWaits(r, n) \/ HandlerFails(r, n)
    \/ WritePause(r, n) \/ StatementRaises(r, n)

RunStep(r) == (\E n \in Nodes : NodeStep(r, n)) \/ Finalize(r)

Next ==
    \/ StartExecution \/ Crash
    \/ \E r \in Runs : RunStep(r)
    \/ \E q \in Requests :
         \/ \E n \in Nodes : Approve(q, n) \/ Reject(q, n)
         \/ Submit(q) \/ ResumeRead(q) \/ ResumeWrite(q) \/ RejectFails(q) \/ Cancel(q)

Spec == Init /\ [][Next]_vars

\* The event loop runs every task; handlers end.
FairSpec == Spec /\ \A r \in Runs : WF_vars(RunStep(r))

-----------------------------------------------------------------------------
(* Properties *)

\* The branches on which a handler's outcome may send the run from n.
Branches(n) ==
    (IF Kind[n] = "condition" THEN {"yes", "no"} ELSE {"none"})
        \cup (IF ErrorPolicy[n] = "continue" THEN {"none"} ELSE {})

\* No edge leads back to the trigger, and what leads to a convergence point leads
\* nowhere else on the same branch.
JoinsReachedAlone ==
    /\ \A e \in Edges : e.dst # Start
    /\ \A p \in Nodes : \A branch \in Branches(p) : \A n \in Successors(p, branch) :
          Cardinality(Incoming(n)) > 1 => Successors(p, branch) = {n}

\* From the trigger on a node completes at most once, however the branches of
\* the run interleave: a convergence point is entered by the last branch to
\* arrive, and only it.  (Not where a predecessor of it forks: the task that the
\* fork schedules checks later, when another branch may have entered already.)
NodeOncePerRun == JoinsReachedAlone => \A n \in Nodes : ran[1][n] <= 1

\* A convergence point runs only when all its predecessors are complete.
JoinWaitsForAll ==
    \A r \in Runs, n \in Nodes :
        at[r][n]["executing"] > 0 /\ Cardinality(Incoming(n)) > 1
            => \A e \in Incoming(n) : e.src \in ctx[r].done

\* An execution that was never resumed and is reported completed has left
\* nothing undone: a node whose predecessors are all complete is complete itself,
\* or paused.  No branch failed unnoticed, and of the branches that meet at a
\* convergence point one has gone on.  (Where no predecessor's failure is routed
\* to a handler: a convergence point that the other branches reached before that
\* is never run.  Nor is what an edge without an answer leads to from a condition.)
CompletedLeavesNothing ==
    status = "completed" /\ pc[1] = "finalized" /\ (\A r \in Runs \ {1} : pc[r] = "unused")
        => \A n \in Nodes :
             /\ Incoming(n) # {}
             /\ \A e \in Incoming(n) :
                  /\ e.handle = "default" /\ e.src \in ctx[1].done
                  /\ Kind[e.src] \notin {"condition", "end"}
                  /\ ErrorPolicy[e.src] # "route_to_error"
             => n \in ctx[1].done \/ Kind[n] \in {"gate", "edl", "form", "delay"}

\* What lies behind a gate or a form alone runs only in a run resumed right
\* there: the run that paused does not go on by itself.  (If a failure to ask
\* stops the branch.)
BehindPauseNeedsResume ==
    \A r \in Runs, n \in Nodes : \A e \in Incoming(n) :
        ran[r][n] > 0 /\ Incoming(n) = {e} /\ Kind[e.src] \in {"gate", "form"}
            /\ ErrorPolicy[e.src] = "stop"
            => n \in origin[r]

\* A block list is changed only after its approval was given, whatever other
\* node's approval or form resumed the execution.
EdlOnlyWhenApproved ==
    \A r \in Runs, n \in Nodes :
        Kind[n] = "edl" /\ ran[r][n] > 0 => approval[n] = "approved"

\* Every execution comes to an end or to a pause.
ExecutionSettles == status = "running" ~> status # "running"

\* Paused executions wait: a waiting status gives way to a resume, a rejection
\* or a cancellation, never to completion.
PauseHolds == [][(status \in Waiting) => (status' # "completed")]_vars

\* A cancelled execution stays cancelled.
CancelHolds == [][status = "cancelled" => status' = "cancelled"]_vars

\* A completed execution has run its end node.
CompletedReachesEnd ==
    status = "completed" => \E r \in Runs, n \in Nodes : Kind[n] = "end" /\ ran[r][n] > 0

\* The successor of a gate runs only if that gate was approved.
GateNeedsApproval ==
    \A r \in Runs, n \in Nodes : \A e \in Incoming(n) :
        Kind[e.src] = "gate" /\ ran[r][n] > 0 => approval[e.src] = "approved"

\* One pause is resumed once: no node completes in two runs.
ResumedOnce ==
    \A n \in Nodes : Cardinality({r \in Runs : ran[r][n] > 0}) <= 1

=============================================================================
