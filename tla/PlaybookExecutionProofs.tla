----------------------- MODULE PlaybookExecutionProofs ----------------------
(***************************************************************************)
(* What PlaybookExecution keeps for every playbook graph, any number of    *)
(* requests and any number of crashes.                                     *)
(***************************************************************************)
EXTENDS PlaybookExecution, FiniteSetTheorems, TLAPS

-----------------------------------------------------------------------------
(* The branch counts of one run *)

Counts == [Nodes -> [Stages -> Nat]]

LEMMA LeavesType ==
  ASSUME NEW counts \in Counts, NEW n \in Nodes, NEW stage \in Stages, counts[n][stage] > 0
  PROVE  Leaves(counts, n, stage) \in Counts
  BY DEF Leaves, Counts

LEMMA JoinsType ==
  ASSUME NEW counts \in Counts, NEW n \in Nodes, NEW stage \in Stages
  PROVE  Joins(counts, n, stage) \in Counts
  BY DEF Joins, Counts

LEMMA ReachType ==
  ASSUME NEW counts \in Counts, NEW n \in Nodes, NEW done
  PROVE  Reach(counts, n, done) \in Counts
  BY JoinsType DEF Reach, Stages

LEMMA ScheduleType ==
  ASSUME NEW counts \in Counts, NEW targets
  PROVE  Schedule(counts, targets) \in Counts
  BY DEF Schedule, Counts, Stages

LEMMA NowhereType == Nowhere \in Counts
  BY DEF Nowhere, Counts

LEMMA SoleTarget ==
  ASSUME NEW targets, Cardinality(targets) = 1
  PROVE  (CHOOSE n \in targets : TRUE) \in targets
<1>1. targets # {}
  BY FS_EmptySet
<1> QED
  BY <1>1

LEMMA ContinueType ==
  ASSUME NEW counts \in Counts, NEW targets \in SUBSET Nodes, NEW done
  PROVE  Continue(counts, targets, done) \in Counts
<1>1. CASE Cardinality(targets) = 1
  <2>1. (CHOOSE n \in targets : TRUE) \in Nodes
    BY <1>1, SoleTarget
  <2> QED
    BY <1>1, <2>1, ReachType DEF Continue
<1>2. CASE Cardinality(targets) # 1
  BY <1>2, ScheduleType DEF Continue
<1> QED
  BY <1>1, <1>2

LEMMA SuccessorsType ==
  ASSUME NEW n \in Nodes, NEW branch
  PROVE  /\ NextNodes(n, branch) \in SUBSET Nodes
         /\ Successors(n, branch) \in SUBSET Nodes
         /\ ErrorTargets(n) \in SUBSET Nodes
  BY GraphAssumption DEF NextNodes, Successors, ErrorTargets

-----------------------------------------------------------------------------
(* Type correctness *)

LEMMA InitTypeOK == Init => TypeOK
<1> SUFFICES ASSUME Init PROVE TypeOK
  OBVIOUS
<1>1. NewContext \in Contexts
  BY DEF NewContext, Context, Contexts
<1>2. at \in [Runs -> Counts]
  BY NowhereType DEF Init
<1>3. Request("new", FALSE, Start, NewContext) \in RequestStates
  BY <1>1, GraphAssumption DEF Request, RequestStates, RequestPoints
<1>4. crashes \in 0..MaxCrashes
  BY GraphAssumption DEF Init
<1>5. ran \in [Runs -> [Nodes -> 0..2]]
  BY DEF Init
<1>6. /\ status \in {"none"} /\ current \in Nodes /\ saved \in Contexts
      /\ approval \in [Nodes -> {"none", "pending", "approved", "rejected"}]
  BY <1>1, GraphAssumption DEF Init
<1>7. /\ pc \in [Runs -> {"unused", "active", "finalized", "lost"}]
      /\ ctx \in [Runs -> Contexts]
      /\ origin \in [Runs -> SUBSET Nodes]
  BY <1>1 DEF Init
<1>8. failed \in [Runs -> BOOLEAN]
  BY DEF Init
<1>9. req \in [Requests -> RequestStates]
  BY <1>3 DEF Init
<1> QED
  BY <1>2, <1>4, <1>5, <1>6, <1>7, <1>8, <1>9 DEF TypeOK, Counts

LEMMA AdvanceType ==
  ASSUME TypeOK, NEW r \in Runs, NEW n \in Nodes, NEW targets \in SUBSET Nodes,
         at[r][n]["executing"] > 0, Advance(r, n, targets)
  PROVE  /\ ctx' \in [Runs -> Contexts]
         /\ at' \in [Runs -> Counts]
<1> DEFINE done == ctx[r].done \cup {n}
           left == Leaves(at[r], n, "executing")
<1>1. Context(done, ctx[r].approved) \in Contexts
  BY DEF TypeOK, Contexts, Context
<1>2. at[r] \in Counts /\ at \in [Runs -> Counts]
  BY DEF TypeOK, Counts
<1>3. left \in Counts
  BY <1>2, LeavesType DEF Stages
<1>4. Continue(left, targets, done) \in Counts
  BY <1>3, ContinueType
<1> HIDE DEF left, done
<1>5. ctx' = [ctx EXCEPT ![r] = Context(done, ctx[r].approved)]
  BY DEF Advance, done
<1>6. at' = [at EXCEPT ![r] = Continue(left, targets, done)]
  BY DEF Advance, Moves, left, done
<1> QED
  BY <1>1, <1>2, <1>4, <1>5, <1>6 DEF TypeOK

LEMMA SpawnType ==
  ASSUME TypeOK, NEW targets \in SUBSET Nodes, NEW context \in Contexts, Spawn(targets, context)
  PROVE  /\ pc' \in [Runs -> {"unused", "active", "finalized", "lost"}]
         /\ at' \in [Runs -> Counts]
         /\ ctx' \in [Runs -> Contexts]
         /\ origin' \in [Runs -> SUBSET Nodes]
         /\ failed' = failed /\ ran' = ran
<1>1. Schedule(Nowhere, targets) \in Counts
  BY NowhereType, ScheduleType
<1>2. at \in [Runs -> Counts]
  BY DEF TypeOK, Counts
<1> QED
  BY <1>1, <1>2 DEF Spawn, TypeOK

\* A run moves one branch from one stage to another, or lets it go.
LEMMA MoveType ==
  ASSUME TypeOK, NEW r \in Runs, NEW n \in Nodes, NEW stage \in Stages, NEW next \in Stages,
         at[r][n][stage] > 0
  PROVE  /\ Leaves(at[r], n, stage) \in Counts
         /\ Joins(Leaves(at[r], n, stage), n, next) \in Counts
         /\ \A done : Reach(Leaves(at[r], n, stage), n, done) \in Counts
         /\ \A counts \in Counts : [at EXCEPT ![r] = counts] \in [Runs -> Counts]
<1>1. at[r] \in Counts /\ at \in [Runs -> Counts]
  BY DEF TypeOK, Counts
<1>2. Leaves(at[r], n, stage) \in Counts
  BY <1>1, LeavesType
<1> QED
  BY <1>1, <1>2, JoinsType, ReachType

LEMMA NodeStepType ==
  ASSUME TypeOK, NEW r \in Runs, NEW n \in Nodes, NodeStep(r, n)
  PROVE  TypeOK'
<1> USE DEF row, Stages
<1>1. CASE BeginBranch(r, n)
  <2>1. at' \in [Runs -> Counts]
    BY <1>1, MoveType DEF BeginBranch, At, Moves
  <2> QED
    BY <1>1, <2>1 DEF BeginBranch, TypeOK, Counts
<1>2. CASE Enter(r, n)
  <2>1. at' \in [Runs -> Counts]
    BY <1>2, MoveType DEF Enter, At, Moves
  <2> QED
    BY <1>2, <2>1 DEF Enter, TypeOK, Counts
<1>3. CASE HandlerSucceeds(r, n)
  <2>1. PICK branch \in {"yes", "no", "none"} : Advance(r, n, Successors(n, branch))
    BY <1>3 DEF HandlerSucceeds
  <2>2. at' \in [Runs -> Counts] /\ ctx' \in [Runs -> Contexts]
    BY <1>3, <2>1, SuccessorsType, AdvanceType DEF HandlerSucceeds, At
  <2>3. ran' \in [Runs -> [Nodes -> 0..2]]
    <3>1. ran[r] \in [Nodes -> 0..2] /\ ran[r][n] \in 0..2
      BY DEF TypeOK
    <3>2. (IF ran[r][n] < 2 THEN ran[r][n] + 1 ELSE 2) \in 0..2
      BY <3>1
    <3> QED
      BY <1>3, <3>1, <3>2 DEF HandlerSucceeds, TypeOK
  <2> QED
    BY <1>3, <2>2, <2>3 DEF HandlerSucceeds, TypeOK, Counts
<1>4. CASE HandlerWaits(r, n)
  <2>1. at' \in [Runs -> Counts]
    BY <1>4, MoveType DEF HandlerWaits, At, Moves
  <2>2. approval' \in [Nodes -> {"none", "pending", "approved", "rejected"}]
    BY <1>4 DEF HandlerWaits, TypeOK
  <2> QED
    BY <1>4, <2>1, <2>2 DEF HandlerWaits, TypeOK, Counts
<1>5. CASE HandlerFails(r, n)
  <2>1. at' \in [Runs -> Counts] /\ ctx' \in [Runs -> Contexts] /\ failed' \in [Runs -> BOOLEAN]
    <3>1. CASE StopBranch(r, n, "executing") /\ UNCHANGED ctx
      <4>1. at' \in [Runs -> Counts]
        BY <1>5, <3>1, MoveType DEF HandlerFails, At, StopBranch, Moves
      <4> QED
        BY <3>1, <4>1 DEF StopBranch, TypeOK
    <3>2. CASE Advance(r, n, Successors(n, "none")) /\ UNCHANGED failed
      BY <1>5, <3>2, SuccessorsType, AdvanceType DEF HandlerFails, At, TypeOK
    <3>3. ASSUME NEW t \in ErrorTargets(n), Advance(r, n, {t}), UNCHANGED failed
          PROVE  at' \in [Runs -> Counts] /\ ctx' \in [Runs -> Contexts]
                   /\ failed' \in [Runs -> BOOLEAN]
      <4>1. {t} \in SUBSET Nodes
        BY SuccessorsType
      <4> QED
        BY <1>5, <3>3, <4>1, AdvanceType DEF HandlerFails, At, TypeOK
    <3> QED
      BY <1>5, <3>1, <3>2, <3>3 DEF HandlerFails
  <2> QED
    BY <1>5, <2>1 DEF HandlerFails, TypeOK, Counts
<1>6. CASE WritePause(r, n)
  <2>1. at' \in [Runs -> Counts]
    BY <1>6, MoveType DEF WritePause, LeavePaused, At, Moves
  <2>2. WaitingStatus(n) \in Waiting
    BY DEF WaitingStatus, Waiting
  <2> QED
    BY <1>6, <2>1, <2>2 DEF WritePause, TypeOK, Counts
<1>7. CASE StatementRaises(r, n)
  <2>1. at' \in [Runs -> Counts]
    BY <1>7, MoveType DEF StatementRaises, StopBranch, At, Moves
  <2>2. failed' \in [Runs -> BOOLEAN]
    BY <1>7 DEF StatementRaises, StopBranch, TypeOK
  <2> QED
    BY <1>7, <2>1, <2>2 DEF StatementRaises, TypeOK, Counts
<1> QED
  BY <1>1, <1>2, <1>3, <1>4, <1>5, <1>6, <1>7 DEF NodeStep

\* One request's steps.
RequestStep(q) ==
    \/ \E n \in Nodes : Approve(q, n) \/ Reject(q, n)
    \/ Submit(q) \/ ResumeRead(q) \/ ResumeWrite(q) \/ RejectFails(q) \/ Cancel(q)

LEMMA RequestStepType ==
  ASSUME TypeOK, NEW q \in Requests, RequestStep(q)
  PROVE  TypeOK'
<1> USE DEF row, tasks
<1>1. \A point \in RequestPoints, yes \in BOOLEAN, n \in Nodes, c \in Contexts :
        Request(point, yes, n, c) \in RequestStates
  BY DEF Request, RequestStates
<1>2. /\ req[q].approved \in BOOLEAN /\ req[q].node \in Nodes /\ req[q].ctx \in Contexts
      /\ current \in Nodes /\ saved \in Contexts
  BY DEF TypeOK, RequestStates
<1>3. \A point \in RequestPoints : Goes(q, point) => req' \in [Requests -> RequestStates]
  BY <1>1, <1>2 DEF Goes, TypeOK
<1>4. ASSUME NEW n \in Nodes, Approve(q, n) \/ Reject(q, n) PROVE TypeOK'
  <2>1. approval' \in [Nodes -> {"none", "pending", "approved", "rejected"}]
    BY <1>4 DEF Approve, Reject, Decide, TypeOK
  <2>2. req' \in [Requests -> RequestStates]
    <3>1. \A c \in RequestStates : [req EXCEPT ![q] = c] \in [Requests -> RequestStates]
      BY DEF TypeOK
    <3>2. Request("resuming", TRUE, req[q].node, req[q].ctx) \in RequestStates
      BY <1>1, <1>2 DEF RequestPoints
    <3>3. CASE Approve(q, n)
      BY <3>1, <3>2, <3>3 DEF Approve
    <3>4. CASE Reject(q, n)
      BY <1>3, <3>4 DEF Reject, RequestPoints
    <3> QED
      BY <1>4, <3>3, <3>4
  <2> QED
    BY <1>4, <2>1, <2>2 DEF Approve, Reject, TypeOK
<1>5. CASE Submit(q) \/ RejectFails(q) \/ Cancel(q)
  <2>1. req' \in [Requests -> RequestStates]
    BY <1>3, <1>5 DEF Submit, RejectFails, Cancel, RequestPoints
  <2> QED
    BY <1>5, <2>1 DEF Submit, RejectFails, Cancel, TypeOK
<1>6. CASE ResumeRead(q)
  <2>1. req' \in [Requests -> RequestStates]
    <3>1. \A c \in RequestStates : [req EXCEPT ![q] = c] \in [Requests -> RequestStates]
      BY DEF TypeOK
    <3>2. Request("read", req[q].approved, current, saved) \in RequestStates
      BY <1>1, <1>2 DEF RequestPoints
    <3>3. Goes(q, "ended") => req' \in [Requests -> RequestStates]
      BY <1>3 DEF RequestPoints
    <3> QED
      BY <1>6, <3>1, <3>2, <3>3 DEF ResumeRead
  <2> QED
    BY <1>6, <2>1 DEF ResumeRead, TypeOK
<1>7. CASE ResumeWrite(q)
  <2> DEFINE context == Context(req[q].ctx.done,
                                IF req[q].approved THEN req[q].ctx.approved \cup {req[q].node}
                                                   ELSE req[q].ctx.approved)
  <2>1. context \in Contexts
    BY <1>2 DEF Contexts, Context
  <2>2. req' \in [Requests -> RequestStates]
    BY <1>3, <1>7 DEF ResumeWrite, RequestPoints
  <2>3. saved' = context
    BY <1>7 DEF ResumeWrite
  <2>4. CASE UNCHANGED tasks
    BY <1>7, <2>1, <2>2, <2>3, <2>4 DEF ResumeWrite, TypeOK
  <2>5. ASSUME NEW n \in ResumePoints(q), Spawn({n}, context) PROVE TypeOK'
    <3>1. {n} \in SUBSET Nodes
      BY <1>2, SuccessorsType DEF ResumePoints
    <3> HIDE DEF context
    <3>2. /\ pc' \in [Runs -> {"unused", "active", "finalized", "lost"}]
          /\ at' \in [Runs -> Counts]
          /\ ctx' \in [Runs -> Contexts]
          /\ origin' \in [Runs -> SUBSET Nodes]
          /\ failed' = failed /\ ran' = ran
      BY <2>1, <2>5, <3>1, SpawnType
    <3> QED
      BY <1>7, <2>1, <2>2, <2>3, <3>2 DEF ResumeWrite, TypeOK, Counts
  <2> QED
    BY <1>7, <2>4, <2>5 DEF ResumeWrite
<1> QED
  BY <1>4, <1>5, <1>6, <1>7 DEF RequestStep

LEMMA NextTypeOK == TypeOK /\ [Next]_vars => TypeOK'
<1> SUFFICES ASSUME TypeOK, [Next]_vars PROVE TypeOK'
  OBVIOUS
<1>1. CASE StartExecution
  <2>1. NewContext \in Contexts /\ {Start} \in SUBSET Nodes
    BY GraphAssumption DEF NewContext, Context, Contexts
  <2>2. /\ pc' \in [Runs -> {"unused", "active", "finalized", "lost"}]
        /\ at' \in [Runs -> Counts]
        /\ ctx' \in [Runs -> Contexts]
        /\ origin' \in [Runs -> SUBSET Nodes]
        /\ failed' = failed /\ ran' = ran
    BY <1>1, <2>1, SpawnType DEF StartExecution
  <2> QED
    BY <1>1, <2>2 DEF StartExecution, TypeOK, Counts
<1>2. CASE Crash
  BY <1>2, GraphAssumption DEF Crash, row, TypeOK
<1>3. ASSUME NEW r \in Runs, NEW n \in Nodes, NodeStep(r, n) PROVE TypeOK'
  BY <1>3, NodeStepType
<1>4. ASSUME NEW r \in Runs, Finalize(r) PROVE TypeOK'
  BY <1>4 DEF Finalize, Outcome, TypeOK
<1>5. ASSUME NEW q \in Requests, RequestStep(q) PROVE TypeOK'
  BY <1>5, RequestStepType
<1>6. CASE UNCHANGED vars
  BY <1>6 DEF vars, row, tasks, TypeOK
<1> QED
  BY <1>1, <1>2, <1>3, <1>4, <1>5, <1>6 DEF Next, RunStep, RequestStep

\* The execution row, its runs and its requests stay in their types.
THEOREM TypeCorrect == Spec => []TypeOK
  BY InitTypeOK, NextTypeOK, PTL DEF Spec

-----------------------------------------------------------------------------
(* Convergence: a branch that has passed the merge check of a node passed it
   for good, because the set of completed nodes of a run only grows. *)

Gathered(counts, done) ==
    \A n \in Nodes : counts[n]["entering"] > 0 \/ counts[n]["executing"] > 0 => MayEnter(n, done)

JoinInv == \A r \in Runs : Gathered(at[r], ctx[r].done)

LEMMA MayEnterGrows ==
  ASSUME NEW n \in Nodes, NEW done, NEW more, done \subseteq more, MayEnter(n, done)
  PROVE  MayEnter(n, more)
  BY DEF MayEnter

LEMMA GatheredGrows ==
  ASSUME NEW counts, NEW done, NEW more, done \subseteq more, Gathered(counts, done)
  PROVE  Gathered(counts, more)
  BY MayEnterGrows DEF Gathered

LEMMA GatheredLeaves ==
  ASSUME NEW counts \in Counts, NEW done, NEW n \in Nodes, NEW stage \in Stages,
         Gathered(counts, done)
  PROVE  Gathered(Leaves(counts, n, stage), done)
  BY DEF Gathered, Leaves, Counts, Stages

LEMMA GatheredReach ==
  ASSUME NEW counts \in Counts, NEW done, NEW n \in Nodes, Gathered(counts, done)
  PROVE  Gathered(Reach(counts, n, done), done)
<1>1. CASE MayEnter(n, done)
  BY <1>1 DEF Gathered, Reach, Joins, Counts, Stages
<1>2. CASE ~MayEnter(n, done)
  BY <1>2 DEF Reach
<1> QED
  BY <1>1, <1>2

LEMMA GatheredSchedule ==
  ASSUME NEW counts \in Counts, NEW done, NEW targets, Gathered(counts, done)
  PROVE  Gathered(Schedule(counts, targets), done)
  BY DEF Gathered, Schedule, Counts, Stages

LEMMA GatheredNowhere == \A done : Gathered(Nowhere, done)
  BY DEF Gathered, Nowhere, Stages

LEMMA GatheredMove ==
  ASSUME NEW counts \in Counts, NEW done, NEW n \in Nodes, NEW stage \in {"entering", "executing"},
         NEW next \in {"executing", "pausing"}, counts[n][stage] > 0, Gathered(counts, done)
  PROVE  Gathered(Joins(Leaves(counts, n, stage), n, next), done)
<1>1. MayEnter(n, done)
  BY DEF Gathered
<1> QED
  BY <1>1 DEF Gathered, Leaves, Joins, Counts, Stages

LEMMA GatheredContinue ==
  ASSUME NEW counts \in Counts, NEW done, NEW targets \in SUBSET Nodes, Gathered(counts, done)
  PROVE  Gathered(Continue(counts, targets, done), done)
<1>1. CASE Cardinality(targets) = 1
  <2>1. (CHOOSE n \in targets : TRUE) \in Nodes
    BY <1>1, SoleTarget
  <2> QED
    BY <1>1, <2>1, GatheredReach DEF Continue
<1>2. CASE Cardinality(targets) # 1
  BY <1>2, GatheredSchedule DEF Continue
<1> QED
  BY <1>1, <1>2

\* A run whose counts are replaced keeps the invariant if the new ones do.
LEMMA JoinInvMoves ==
  ASSUME TypeOK, JoinInv, NEW r \in Runs, NEW counts, Moves(r, counts), UNCHANGED ctx,
         Gathered(counts, ctx[r].done)
  PROVE  JoinInv'
  BY DEF JoinInv, Moves, TypeOK, Gathered, MayEnter

LEMMA JoinInvAdvance ==
  ASSUME TypeOK, JoinInv, NEW r \in Runs, NEW n \in Nodes, NEW targets \in SUBSET Nodes,
         at[r][n]["executing"] > 0, Advance(r, n, targets)
  PROVE  JoinInv'
<1> DEFINE done == ctx[r].done \cup {n}
           left == Leaves(at[r], n, "executing")
<1>1. at[r] \in Counts /\ Gathered(at[r], ctx[r].done)
  BY DEF TypeOK, Counts, JoinInv
<1>2. left \in Counts
  BY <1>1, LeavesType DEF Stages
<1>3. Gathered(left, ctx[r].done)
  BY <1>1, GatheredLeaves DEF Stages
<1>4. Gathered(Continue(left, targets, done), done)
  <2>1. Gathered(left, done)
    BY <1>3, GatheredGrows
  <2> QED
    BY <1>2, <2>1, GatheredContinue
<1>5. /\ ctx' = [ctx EXCEPT ![r] = Context(done, ctx[r].approved)]
      /\ at' = [at EXCEPT ![r] = Continue(left, targets, done)]
  BY DEF Advance, Moves
<1> HIDE DEF done, left
<1>6. ASSUME NEW i \in Runs PROVE Gathered(at'[i], ctx'[i].done)
  <2>1. CASE i = r
    BY <1>4, <1>5, <2>1 DEF TypeOK, Context
  <2>2. CASE i # r
    BY <1>5, <2>2 DEF TypeOK, JoinInv
  <2> QED
    BY <2>1, <2>2
<1> QED
  BY <1>6 DEF JoinInv, Gathered, MayEnter

LEMMA JoinInvSpawn ==
  ASSUME TypeOK, JoinInv, NEW targets, NEW context, Spawn(targets, context)
  PROVE  JoinInv'
<1>1. PICK r \in Runs : /\ at' = [at EXCEPT ![r] = Schedule(Nowhere, targets)]
                        /\ ctx' = [ctx EXCEPT ![r] = context]
  BY DEF Spawn
<1>2. \A done : Gathered(Schedule(Nowhere, targets), done)
  BY GatheredNowhere, GatheredSchedule, NowhereType
<1>3. ASSUME NEW i \in Runs PROVE Gathered(at'[i], ctx'[i].done)
  <2>1. CASE i = r
    BY <1>1, <1>2, <2>1 DEF TypeOK
  <2>2. CASE i # r
    BY <1>1, <2>2 DEF TypeOK, JoinInv
  <2> QED
    BY <2>1, <2>2
<1> QED
  BY <1>3 DEF JoinInv, Gathered, MayEnter

LEMMA JoinInvNodeStep ==
  ASSUME TypeOK, JoinInv, NEW r \in Runs, NEW n \in Nodes, NodeStep(r, n)
  PROVE  JoinInv'
<1> USE DEF Stages
<1>1. at[r] \in Counts /\ Gathered(at[r], ctx[r].done)
  BY DEF TypeOK, Counts, JoinInv
<1>2. \A stage \in Stages : Gathered(Leaves(at[r], n, stage), ctx[r].done)
  BY <1>1, GatheredLeaves
<1>3. CASE BeginBranch(r, n)
  <2>1. Leaves(at[r], n, "scheduled") \in Counts
    BY <1>1, <1>3, LeavesType DEF BeginBranch, At
  <2>2. Gathered(Reach(Leaves(at[r], n, "scheduled"), n, ctx[r].done), ctx[r].done)
    BY <1>2, <2>1, GatheredReach
  <2> QED
    BY <1>3, <2>2, JoinInvMoves DEF BeginBranch
<1>4. CASE Enter(r, n)
  <2>1. Gathered(Joins(Leaves(at[r], n, "entering"), n, "executing"), ctx[r].done)
    BY <1>1, <1>4, GatheredMove DEF Enter, At
  <2> QED
    BY <1>4, <2>1, JoinInvMoves DEF Enter
<1>5. CASE HandlerSucceeds(r, n)
  <2>1. PICK branch \in {"yes", "no", "none"} : Advance(r, n, Successors(n, branch))
    BY <1>5 DEF HandlerSucceeds
  <2> QED
    BY <1>5, <2>1, SuccessorsType, JoinInvAdvance DEF HandlerSucceeds, At
<1>6. CASE HandlerWaits(r, n)
  <2>1. Gathered(Joins(Leaves(at[r], n, "executing"), n, "pausing"), ctx[r].done)
    BY <1>1, <1>6, GatheredMove DEF HandlerWaits, At
  <2> QED
    BY <1>6, <2>1, JoinInvMoves DEF HandlerWaits
<1>7. CASE HandlerFails(r, n)
  <2>1. CASE StopBranch(r, n, "executing") /\ UNCHANGED ctx
    BY <1>2, <2>1, JoinInvMoves DEF StopBranch
  <2>2. CASE Advance(r, n, Successors(n, "none"))
    BY <1>7, <2>2, SuccessorsType, JoinInvAdvance DEF HandlerFails, At
  <2>3. ASSUME NEW t \in ErrorTargets(n), Advance(r, n, {t}) PROVE JoinInv'
    <3>1. {t} \in SUBSET Nodes
      BY SuccessorsType
    <3> QED
      BY <1>7, <2>3, <3>1, JoinInvAdvance DEF HandlerFails, At
  <2> QED
    BY <1>7, <2>1, <2>2, <2>3 DEF HandlerFails
<1>8. CASE WritePause(r, n)
  BY <1>2, <1>8, JoinInvMoves DEF WritePause, LeavePaused
<1>9. CASE StatementRaises(r, n)
  <2>1. PICK stage \in Stages : StopBranch(r, n, stage)
    BY <1>9 DEF StatementRaises
  <2> QED
    BY <1>2, <1>9, <2>1, JoinInvMoves DEF StatementRaises, StopBranch
<1> QED
  BY <1>3, <1>4, <1>5, <1>6, <1>7, <1>8, <1>9 DEF NodeStep

\* Outside execute_branch, runs begin and end and are otherwise left alone.
LEMMA OutsideStep ==
  ASSUME [Next]_vars, ~ \E r \in Runs, n \in Nodes : NodeStep(r, n)
  PROVE  \/ UNCHANGED <<at, ctx, origin, ran, failed>> /\ (\A r \in Runs : pc'[r] = "unused" => pc[r] = "unused")
         \/ \E targets, context : Spawn(targets, context)
<1> USE DEF tasks
<1>1. CASE StartExecution
  BY <1>1 DEF StartExecution
<1>2. CASE Crash
  BY <1>2 DEF Crash
<1>3. ASSUME NEW r \in Runs, Finalize(r)
      PROVE  /\ UNCHANGED <<at, ctx, origin, ran, failed>>
             /\ \A i \in Runs : pc'[i] = "unused" => pc[i] = "unused"
  BY <1>3 DEF Finalize
<1>4. ASSUME NEW q \in Requests, RequestStep(q)
      PROVE  UNCHANGED tasks \/ \E targets, context : Spawn(targets, context)
  <2>1. CASE ResumeWrite(q)
    BY <2>1 DEF ResumeWrite
  <2>2. CASE ~ResumeWrite(q)
    BY <1>4, <2>2 DEF RequestStep, Approve, Reject, Submit, ResumeRead, RejectFails, Cancel
  <2> QED
    BY <2>1, <2>2
<1>5. CASE UNCHANGED vars
  BY <1>5 DEF vars
<1> QED
  BY <1>1, <1>2, <1>3, <1>4, <1>5 DEF Next, RunStep, RequestStep

LEMMA NextJoinInv == TypeOK /\ JoinInv /\ [Next]_vars => JoinInv'
<1> SUFFICES ASSUME TypeOK, JoinInv, [Next]_vars PROVE JoinInv'
  OBVIOUS
<1>1. CASE \E r \in Runs, n \in Nodes : NodeStep(r, n)
  BY <1>1, JoinInvNodeStep
<1>2. CASE UNCHANGED <<at, ctx>>
  BY <1>2 DEF JoinInv, Gathered, MayEnter
<1>3. CASE \E targets, context : Spawn(targets, context)
  BY <1>3, JoinInvSpawn
<1> QED
  BY <1>1, <1>2, <1>3, OutsideStep

\* A convergence point never runs before all its predecessors are complete.
THEOREM ConvergenceWaits == Spec => []JoinWaitsForAll
<1>1. Init => JoinInv
  BY GatheredNowhere DEF Init, JoinInv
<1>2. JoinInv => JoinWaitsForAll
  BY DEF JoinInv, JoinWaitsForAll, Gathered, MayEnter
<1> QED
  BY <1>1, <1>2, InitTypeOK, NextTypeOK, NextJoinInv, PTL DEF Spec

-----------------------------------------------------------------------------
(* Block lists: an approval that was given stays given *)

LEMMA ApprovalStands ==
  ASSUME TypeOK, [Next]_vars, NEW n \in Nodes, Kind[n] = "edl", approval[n] = "approved"
  PROVE  approval'[n] = "approved"
<1>1. ASSUME NEW r \in Runs, NEW m \in Nodes, NodeStep(r, m) PROVE approval'[n] = "approved"
  <2>1. CASE HandlerWaits(r, m)
    BY <2>1 DEF HandlerWaits, TypeOK
  <2>2. CASE ~HandlerWaits(r, m)
    BY <1>1, <2>2 DEF NodeStep, BeginBranch, Enter, HandlerSucceeds, HandlerFails, WritePause,
                      StatementRaises
  <2> QED
    BY <2>1, <2>2
<1>2. ASSUME NEW q \in Requests, RequestStep(q) PROVE approval'[n] = "approved"
  BY <1>2 DEF RequestStep, Approve, Reject, Decide, Submit, ResumeRead, ResumeWrite, RejectFails,
              Cancel, TypeOK
<1>3. ASSUME StartExecution \/ Crash \/ (\E r \in Runs : Finalize(r)) \/ UNCHANGED vars
      PROVE  approval'[n] = "approved"
  BY <1>3 DEF StartExecution, Crash, Finalize, vars
<1> QED
  BY <1>1, <1>2, <1>3 DEF Next, RunStep, RequestStep

\* The history `ran' grows only where a handler succeeds.
LEMMA RanStep ==
  ASSUME TypeOK, [Next]_vars, NEW r \in Runs, NEW n \in Nodes, ran'[r][n] # ran[r][n]
  PROVE  HandlerSucceeds(r, n)
<1>1. ASSUME NEW i \in Runs, NEW m \in Nodes, NodeStep(i, m) PROVE HandlerSucceeds(r, n)
  <2>1. CASE HandlerSucceeds(i, m)
    <3>1. ran' = [ran EXCEPT ![i][m] = IF @ < 2 THEN @ + 1 ELSE 2]
      BY <2>1 DEF HandlerSucceeds
    <3>2. i = r /\ m = n
      BY <3>1 DEF TypeOK
    <3> QED
      BY <2>1, <3>2
  <2>2. CASE ~HandlerSucceeds(i, m)
    BY <1>1, <2>2 DEF NodeStep, BeginBranch, Enter, HandlerWaits, HandlerFails, WritePause,
                      StatementRaises
  <2> QED
    BY <2>1, <2>2
<1>2. CASE ~ \E i \in Runs, m \in Nodes : NodeStep(i, m)
  BY <1>2, OutsideStep DEF Spawn
<1> QED
  BY <1>1, <1>2

LEMMA NextEdlApproved == TypeOK /\ EdlOnlyWhenApproved /\ [Next]_vars => EdlOnlyWhenApproved'
<1> SUFFICES ASSUME TypeOK, EdlOnlyWhenApproved, [Next]_vars,
                    NEW r \in Runs, NEW n \in Nodes, Kind[n] = "edl", ran'[r][n] > 0
             PROVE  approval'[n] = "approved"
  BY DEF EdlOnlyWhenApproved
<1>1. CASE ran'[r][n] = ran[r][n]
  BY <1>1, ApprovalStands DEF EdlOnlyWhenApproved
<1>2. CASE ran'[r][n] # ran[r][n]
  <2>1. HandlerSucceeds(r, n)
    BY <1>2, RanStep
  <2>2. approval[n] = "approved"
    BY <2>1 DEF HandlerSucceeds, EdlApproved
  <2> QED
    BY <2>2, ApprovalStands
<1> QED
  BY <1>1, <1>2

\* A block list changes only under its own approval, whichever node's approval
\* or form resumed the execution.
THEOREM BlockListNeedsApproval == Spec => []EdlOnlyWhenApproved
<1>1. Init => EdlOnlyWhenApproved
  BY DEF Init, EdlOnlyWhenApproved
<1> QED
  BY <1>1, InitTypeOK, NextTypeOK, NextEdlApproved, PTL DEF Spec

-----------------------------------------------------------------------------
(* Pauses: a run puts a branch behind a gate or a form only by starting there *)

Behind(n) ==
    \E e \in Incoming(n) : /\ Incoming(n) = {e}
                           /\ Kind[e.src] \in {"gate", "form"}
                           /\ ErrorPolicy[e.src] = "stop"

Occupied(counts, n) == \E stage \in Stages : counts[n][stage] > 0

PauseInv ==
    \A r \in Runs, n \in Nodes :
        Behind(n) /\ (Occupied(at[r], n) \/ ran[r][n] > 0) => n \in origin[r]

FreshRuns == \A r \in Runs : pc[r] = "unused" => \A n \in Nodes : ran[r][n] = 0

LEMMA OccupiedLeaves ==
  ASSUME NEW counts \in Counts, NEW n \in Nodes, NEW stage \in Stages, NEW i \in Nodes,
         Occupied(Leaves(counts, n, stage), i)
  PROVE  Occupied(counts, i)
  BY DEF Occupied, Leaves, Counts

LEMMA OccupiedMove ==
  ASSUME NEW counts \in Counts, NEW n \in Nodes, NEW stage \in Stages, NEW next \in Stages,
         counts[n][stage] > 0, NEW i \in Nodes,
         Occupied(Joins(Leaves(counts, n, stage), n, next), i)
  PROVE  Occupied(counts, i)
<1>1. CASE i = n
  BY <1>1 DEF Occupied
<1>2. CASE i # n
  BY <1>2 DEF Occupied, Leaves, Joins, Counts
<1> QED
  BY <1>1, <1>2

LEMMA OccupiedReach ==
  ASSUME NEW counts \in Counts, NEW n \in Nodes, NEW done, NEW i \in Nodes, i # n,
         Occupied(Reach(counts, n, done), i)
  PROVE  Occupied(counts, i)
  BY DEF Occupied, Reach, Joins, Counts

LEMMA OccupiedSchedule ==
  ASSUME NEW counts \in Counts, NEW targets, NEW i \in Nodes, i \notin targets,
         Occupied(Schedule(counts, targets), i)
  PROVE  Occupied(counts, i)
  BY DEF Occupied, Schedule, Counts

LEMMA OccupiedContinue ==
  ASSUME NEW counts \in Counts, NEW targets \in SUBSET Nodes, NEW done, NEW i \in Nodes,
         i \notin targets, Occupied(Continue(counts, targets, done), i)
  PROVE  Occupied(counts, i)
<1>1. CASE Cardinality(targets) = 1
  <2>1. (CHOOSE n \in targets : TRUE) \in targets
    BY <1>1, SoleTarget
  <2> QED
    BY <1>1, <2>1, OccupiedReach DEF Continue
<1>2. CASE Cardinality(targets) # 1
  BY <1>2, OccupiedSchedule DEF Continue
<1> QED
  BY <1>1, <1>2

LEMMA OccupiedAdvance ==
  ASSUME TypeOK, NEW r \in Runs, NEW n \in Nodes, NEW targets \in SUBSET Nodes,
         at[r][n]["executing"] > 0, Advance(r, n, targets),
         NEW i \in Nodes, i \notin targets, Occupied(at'[r], i)
  PROVE  Occupied(at[r], i)
<1> DEFINE left == Leaves(at[r], n, "executing")
           done == ctx[r].done \cup {n}
<1>1. at[r] \in Counts
  BY DEF TypeOK, Counts
<1>2. left \in Counts
  BY <1>1, LeavesType DEF Stages
<1>3. at'[r] = Continue(left, targets, done)
  BY DEF Advance, Moves, TypeOK
<1>4. Occupied(left, i)
  BY <1>2, <1>3, OccupiedContinue
<1> QED
  BY <1>1, <1>4, OccupiedLeaves DEF Stages

\* The edges that a node follows do not lead behind it unless it pauses.
LEMMA NotBehind ==
  ASSUME NEW n \in Nodes, NEW i \in Nodes,
         \/ \E branch : i \in Successors(n, branch)
         \/ i \in ErrorTargets(n),
         Kind[n] \notin {"gate", "form"} \/ ErrorPolicy[n] # "stop"
  PROVE  ~Behind(i)
<1>1. PICK e \in Edges : e.src = n /\ e.dst = i
  BY DEF Successors, NextNodes, ErrorTargets
<1> QED
  BY <1>1 DEF Behind, Incoming

LEMMA PauseInvNodeStep ==
  ASSUME TypeOK, PauseInv, NEW r \in Runs, NEW n \in Nodes, NodeStep(r, n),
         NEW i \in Nodes, Behind(i), Occupied(at'[r], i)
  PROVE  Occupied(at[r], i)
<1> USE DEF Stages
<1>1. at[r] \in Counts
  BY DEF TypeOK, Counts
<1>2. \A counts : Moves(r, counts) => at'[r] = counts
  BY DEF Moves, TypeOK
<1>3. \A stage \in Stages : Moves(r, Leaves(at[r], n, stage)) => Occupied(at[r], i)
  BY <1>1, <1>2, OccupiedLeaves
<1>4. CASE BeginBranch(r, n)
  <2>1. Leaves(at[r], n, "scheduled") \in Counts
    BY <1>1, <1>4, LeavesType DEF BeginBranch, At
  <2>2. CASE i = n
    BY <1>4, <2>2 DEF BeginBranch, At, Occupied
  <2>3. CASE i # n
    BY <1>1, <1>2, <1>4, <2>1, <2>3, OccupiedReach, OccupiedLeaves DEF BeginBranch
  <2> QED
    BY <2>2, <2>3
<1>5. CASE Enter(r, n)
  BY <1>1, <1>2, <1>5, OccupiedMove DEF Enter, At
<1>6. CASE HandlerSucceeds(r, n)
  <2>1. PICK branch \in {"yes", "no", "none"} : Advance(r, n, Successors(n, branch))
    BY <1>6 DEF HandlerSucceeds
  <2>2. i \notin Successors(n, branch)
    BY <1>6, NotBehind DEF HandlerSucceeds
  <2> QED
    BY <1>6, <2>1, <2>2, SuccessorsType, OccupiedAdvance DEF HandlerSucceeds, At
<1>7. CASE HandlerWaits(r, n)
  BY <1>1, <1>2, <1>7, OccupiedMove DEF HandlerWaits, At
<1>8. CASE HandlerFails(r, n)
  <2>1. CASE StopBranch(r, n, "executing")
    BY <1>3, <2>1 DEF StopBranch
  <2>2. CASE ErrorPolicy[n] = "continue" /\ Advance(r, n, Successors(n, "none"))
    <3>1. i \notin Successors(n, "none")
      BY <2>2, NotBehind
    <3> QED
      BY <1>8, <2>2, <3>1, SuccessorsType, OccupiedAdvance DEF HandlerFails, At
  <2>3. ASSUME ErrorPolicy[n] = "route_to_error", NEW t \in ErrorTargets(n), Advance(r, n, {t})
        PROVE  Occupied(at[r], i)
    <3>1. i # t /\ {t} \in SUBSET Nodes
      BY <2>3, NotBehind, SuccessorsType
    <3> QED
      BY <1>8, <2>3, <3>1, OccupiedAdvance DEF HandlerFails, At
  <2> QED
    BY <1>8, <2>1, <2>2, <2>3 DEF HandlerFails
<1>9. CASE WritePause(r, n)
  BY <1>3, <1>9 DEF WritePause, LeavePaused
<1>10. CASE StatementRaises(r, n)
  <2>1. PICK stage \in Stages : StopBranch(r, n, stage)
    BY <1>10 DEF StatementRaises
  <2> QED
    BY <1>3, <2>1 DEF StopBranch
<1> QED
  BY <1>4, <1>5, <1>6, <1>7, <1>8, <1>9, <1>10 DEF NodeStep

\* What a node's step leaves alone: the other runs, and every run's beginning.
LEMMA NodeStepFrame ==
  ASSUME TypeOK, NEW r \in Runs, NEW n \in Nodes, NodeStep(r, n)
  PROVE  /\ pc[r] = "active" /\ pc' = pc /\ origin' = origin
         /\ \A j \in Runs : j # r => at'[j] = at[j]
         /\ \A j \in Runs, i \in Nodes : ran'[j][i] # ran[j][i] => j = r /\ Occupied(at[r], i)
<1>1. /\ pc[r] = "active" /\ pc' = pc /\ origin' = origin
  BY DEF NodeStep, BeginBranch, Enter, HandlerSucceeds, HandlerWaits, HandlerFails, WritePause,
         StatementRaises, At
<1>2. \E counts : Moves(r, counts)
  BY DEF NodeStep, BeginBranch, Enter, HandlerSucceeds, HandlerWaits, HandlerFails, WritePause,
         StatementRaises, Advance, StopBranch, LeavePaused
<1>3. \A j \in Runs : j # r => at'[j] = at[j]
  BY <1>2 DEF Moves, TypeOK
<1>4. ASSUME NEW j \in Runs, NEW i \in Nodes, ran'[j][i] # ran[j][i]
      PROVE  j = r /\ Occupied(at[r], i)
  <2>1. HandlerSucceeds(r, n)
    BY <1>4 DEF NodeStep, BeginBranch, Enter, HandlerWaits, HandlerFails, WritePause,
                StatementRaises
  <2>2. ran' = [ran EXCEPT ![r][n] = IF @ < 2 THEN @ + 1 ELSE 2]
    BY <2>1 DEF HandlerSucceeds
  <2>3. j = r /\ i = n
    BY <1>4, <2>2 DEF TypeOK
  <2> QED
    BY <2>1, <2>3 DEF HandlerSucceeds, At, Occupied, Stages
<1> QED
  BY <1>1, <1>3, <1>4

LEMMA NextPauseInv ==
  TypeOK /\ PauseInv /\ FreshRuns /\ [Next]_vars => PauseInv' /\ FreshRuns'
<1> SUFFICES ASSUME TypeOK, PauseInv, FreshRuns, [Next]_vars PROVE PauseInv' /\ FreshRuns'
  OBVIOUS
<1>1. ASSUME NEW r \in Runs, NEW n \in Nodes, NodeStep(r, n) PROVE PauseInv' /\ FreshRuns'
  <2>1. FreshRuns'
    BY <1>1, NodeStepFrame DEF FreshRuns
  <2>2. ASSUME NEW j \in Runs, NEW i \in Nodes, Behind(i), Occupied(at'[j], i) \/ ran'[j][i] > 0
        PROVE  i \in origin'[j]
    <3>1. Occupied(at'[j], i) => Occupied(at[j], i)
      BY <1>1, <2>2, PauseInvNodeStep, NodeStepFrame
    <3>2. ran'[j][i] > 0 => ran[j][i] > 0 \/ Occupied(at[j], i)
      BY <1>1, NodeStepFrame
    <3> QED
      BY <1>1, <2>2, <3>1, <3>2, NodeStepFrame DEF PauseInv
  <2> QED
    BY <2>1, <2>2 DEF PauseInv, Behind, Incoming, Occupied
<1>2. CASE /\ UNCHANGED <<at, ctx, origin, ran, failed>>
           /\ \A r \in Runs : pc'[r] = "unused" => pc[r] = "unused"
  BY <1>2 DEF PauseInv, FreshRuns, Behind, Incoming, Occupied
<1>3. ASSUME NEW targets, NEW context, Spawn(targets, context) PROVE PauseInv' /\ FreshRuns'
  <2>1. PICK r \in Runs : /\ pc[r] = "unused"
                          /\ pc' = [pc EXCEPT ![r] = "active"]
                          /\ at' = [at EXCEPT ![r] = Schedule(Nowhere, targets)]
                          /\ origin' = [origin EXCEPT ![r] = targets]
                          /\ ran' = ran
    BY <1>3 DEF Spawn
  <2>2. FreshRuns'
    BY <2>1 DEF FreshRuns, TypeOK
  <2>3. ASSUME NEW j \in Runs, NEW i \in Nodes, Behind(i), Occupied(at'[j], i) \/ ran'[j][i] > 0
        PROVE  i \in origin'[j]
    <3>1. CASE j = r
      <4>1. ran'[r][i] = 0
        BY <2>1 DEF FreshRuns
      <4>2. Occupied(Schedule(Nowhere, targets), i)
        BY <2>1, <2>3, <3>1, <4>1 DEF TypeOK
      <4>3. ~Occupied(Nowhere, i)
        BY DEF Occupied, Nowhere
      <4>4. i \in targets
        BY <4>2, <4>3, OccupiedSchedule, NowhereType
      <4> QED
        BY <2>1, <3>1, <4>4 DEF TypeOK
    <3>2. CASE j # r
      BY <2>1, <2>3, <3>2 DEF PauseInv, TypeOK
    <3> QED
      BY <3>1, <3>2
  <2> QED
    BY <2>2, <2>3 DEF PauseInv, Behind, Incoming, Occupied
<1> QED
  BY <1>1, <1>2, <1>3, OutsideStep

\* A run that pauses at a gate or a form does not go past it by itself.
THEOREM PausesStand == Spec => []BehindPauseNeedsResume
<1>1. Init => PauseInv /\ FreshRuns
  BY DEF Init, PauseInv, FreshRuns, Occupied, Nowhere
<1>2. PauseInv => BehindPauseNeedsResume
  BY DEF PauseInv, BehindPauseNeedsResume, Behind
<1> QED
  BY <1>1, <1>2, InitTypeOK, NextTypeOK, NextPauseInv, PTL DEF Spec

-----------------------------------------------------------------------------
(* Nothing is left undone: a node all of whose predecessors are complete is
   complete, has a branch on its way, or paused, until some branch fails. *)

Pausing == {"gate", "edl", "form", "delay"}

\* An edge that is followed whenever its source completes.
Plain(e) ==
    /\ e.handle = "default"
    /\ Kind[e.src] \notin {"condition", "end"}
    /\ ErrorPolicy[e.src] # "route_to_error"

Ready(n, done) == Incoming(n) # {} /\ \A e \in Incoming(n) : Plain(e) /\ e.src \in done

CarriesOn(counts, done) ==
    \A n \in Nodes : Ready(n, done) => n \in done \/ Occupied(counts, n) \/ Kind[n] \in Pausing

PausesRight(counts) == \A n \in Nodes : counts[n]["pausing"] > 0 => Kind[n] \in Pausing

\* The run that began at the trigger.
FirstRun ==
    /\ PausesRight(at[1])
    /\ ~failed[1] => CarriesOn(at[1], ctx[1].done)
    /\ pc[1] = "finalized" => at[1] = Nowhere

\* Until it begins no request has anything to resume: no other run is the first.
Unstarted ==
    pc[1] = "unused" =>
        /\ status = "none"
        /\ \A r \in Runs : pc[r] = "unused"
        /\ \A q \in Requests : req[q].pc = "new"

\* While it is the only run, its outcome is the only one that is reported.
Reported ==
    status = "completed" /\ pc[1] = "finalized" /\ (\A r \in Runs \ {1} : pc[r] = "unused")
        => ~failed[1]

LEMMA FirstIsRun == 1 \in Runs
  BY FiniteAssumption, FS_CardinalityType DEF Runs

LEMMA OccupiedStays ==
  ASSUME NEW counts \in Counts, NEW n \in Nodes, NEW i \in Nodes, Occupied(counts, i)
  PROVE  /\ \A stage \in Stages : i # n => Occupied(Leaves(counts, n, stage), i)
         /\ \A stage \in Stages : Occupied(Joins(counts, n, stage), i)
         /\ \A done : Occupied(Reach(counts, n, done), i)
         /\ \A targets : Occupied(Schedule(counts, targets), i)
<1>1. PICK s \in Stages : counts[i][s] > 0
  BY DEF Occupied
<1>2. counts[i] \in [Stages -> Nat]
  BY DEF Counts
<1>3. ASSUME NEW stage \in Stages, i # n PROVE Occupied(Leaves(counts, n, stage), i)
  BY <1>1, <1>3 DEF Occupied, Leaves, Counts
<1>4. ASSUME NEW stage \in Stages PROVE Occupied(Joins(counts, n, stage), i)
  <2>1. Joins(counts, n, stage)[i][s] >= counts[i][s]
    BY <1>1, <1>2 DEF Joins, Counts
  <2> QED
    BY <1>1, <1>2, <2>1, JoinsType DEF Occupied, Counts
<1>5. ASSUME NEW done PROVE Occupied(Reach(counts, n, done), i)
  BY <1>4 DEF Reach, Stages
<1>6. ASSUME NEW targets PROVE Occupied(Schedule(counts, targets), i)
  <2>1. Schedule(counts, targets)[i][s] >= counts[i][s]
    BY <1>1, <1>2 DEF Schedule
  <2> QED
    BY <1>1, <1>2, <2>1, ScheduleType DEF Occupied, Counts
<1> QED
  BY <1>3, <1>4, <1>5, <1>6

LEMMA JoinsOccupies ==
  ASSUME NEW counts \in Counts, NEW n \in Nodes, NEW stage \in Stages
  PROVE  Occupied(Joins(counts, n, stage), n)
  BY DEF Occupied, Joins, Counts

\* Whoever may enter is on its way once its predecessor goes on.
LEMMA ContinueOccupies ==
  ASSUME NEW counts \in Counts, NEW targets \in SUBSET Nodes, NEW done,
         NEW i \in targets, MayEnter(i, done)
  PROVE  Occupied(Continue(counts, targets, done), i)
<1>1. CASE Cardinality(targets) = 1
  <2>1. IsFiniteSet(targets)
    BY FiniteAssumption, FS_Subset
  <2>2. PICK m : targets = {m}
    BY <1>1, <2>1, FS_Singleton
  <2>3. (CHOOSE n \in targets : TRUE) = i
    BY <2>2
  <2> QED
    BY <1>1, <2>3, JoinsOccupies DEF Continue, Reach, Stages
<1>2. CASE Cardinality(targets) # 1
  <2>1. Schedule(counts, targets)[i]["scheduled"] = counts[i]["scheduled"] + 1
    BY DEF Schedule, Counts, Stages
  <2> QED
    BY <1>2, <2>1 DEF Continue, Occupied, Counts, Stages
<1> QED
  BY <1>1, <1>2

LEMMA ContinueKeeps ==
  ASSUME NEW counts \in Counts, NEW targets \in SUBSET Nodes, NEW done,
         NEW i \in Nodes, Occupied(counts, i)
  PROVE  Occupied(Continue(counts, targets, done), i)
<1>1. CASE Cardinality(targets) = 1
  <2>1. (CHOOSE n \in targets : TRUE) \in Nodes
    BY <1>1, SoleTarget
  <2> QED
    BY <1>1, <2>1, OccupiedStays DEF Continue
<1>2. CASE Cardinality(targets) # 1
  BY <1>2, OccupiedStays DEF Continue
<1> QED
  BY <1>1, <1>2

\* A node completes and the branch follows every plain edge that leaves it.
LEMMA CarriesOnAdvance ==
  ASSUME TypeOK, NEW r \in Runs, NEW n \in Nodes, NEW targets \in SUBSET Nodes,
         at[r][n]["executing"] > 0, Advance(r, n, targets),
         \A e \in Edges : e.src = n /\ Plain(e) => e.dst \in targets,
         CarriesOn(at[r], ctx[r].done)
  PROVE  CarriesOn(at'[r], ctx'[r].done)
<1> DEFINE left == Leaves(at[r], n, "executing")
           done == ctx[r].done \cup {n}
<1>1. at[r] \in Counts
  BY DEF TypeOK, Counts
<1>2. left \in Counts
  BY <1>1, LeavesType DEF Stages
<1>3. at'[r] = Continue(left, targets, done) /\ ctx'[r].done = done
  BY DEF Advance, Moves, TypeOK, Context
<1>4. ASSUME NEW i \in Nodes, Ready(i, done), i \notin done, Kind[i] \notin Pausing
      PROVE  Occupied(Continue(left, targets, done), i)
  <2>1. MayEnter(i, done)
    BY <1>4 DEF Ready, MayEnter
  <2>2. CASE Ready(i, ctx[r].done)
    <3>1. Occupied(at[r], i) /\ i # n
      BY <1>4, <2>2 DEF CarriesOn
    <3>2. Occupied(left, i)
      BY <1>1, <3>1, OccupiedStays DEF Stages
    <3> QED
      BY <1>2, <3>2, ContinueKeeps
  <2>3. CASE ~Ready(i, ctx[r].done)
    <3>1. PICK e \in Incoming(i) : e.src = n /\ Plain(e)
      BY <1>4, <2>3 DEF Ready
    <3>2. i \in targets
      BY <3>1 DEF Incoming
    <3> QED
      BY <1>2, <2>1, <3>2, ContinueOccupies
  <2> QED
    BY <2>2, <2>3
<1> HIDE DEF left, done
<1> QED
  BY <1>3, <1>4 DEF CarriesOn

\* Pauses stay right wherever no branch comes to pause.
LEMMA PausesRightSteps ==
  ASSUME NEW counts \in Counts, NEW n \in Nodes, PausesRight(counts)
  PROVE  /\ \A stage \in Stages : PausesRight(Leaves(counts, n, stage))
         /\ \A stage \in Stages :
              stage # "pausing" \/ Kind[n] \in Pausing => PausesRight(Joins(counts, n, stage))
         /\ \A done : PausesRight(Reach(counts, n, done))
         /\ \A targets : PausesRight(Schedule(counts, targets))
<1>1. ASSUME NEW stage \in Stages PROVE PausesRight(Leaves(counts, n, stage))
  BY DEF PausesRight, Leaves, Counts, Stages
<1>2. ASSUME NEW stage \in Stages, stage # "pausing" \/ Kind[n] \in Pausing
      PROVE  PausesRight(Joins(counts, n, stage))
  BY <1>2 DEF PausesRight, Joins, Counts, Stages
<1>3. ASSUME NEW done PROVE PausesRight(Reach(counts, n, done))
  BY <1>2 DEF Reach, Stages
<1>4. ASSUME NEW targets PROVE PausesRight(Schedule(counts, targets))
  BY DEF PausesRight, Schedule, Counts, Stages
<1> QED
  BY <1>1, <1>2, <1>3, <1>4

LEMMA PausesRightAdvance ==
  ASSUME TypeOK, NEW r \in Runs, NEW n \in Nodes, NEW targets \in SUBSET Nodes,
         at[r][n]["executing"] > 0, Advance(r, n, targets), PausesRight(at[r])
  PROVE  PausesRight(at'[r])
<1> DEFINE left == Leaves(at[r], n, "executing")
           done == ctx[r].done \cup {n}
<1>1. at[r] \in Counts
  BY DEF TypeOK, Counts
<1>2. left \in Counts /\ PausesRight(left)
  BY <1>1, LeavesType, PausesRightSteps DEF Stages
<1>3. at'[r] = Continue(left, targets, done)
  BY DEF Advance, Moves, TypeOK
<1> HIDE DEF left, done
<1>4. CASE Cardinality(targets) = 1
  <2>1. (CHOOSE m \in targets : TRUE) \in Nodes
    BY <1>4, SoleTarget
  <2> QED
    BY <1>2, <1>3, <1>4, <2>1, PausesRightSteps DEF Continue
<1>5. CASE Cardinality(targets) # 1
  BY <1>2, <1>3, <1>5, PausesRightSteps DEF Continue
<1> QED
  BY <1>4, <1>5

\* The first run takes a step at node n.
LEMMA FirstRunSteps ==
  ASSUME TypeOK, FirstRun, NEW n \in Nodes, NodeStep(1, n)
  PROVE  PausesRight(at'[1]) /\ (~failed'[1] => CarriesOn(at'[1], ctx'[1].done))
<1> USE FirstIsRun DEF Stages
<1>1. at[1] \in Counts /\ PausesRight(at[1])
  BY DEF TypeOK, Counts, FirstRun
<1>2. \A counts : Moves(1, counts) => at'[1] = counts
  BY DEF Moves, TypeOK
<1>3. ~failed[1] => CarriesOn(at[1], ctx[1].done)
  BY DEF FirstRun
\* A branch that only changes its stage, or lets go of a node that may be let go.
<1>4. ASSUME NEW counts, Moves(1, counts), PausesRight(counts), UNCHANGED <<ctx, failed>>,
             \A i \in Nodes : /\ Ready(i, ctx[1].done) /\ Occupied(at[1], i)
                              => Occupied(counts, i) \/ Kind[i] \in Pausing
      PROVE  PausesRight(at'[1]) /\ (~failed'[1] => CarriesOn(at'[1], ctx'[1].done))
  BY <1>2, <1>3, <1>4 DEF CarriesOn
<1>5. ASSUME NEW stage \in Stages, StopBranch(1, n, stage)
      PROVE  PausesRight(at'[1]) /\ failed'[1]
  BY <1>1, <1>2, <1>5, PausesRightSteps DEF StopBranch, TypeOK
<1>6. CASE BeginBranch(1, n)
  <2> DEFINE left == Leaves(at[1], n, "scheduled")
             counts == Reach(left, n, ctx[1].done)
  <2>1. left \in Counts /\ PausesRight(left)
    BY <1>1, <1>6, LeavesType, PausesRightSteps DEF BeginBranch, At
  <2>2. PausesRight(counts)
    BY <2>1, PausesRightSteps
  <2>3. ASSUME NEW i \in Nodes, Ready(i, ctx[1].done), Occupied(at[1], i) PROVE Occupied(counts, i)
    <3>1. CASE i = n
      <4>1. MayEnter(n, ctx[1].done)
        BY <2>3, <3>1 DEF Ready, MayEnter
      <4> QED
        BY <2>1, <3>1, <4>1, JoinsOccupies DEF Reach
    <3>2. CASE i # n
      BY <1>1, <2>1, <2>3, <3>2, OccupiedStays
    <3> QED
      BY <3>1, <3>2
  <2>4. Moves(1, counts) /\ UNCHANGED <<ctx, failed>>
    BY <1>6 DEF BeginBranch
  <2> HIDE DEF counts, left
  <2> QED
    BY <2>2, <2>3, <2>4, <1>4
<1>7. ASSUME NEW stage \in Stages, NEW next \in Stages, next # "pausing" \/ Kind[n] \in Pausing,
             at[1][n][stage] > 0, Moves(1, Joins(Leaves(at[1], n, stage), n, next)),
             UNCHANGED <<ctx, failed>>
      PROVE  PausesRight(at'[1]) /\ (~failed'[1] => CarriesOn(at'[1], ctx'[1].done))
  <2> DEFINE left == Leaves(at[1], n, stage)
             counts == Joins(left, n, next)
  <2>1. left \in Counts /\ PausesRight(left)
    BY <1>1, <1>7, LeavesType, PausesRightSteps
  <2>2. PausesRight(counts)
    BY <1>7, <2>1, PausesRightSteps
  <2>3. ASSUME NEW i \in Nodes, Occupied(at[1], i) PROVE Occupied(counts, i)
    <3>1. CASE i = n
      BY <2>1, <3>1, JoinsOccupies
    <3>2. CASE i # n
      BY <1>1, <2>1, <2>3, <3>2, OccupiedStays
    <3> QED
      BY <3>1, <3>2
  <2>4. Moves(1, counts)
    BY <1>7
  <2> HIDE DEF counts, left
  <2> QED
    BY <1>7, <2>2, <2>3, <2>4, <1>4
<1>8. CASE Enter(1, n)
  BY <1>8, <1>7 DEF Enter, At
<1>9. CASE HandlerWaits(1, n)
  BY <1>9, <1>7 DEF HandlerWaits, At, Pausing
<1>10. CASE WritePause(1, n)
  <2>1. Kind[n] \in Pausing
    BY <1>1, <1>10 DEF WritePause, At, PausesRight
  <2>2. PausesRight(Leaves(at[1], n, "pausing"))
    BY <1>1, PausesRightSteps
  <2>3. \A i \in Nodes : Occupied(at[1], i)
                           => Occupied(Leaves(at[1], n, "pausing"), i) \/ Kind[i] \in Pausing
    BY <1>1, <2>1, OccupiedStays
  <2> QED
    BY <1>10, <2>2, <2>3, <1>4 DEF WritePause, LeavePaused
<1>11. CASE StatementRaises(1, n)
  BY <1>11, <1>5 DEF StatementRaises
<1>12. ASSUME NEW targets \in SUBSET Nodes, at[1][n]["executing"] > 0, Advance(1, n, targets),
              failed' = failed, \A e \in Edges : e.src = n /\ Plain(e) => e.dst \in targets
       PROVE  PausesRight(at'[1]) /\ (~failed'[1] => CarriesOn(at'[1], ctx'[1].done))
  <2>1. PausesRight(at'[1])
    BY <1>1, <1>12, PausesRightAdvance
  <2>2. CarriesOn(at[1], ctx[1].done) => CarriesOn(at'[1], ctx'[1].done)
    BY <1>12, CarriesOnAdvance
  <2> QED
    BY <1>3, <1>12, <2>1, <2>2
<1>13. \A e \in Edges : e.src = n /\ Plain(e) => e.dst \in Successors(n, "none")
  BY DEF Plain, Successors, NextNodes
<1>14. CASE HandlerSucceeds(1, n)
  <2>1. PICK branch \in (IF Kind[n] = "condition" THEN {"yes", "no"} ELSE {"none"}) :
             Advance(1, n, Successors(n, branch))
    BY <1>14 DEF HandlerSucceeds
  <2>2. \A e \in Edges : e.src = n /\ Plain(e) => e.dst \in Successors(n, branch)
    BY <2>1, <1>13 DEF Plain
  <2> QED
    BY <1>14, <2>1, <2>2, <1>12, SuccessorsType DEF HandlerSucceeds, At
<1>15. CASE HandlerFails(1, n)
  <2>1. CASE StopBranch(1, n, "executing")
    BY <2>1, <1>5
  <2>2. CASE Advance(1, n, Successors(n, "none")) /\ UNCHANGED failed
    BY <1>15, <2>2, <1>12, <1>13, SuccessorsType DEF HandlerFails, At
  <2>3. ASSUME ErrorPolicy[n] = "route_to_error", NEW t \in ErrorTargets(n), Advance(1, n, {t}),
               UNCHANGED failed
        PROVE  PausesRight(at'[1]) /\ (~failed'[1] => CarriesOn(at'[1], ctx'[1].done))
    <3>1. {t} \in SUBSET Nodes
      BY SuccessorsType
    <3>2. \A e \in Edges : e.src = n /\ Plain(e) => e.dst \in {t}
      BY <2>3 DEF Plain
    <3> QED
      BY <1>15, <2>3, <3>1, <3>2, <1>12 DEF HandlerFails, At
  <2> QED
    BY <1>15, <2>1, <2>2, <2>3 DEF HandlerFails
<1> QED
  BY <1>6, <1>8, <1>9, <1>10, <1>11, <1>14, <1>15 DEF NodeStep

\* Another run's step leaves the first alone.
LEMMA OtherRunsStay ==
  ASSUME TypeOK, NEW r \in Runs, NEW n \in Nodes, NodeStep(r, n), NEW j \in Runs, j # r
  PROVE  at'[j] = at[j] /\ ctx'[j] = ctx[j] /\ failed'[j] = failed[j]
<1>1. at'[j] = at[j]
  BY NodeStepFrame
<1>2. ctx' = ctx \/ \E c : ctx' = [ctx EXCEPT ![r] = c]
  BY DEF NodeStep, BeginBranch, Enter, HandlerSucceeds, HandlerWaits, HandlerFails, WritePause,
         StatementRaises, Advance
<1>3. failed' = failed \/ failed' = [failed EXCEPT ![r] = TRUE]
  BY DEF NodeStep, BeginBranch, Enter, HandlerSucceeds, HandlerWaits, HandlerFails, WritePause,
         StatementRaises, StopBranch
<1>4. ctx'[j] = ctx[j]
  BY <1>2 DEF TypeOK
<1>5. failed'[j] = failed[j]
  BY <1>3 DEF TypeOK
<1> QED
  BY <1>1, <1>4, <1>5

LEMMA NextFirstRun == TypeOK /\ Unstarted /\ FirstRun /\ [Next]_vars => FirstRun'
<1> SUFFICES ASSUME TypeOK, Unstarted, FirstRun, [Next]_vars PROVE FirstRun'
  OBVIOUS
<1> USE FirstIsRun
<1>0. ASSUME NEW counts, NEW done, at'[1] = counts, ctx'[1].done = done, PausesRight(counts),
             ~failed'[1] => CarriesOn(counts, done), pc'[1] = "finalized" => counts = Nowhere
      PROVE  FirstRun'
  BY <1>0 DEF FirstRun, PausesRight, CarriesOn, Ready, Incoming, Plain, Occupied, Nowhere
<1>1. ASSUME NEW r \in Runs, NEW n \in Nodes, NodeStep(r, n) PROVE FirstRun'
  <2>1. CASE r = 1
    BY <1>0, <1>1, <2>1, FirstRunSteps, NodeStepFrame
  <2>2. CASE r # 1
    BY <1>0, <1>1, <2>2, OtherRunsStay, NodeStepFrame DEF FirstRun
  <2> QED
    BY <2>1, <2>2
<1>2. ASSUME NEW r \in Runs, Finalize(r) PROVE FirstRun'
  <2>1. UNCHANGED <<at, ctx, failed>> /\ (pc'[1] = "finalized" => at[1] = Nowhere)
    BY <1>2 DEF Finalize, FirstRun, TypeOK
  <2> QED
    BY <1>0, <2>1 DEF FirstRun
<1>3. ASSUME UNCHANGED tasks \/ Crash PROVE FirstRun'
  <2>1. UNCHANGED <<at, ctx, failed>> /\ (pc'[1] = "finalized" => pc[1] = "finalized")
    BY <1>3 DEF tasks, Crash
  <2> QED
    BY <1>0, <2>1 DEF FirstRun
<1>4. ASSUME NEW targets, NEW context, Spawn(targets, context), pc[1] # "unused" PROVE FirstRun'
  <2>1. /\ at'[1] = at[1] /\ ctx'[1] = ctx[1] /\ failed'[1] = failed[1]
        /\ pc'[1] = pc[1]
    BY <1>4 DEF Spawn, TypeOK
  <2> QED
    BY <1>0, <2>1 DEF FirstRun
<1>5. CASE StartExecution
  <2>1. PICK r \in Runs : /\ pc[r] = "unused" /\ \A k \in 1..(r - 1) : pc[k] # "unused"
                          /\ pc' = [pc EXCEPT ![r] = "active"]
                          /\ at' = [at EXCEPT ![r] = Schedule(Nowhere, {Start})]
                          /\ ctx' = [ctx EXCEPT ![r] = NewContext]
    BY <1>5 DEF StartExecution, Spawn
  <2>2. CASE r = 1
    <3>1. /\ at'[1] = Schedule(Nowhere, {Start}) /\ ctx'[1] = NewContext /\ pc'[1] = "active"
      BY <2>1, <2>2 DEF TypeOK
    <3>2. NewContext.done = {}
      BY DEF NewContext, Context
    <3>3. CarriesOn(Schedule(Nowhere, {Start}), {})
      BY DEF CarriesOn, Ready
    <3>4. PausesRight(Nowhere) /\ Start \in Nodes
      BY GraphAssumption DEF PausesRight, Nowhere, Stages
    <3>5. PausesRight(Schedule(Nowhere, {Start}))
      BY <3>4, PausesRightSteps, NowhereType
    <3> QED
      BY <1>0, <3>1, <3>2, <3>3, <3>5
  <2>3. CASE r # 1
    <3>1. pc[1] # "unused"
      BY <2>1, <2>3 DEF Runs
    <3> QED
      BY <1>4, <1>5, <3>1 DEF StartExecution
  <2> QED
    BY <2>2, <2>3
<1>6. ASSUME NEW q \in Requests, RequestStep(q) PROVE FirstRun'
  <2>1. CASE ResumeWrite(q)
    <3>1. pc[1] # "unused"
      BY <2>1 DEF ResumeWrite, Unstarted
    <3> QED
      BY <2>1, <3>1, <1>3, <1>4 DEF ResumeWrite
  <2>2. CASE ~ResumeWrite(q)
    BY <1>3, <1>6, <2>2 DEF RequestStep, Approve, Reject, Submit, ResumeRead, RejectFails, Cancel
  <2> QED
    BY <2>1, <2>2
<1>7. CASE UNCHANGED vars
  BY <1>3, <1>7 DEF vars
<1>8. CASE Crash
  BY <1>3, <1>8
<1> QED
  BY <1>1, <1>2, <1>5, <1>6, <1>7, <1>8 DEF Next, RunStep, RequestStep

LEMMA NextUnstarted == TypeOK /\ Unstarted /\ [Next]_vars => Unstarted'
<1> SUFFICES ASSUME TypeOK, Unstarted, [Next]_vars, pc'[1] = "unused"
             PROVE  /\ status' = "none"
                    /\ \A r \in Runs : pc'[r] = "unused"
                    /\ \A q \in Requests : req'[q].pc = "new"
  BY DEF Unstarted
<1> USE FirstIsRun
<1>1. CASE UNCHANGED vars
  BY <1>1 DEF vars, row, tasks, Unstarted
<1>2. ASSUME StartExecution PROVE FALSE
  <2>1. PICK r \in Runs : /\ \A k \in 1..(r - 1) : pc[k] # "unused"
                          /\ pc' = [pc EXCEPT ![r] = "active"]
    BY <1>2 DEF StartExecution, Spawn
  <2>2. r # 1 /\ pc[1] = "unused"
    BY <2>1 DEF TypeOK
  <2>3. 1 \in 1..(r - 1)
    BY <2>2 DEF Runs
  <2> QED
    BY <2>1, <2>2, <2>3
<1>3. ASSUME NEW q \in Requests, RequestStep(q) PROVE FALSE
  <2>1. ~(pc[1] = "unused")
    BY <1>3 DEF RequestStep, Approve, Reject, Submit, ResumeRead, ResumeWrite, RejectFails, Cancel, Unstarted
  <2>2. tasks' = tasks \/ \E targets, context : Spawn(targets, context)
    BY <1>3 DEF RequestStep, Approve, Reject, Submit, ResumeRead, ResumeWrite, RejectFails, Cancel
  <2>3. pc'[1] # "unused"
    BY <2>1, <2>2 DEF tasks, Spawn, TypeOK
  <2> QED
    BY <2>3
<1>4. ASSUME Crash \/ \E r \in Runs : RunStep(r) PROVE FALSE
  <2>1. PICK r \in Runs : pc[r] = "active"
    BY <1>4 DEF Crash, RunStep, Finalize, NodeStep, BeginBranch, Enter, HandlerSucceeds, HandlerWaits,
       HandlerFails, WritePause, StatementRaises, At
  <2>2. pc[1] # "unused"
    BY <2>1 DEF Unstarted
  <2>3. pc'[1] # "unused"
    <3>1. CASE Crash
      BY <2>2, <3>1 DEF Crash, TypeOK
    <3>2. ASSUME NEW i \in Runs, Finalize(i) PROVE pc'[1] # "unused"
      BY <2>2, <3>2 DEF Finalize, TypeOK
    <3>3. ASSUME NEW i \in Runs, NEW n \in Nodes, NodeStep(i, n) PROVE pc'[1] # "unused"
      BY <2>2, <3>3, NodeStepFrame
    <3> QED
      BY <1>4, <3>1, <3>2, <3>3 DEF RunStep
  <2> QED
    BY <2>3
<1> QED
  BY <1>1, <1>2, <1>3, <1>4 DEF Next, RequestStep

LEMMA NextReported == TypeOK /\ Reported /\ [Next]_vars => Reported'
<1> SUFFICES ASSUME TypeOK, Reported, [Next]_vars, status' = "completed", pc'[1] = "finalized",
                    \A r \in Runs \ {1} : pc'[r] = "unused"
             PROVE  ~failed'[1]
  BY DEF Reported
<1> USE FirstIsRun
\* A step that reports nothing and leaves the runs alone.
<1>1. ASSUME UNCHANGED <<status, tasks>> PROVE ~failed'[1]
  BY <1>1 DEF tasks, Reported
<1>2. ASSUME NEW r \in Runs, NEW n \in Nodes, NodeStep(r, n) PROVE FALSE
  <2>1. pc[r] = "active" /\ pc' = pc
    BY <1>2, NodeStepFrame
  <2> QED
    BY <2>1
<1>3. ASSUME NEW r \in Runs, Finalize(r) PROVE ~failed'[1]
  <2>1. pc'[r] = "finalized"
    BY <1>3 DEF Finalize, TypeOK
  <2>2. r = 1
    BY <2>1
  <2>3. "completed" = Outcome(1) /\ failed' = failed
    BY <1>3, <2>2 DEF Finalize
  <2>4. ~failed[1]
    BY <2>3 DEF Outcome
  <2> QED
    BY <2>3, <2>4
<1>4. CASE StartExecution
  BY <1>4 DEF StartExecution
<1>5. CASE Crash
  <2>1. UNCHANGED <<status, failed>>
    BY <1>5 DEF Crash, row
  <2>2. \A r \in Runs : pc'[r] # "lost" => pc[r] = pc'[r]
    BY <1>5 DEF Crash, TypeOK
  <2>3. status = "completed" /\ pc[1] = "finalized" /\ \A r \in Runs \ {1} : pc[r] = "unused"
    BY <2>1, <2>2
  <2> QED
    BY <2>1, <2>3 DEF Reported
<1>6. ASSUME NEW q \in Requests, RequestStep(q) PROVE ~failed'[1]
  <2>1. UNCHANGED <<status, tasks>>
    BY <1>6 DEF RequestStep, Approve, Reject, Submit, ResumeRead, ResumeWrite, RejectFails, Cancel, row
  <2> QED
    BY <2>1, <1>1
<1>7. CASE UNCHANGED vars
  BY <1>1, <1>7 DEF vars, row
<1> QED
  BY <1>2, <1>3, <1>4, <1>5, <1>6, <1>7 DEF Next, RunStep, RequestStep

\* A playbook that is reported completed in one go has left nothing undone:
\* where a node's predecessors all completed, the node completed, or it paused.
THEOREM NothingLeftUndone == Spec => []CompletedLeavesNothing
<1>1. Init => FirstRun /\ Unstarted /\ Reported
  <2> SUFFICES ASSUME Init PROVE FirstRun /\ Unstarted /\ Reported
    OBVIOUS
  <2> USE FirstIsRun
  <2>1. at[1] = Nowhere /\ ctx[1] = NewContext /\ NewContext.done = {}
    BY DEF Init, NewContext, Context
  <2>2. PausesRight(Nowhere) /\ CarriesOn(Nowhere, {})
    BY DEF PausesRight, CarriesOn, Ready, Nowhere, Stages
  <2>3. FirstRun
    BY <2>1, <2>2 DEF FirstRun
  <2>4. Unstarted
    BY DEF Init, Unstarted, Request
  <2>5. Reported
    BY DEF Init, Reported
  <2> QED
    BY <2>3, <2>4, <2>5
<1>2. FirstRun /\ Reported => CompletedLeavesNothing
  <2> SUFFICES ASSUME FirstRun, ~failed[1], pc[1] = "finalized", NEW n \in Nodes, Ready(n, ctx[1].done)
               PROVE  n \in ctx[1].done \/ Kind[n] \in Pausing
    BY DEF CompletedLeavesNothing, Reported, Ready, Plain, Pausing
  <2>1. ~Occupied(Nowhere, n)
    BY DEF Occupied, Nowhere
  <2> QED
    BY <2>1 DEF FirstRun, CarriesOn
<1> QED
  BY <1>1, <1>2, InitTypeOK, NextTypeOK, NextFirstRun, NextUnstarted, NextReported, PTL DEF Spec

-----------------------------------------------------------------------------
(* Once per run: in a run from the trigger every node has one branch at most,
   and none once it is complete; a branch reaches a node when its predecessors
   are complete, and the last of them completes once. *)

Alone(counts) ==
    \A n \in Nodes : \A s, t \in Stages :
        counts[n][s] > 0 /\ counts[n][t] > 0 => s = t /\ counts[n][s] = 1

Fresh(counts, done) == \A n \in Nodes : Occupied(counts, n) => n \notin done

Led(counts, done) ==
    \A n \in Nodes \ {Start} :
        Occupied(counts, n) \/ n \in done => \A e \in Incoming(n) : e.src \in done

Orderly(counts, done) == Alone(counts) /\ Fresh(counts, done) /\ Led(counts, done)

RanOnce == \A n \in Nodes : ran[1][n] <= 1 /\ (ran[1][n] > 0 => n \in ctx[1].done)

OnceInv ==
    /\ Orderly(at[1], ctx[1].done)
    /\ RanOnce
    /\ pc[1] = "unused" => \A n \in Nodes : ran[1][n] = 0

\* A node that is no convergence point has one incoming edge at most.
LEMMA SoleIncoming ==
  ASSUME NEW n \in Nodes, ~(Cardinality(Incoming(n)) > 1), NEW e \in Incoming(n)
  PROVE  Incoming(n) = {e}
<1> DEFINE sources == [d \in Incoming(n) |-> d.src]
<1>1. sources \in [Incoming(n) -> Nodes]
  BY GraphAssumption DEF Incoming
<1>2. \A c, d \in Incoming(n) : sources[c] = sources[d] => c = d
  BY GraphAssumption DEF Incoming
<1>3. sources \in Injection(Incoming(n), Nodes)
  BY <1>1, <1>2 DEF Injection, IsInjective
<1>4. IsFiniteSet(Incoming(n))
  BY <1>3, FiniteAssumption, FS_Injection
<1>5. Cardinality(Incoming(n)) \in Nat /\ Cardinality(Incoming(n)) # 0
  BY <1>4, FS_CardinalityType, FS_EmptySet
<1>6. Cardinality(Incoming(n)) = 1
  BY <1>5
<1>7. PICK d : Incoming(n) = {d}
  BY <1>4, <1>6, FS_Singleton
<1> QED
  BY <1>7

\* The count that a branch leaves goes to zero: the node is free.
LEMMA AloneLeaves ==
  ASSUME NEW counts \in Counts, Alone(counts), NEW n \in Nodes, NEW stage \in Stages,
         counts[n][stage] > 0
  PROVE  /\ ~Occupied(Leaves(counts, n, stage), n)
         /\ \A i \in Nodes \ {n} : Leaves(counts, n, stage)[i] = counts[i]
<1>1. counts[n][stage] = 1 /\ \A t \in Stages \ {stage} : ~(counts[n][t] > 0)
  BY DEF Alone
<1>2. Leaves(counts, n, stage)[n] = [counts[n] EXCEPT ![stage] = counts[n][stage] - 1]
  BY DEF Leaves, Counts
<1>3. counts[n] \in [Stages -> Nat]
  BY DEF Counts
<1>4. \A t \in Stages : ~(Leaves(counts, n, stage)[n][t] > 0)
  BY <1>1, <1>2, <1>3
<1> QED
  BY <1>4 DEF Occupied, Leaves, Counts

\* A free node gets one branch.
LEMMA AloneArrives ==
  ASSUME NEW here \in [Stages -> Nat], \A t \in Stages : ~(here[t] > 0),
         NEW stage \in Stages, NEW there, there = [here EXCEPT ![stage] = @ + 1]
  PROVE  \A s, t \in Stages : there[s] > 0 /\ there[t] > 0 => s = t /\ there[s] = 1
<1>1. \A t \in Stages : here[t] = 0
  OBVIOUS
<1>2. \A t \in Stages : there[t] = IF t = stage THEN 1 ELSE 0
  BY <1>1
<1> QED
  BY <1>2

\* A branch moves at its node, or leaves it, or passes the merge check there.
LEMMA OrderlyMove ==
  ASSUME NEW counts \in Counts, NEW done, Orderly(counts, done), NEW n \in Nodes,
         NEW stage \in Stages, NEW next \in Stages, counts[n][stage] > 0
  PROVE  /\ Orderly(Leaves(counts, n, stage), done)
         /\ Orderly(Joins(Leaves(counts, n, stage), n, next), done)
<1> DEFINE left == Leaves(counts, n, stage)
           more == Joins(left, n, next)
<1>1. left \in Counts /\ more \in Counts
  BY LeavesType, JoinsType
<1>2. ~Occupied(left, n) /\ (\A i \in Nodes \ {n} : left[i] = counts[i]) /\ Occupied(counts, n)
  BY AloneLeaves DEF Orderly, Occupied
<1>3. more[n] = [left[n] EXCEPT ![next] = @ + 1] /\ \A i \in Nodes \ {n} : more[i] = left[i]
  BY <1>1 DEF Joins, Counts
<1> HIDE DEF left, more
<1>4. \A s, t \in Stages : more[n][s] > 0 /\ more[n][t] > 0 => s = t /\ more[n][s] = 1
  <2>1. left[n] \in [Stages -> Nat] /\ \A t \in Stages : ~(left[n][t] > 0)
    BY <1>1, <1>2 DEF Counts, Occupied
  <2> QED
    BY <2>1, <1>3, AloneArrives
<1>5. Orderly(left, done)
  BY <1>2 DEF Orderly, Alone, Fresh, Led, Occupied
<1>6. Orderly(more, done)
  <2>1. Alone(more)
    <3> SUFFICES ASSUME NEW i \in Nodes, NEW s \in Stages, NEW t \in Stages,
                        more[i][s] > 0, more[i][t] > 0
                 PROVE  s = t /\ more[i][s] = 1
      BY DEF Alone
    <3>1. CASE i = n
      BY <1>4, <3>1
    <3>2. CASE i # n
      BY <1>2, <1>3, <3>2 DEF Orderly, Alone
    <3> QED
      BY <3>1, <3>2
  <2>2. \A i \in Nodes : Occupied(more, i) => Occupied(counts, i)
    BY <1>2, <1>3 DEF Occupied
  <2> QED
    BY <2>1, <2>2 DEF Orderly, Fresh, Led
<1> QED
  BY <1>5, <1>6 DEF left, more

\* Node n completes and the branch goes on to targets.
LEMMA OrderlyContinue ==
  ASSUME NEW counts \in Counts, NEW done, Orderly(counts, done), NEW n \in Nodes,
         counts[n]["executing"] > 0, NEW targets \in SUBSET Nodes,
         \A m \in targets : m # Start /\ \E e \in Incoming(m) : e.src = n,
         \A m \in targets : Cardinality(Incoming(m)) > 1 => targets = {m}
  PROVE  /\ n \notin done
         /\ Orderly(Continue(Leaves(counts, n, "executing"), targets, done \cup {n}), done \cup {n})
<1> DEFINE left == Leaves(counts, n, "executing")
           all == done \cup {n}
           more == Continue(left, targets, all)
<1> USE DEF Stages
<1>1. left \in Counts /\ more \in Counts
  BY LeavesType, ContinueType
<1>2. ~Occupied(left, n) /\ (\A i \in Nodes \ {n} : left[i] = counts[i]) /\ Occupied(counts, n)
  BY AloneLeaves DEF Orderly, Occupied
<1>3. n \notin done
  BY <1>2 DEF Orderly, Fresh
\* None of the targets has been reached before: its predecessor n was not complete.
<1>4. \A m \in targets : m # n /\ m \notin done /\ ~Occupied(counts, m) /\ ~Occupied(left, m)
  <2> TAKE m \in targets
  <2>1. ~Occupied(counts, m) /\ m \notin done
    BY <1>3 DEF Orderly, Led
  <2>2. m # n
    BY <1>2, <2>1
  <2> QED
    BY <1>2, <2>1, <2>2 DEF Occupied
<1>5. Orderly(left, all)
  <2>1. Orderly(left, done)
    BY OrderlyMove
  <2>2. Fresh(left, all)
    BY <1>2, <2>1 DEF Orderly, Fresh
  <2>3. Led(left, all)
    <3> SUFFICES ASSUME NEW i \in Nodes \ {Start}, Occupied(left, i) \/ i \in all, NEW e \in Incoming(i)
                 PROVE  e.src \in all
      BY DEF Led
    <3>1. Occupied(counts, i) \/ i \in done
      BY <1>2 DEF Occupied
    <3> QED
      BY <3>1 DEF Orderly, Led
  <2> QED
    BY <2>1, <2>2, <2>3 DEF Orderly
\* One target, or each of several, gets a branch; a target with others to wait
\* for gets none yet.
<1>6. ASSUME NEW m \in Nodes, m \notin targets PROVE more[m] = left[m]
  <2>1. CASE Cardinality(targets) = 1
    <3>1. (CHOOSE i \in targets : TRUE) \in targets
      BY <2>1, SoleTarget
    <3> QED
      BY <1>1, <1>6, <2>1, <3>1 DEF Continue, Reach, Joins, Counts
  <2>2. CASE Cardinality(targets) # 1
    BY <1>6, <2>2 DEF Continue, Schedule
  <2> QED
    BY <2>1, <2>2
<1>7. ASSUME NEW m \in targets
      PROVE  \/ more[m] = left[m]
             \/ /\ \E stage \in Stages : more[m] = [left[m] EXCEPT ![stage] = @ + 1]
                /\ \A e \in Incoming(m) : e.src \in all
  <2>1. IsFiniteSet(targets)
    BY FiniteAssumption, FS_Subset
  <2>2. CASE Cardinality(targets) = 1
    <3>1. PICK i : targets = {i}
      BY <2>1, <2>2, FS_Singleton
    <3>2. (CHOOSE j \in targets : TRUE) = m
      BY <3>1
    <3>3. more = Reach(left, m, all)
      BY <2>2, <3>2 DEF Continue
    <3>4. CASE MayEnter(m, all)
      <4>1. more[m] = [left[m] EXCEPT !["entering"] = @ + 1]
        BY <1>1, <3>3, <3>4 DEF Reach, Joins, Counts
      <4>2. \A e \in Incoming(m) : e.src \in all
        <5>1. CASE Cardinality(Incoming(m)) > 1
          BY <3>4, <5>1 DEF MayEnter
        <5>2. CASE ~(Cardinality(Incoming(m)) > 1)
          <6>1. PICK e \in Incoming(m) : e.src = n
            OBVIOUS
          <6>2. Incoming(m) = {e}
            BY <5>2, SoleIncoming
          <6> QED
            BY <6>1, <6>2
        <5> QED
          BY <5>1, <5>2
      <4> QED
        BY <4>1, <4>2
    <3>5. CASE ~MayEnter(m, all)
      BY <3>3, <3>5 DEF Reach
    <3> QED
      BY <3>4, <3>5
  <2>3. CASE Cardinality(targets) # 1
    <3>1. ~(Cardinality(Incoming(m)) > 1)
      BY <2>3, FS_Singleton
    <3>2. PICK e \in Incoming(m) : e.src = n
      OBVIOUS
    <3>3. Incoming(m) = {e}
      BY <3>1, SoleIncoming
    <3>4. more[m] = [left[m] EXCEPT !["scheduled"] = @ + 1]
      BY <2>3 DEF Continue, Schedule
    <3> QED
      BY <3>2, <3>3, <3>4
  <2> QED
    BY <2>2, <2>3
<1> HIDE DEF left, more, all
<1>8. Alone(more)
  <2> SUFFICES ASSUME NEW m \in Nodes, NEW s \in Stages, NEW t \in Stages,
                      more[m][s] > 0, more[m][t] > 0
               PROVE  s = t /\ more[m][s] = 1
    BY DEF Alone
  <2>0. more[m][s] > 0 /\ more[m][t] > 0
    OBVIOUS
  <2>1. CASE more[m] = left[m]
    BY <1>5, <2>1 DEF Orderly, Alone
  <2>2. CASE more[m] # left[m]
    <3>1. m \in targets
      BY <1>6, <2>2
    <3>2. \E stage \in Stages : more[m] = [left[m] EXCEPT ![stage] = @ + 1]
      BY <1>7, <2>2, <3>1
    <3> QED
      <4>1. left[m] \in [Stages -> Nat] /\ \A i \in Stages : ~(left[m][i] > 0)
        BY <1>1, <1>4, <3>1 DEF Counts, Occupied
      <4>2. PICK stage \in Stages : more[m] = [left[m] EXCEPT ![stage] = @ + 1]
        BY <3>2
      <4> QED
        BY <4>1, <4>2, <2>0, AloneArrives
  <2> QED
    BY <2>1, <2>2
<1>9. Fresh(more, all)
  <2> SUFFICES ASSUME NEW m \in Nodes, Occupied(more, m) PROVE m \notin all
    BY DEF Fresh
  <2>1. CASE m \in targets
    BY <1>4, <2>1 DEF all
  <2>2. CASE m \notin targets
    BY <1>5, <1>6, <2>2 DEF Orderly, Fresh, Occupied
  <2> QED
    BY <2>1, <2>2
<1>10. Led(more, all)
  <2> SUFFICES ASSUME NEW m \in Nodes \ {Start}, Occupied(more, m) \/ m \in all, NEW e \in Incoming(m)
               PROVE  e.src \in all
    BY DEF Led
  <2>1. CASE more[m] = left[m]
    BY <1>5, <2>1 DEF Orderly, Led, Occupied
  <2>2. CASE more[m] # left[m]
    BY <1>6, <1>7, <2>2
  <2> QED
    BY <2>1, <2>2
<1> QED
  BY <1>3, <1>8, <1>9, <1>10 DEF Orderly, left, more, all

\* Every route that a node's outcome may take fits OrderlyContinue.
LEMMA RoutesFit ==
  ASSUME JoinsReachedAlone, NEW n \in Nodes, NEW targets,
         \/ \E branch \in Branches(n) : targets = Successors(n, branch)
         \/ \E t \in ErrorTargets(n) : targets = {t}
  PROVE  /\ targets \in SUBSET Nodes
         /\ \A m \in targets : m # Start /\ \E e \in Incoming(m) : e.src = n
         /\ \A m \in targets : Cardinality(Incoming(m)) > 1 => targets = {m}
<1>1. \A m \in targets : \E e \in Edges : e.src = n /\ e.dst = m
  BY DEF Successors, NextNodes, ErrorTargets
<1>2. targets \in SUBSET Nodes
  BY <1>1, GraphAssumption
<1>3. \A m \in targets : m # Start /\ \E e \in Incoming(m) : e.src = n
  BY <1>1 DEF JoinsReachedAlone, Incoming
<1>4. \A m \in targets : Cardinality(Incoming(m)) > 1 => targets = {m}
  <2>1. CASE \E branch \in Branches(n) : targets = Successors(n, branch)
    BY <2>1 DEF JoinsReachedAlone
  <2>2. CASE \E t \in ErrorTargets(n) : targets = {t}
    BY <2>2
  <2> QED
    BY <2>1, <2>2
<1> QED
  BY <1>2, <1>3, <1>4

LEMMA OnceAdvance ==
  ASSUME TypeOK, JoinsReachedAlone, OnceInv, NEW n \in Nodes, at[1][n]["executing"] > 0,
         NEW targets, Advance(1, n, targets),
         \/ \E branch \in Branches(n) : targets = Successors(n, branch)
         \/ \E t \in ErrorTargets(n) : targets = {t}
  PROVE  /\ n \notin ctx[1].done /\ ctx'[1].done = ctx[1].done \cup {n}
         /\ Orderly(at'[1], ctx'[1].done)
<1> DEFINE done == ctx[1].done
           more == Continue(Leaves(at[1], n, "executing"), targets, done \cup {n})
<1>1. at[1] \in Counts /\ Orderly(at[1], done)
  BY FirstIsRun DEF TypeOK, Counts, OnceInv
<1>2. n \notin done /\ Orderly(more, done \cup {n})
  <2>1. /\ targets \in SUBSET Nodes
        /\ \A m \in targets : m # Start /\ \E e \in Incoming(m) : e.src = n
        /\ \A m \in targets : Cardinality(Incoming(m)) > 1 => targets = {m}
    BY RoutesFit
  <2>2. ASSUME NEW counts \in Counts, NEW d, Orderly(counts, d), counts[n]["executing"] > 0
        PROVE  /\ n \notin d
               /\ Orderly(Continue(Leaves(counts, n, "executing"), targets, d \cup {n}), d \cup {n})
    BY <2>1, <2>2, OrderlyContinue
  <2> QED
    BY <1>1, <2>2
<1>3. at'[1] = more
  BY FirstIsRun DEF Advance, Moves, TypeOK
<1>4. ctx'[1] = Context(done \cup {n}, ctx[1].approved)
  BY FirstIsRun DEF Advance, TypeOK
<1> QED
  BY <1>2, <1>3, <1>4 DEF Context

LEMMA OnceSteps ==
  ASSUME TypeOK, JoinsReachedAlone, OnceInv, NEW n \in Nodes, NodeStep(1, n)
  PROVE  Orderly(at'[1], ctx'[1].done) /\ RanOnce'
<1> USE FirstIsRun DEF Stages
<1>1. at[1] \in Counts /\ Orderly(at[1], ctx[1].done) /\ RanOnce
  BY DEF TypeOK, Counts, OnceInv
<1>2. \A counts : Moves(1, counts) => at'[1] = counts
  BY DEF Moves, TypeOK
<1>3. ASSUME NEW counts, Moves(1, counts), Orderly(counts, ctx[1].done), UNCHANGED <<ctx, ran>>
      PROVE  Orderly(at'[1], ctx'[1].done) /\ RanOnce'
  BY <1>1, <1>2, <1>3 DEF RanOnce
<1>4. ASSUME NEW stage \in Stages, at[1][n][stage] > 0
      PROVE  /\ Orderly(Leaves(at[1], n, stage), ctx[1].done)
             /\ \A next \in Stages : Orderly(Joins(Leaves(at[1], n, stage), n, next), ctx[1].done)
             /\ Orderly(Reach(Leaves(at[1], n, stage), n, ctx[1].done), ctx[1].done)
  BY <1>1, <1>4, OrderlyMove DEF Reach
<1>5. CASE BeginBranch(1, n)
  BY <1>5, <1>3, <1>4 DEF BeginBranch, At
<1>6. CASE Enter(1, n)
  BY <1>6, <1>3, <1>4 DEF Enter, At
<1>7. CASE HandlerWaits(1, n)
  BY <1>7, <1>3, <1>4 DEF HandlerWaits, At
<1>8. CASE WritePause(1, n)
  BY <1>8, <1>3, <1>4 DEF WritePause, LeavePaused, At
<1>9. CASE StatementRaises(1, n)
  BY <1>9, <1>3, <1>4 DEF StatementRaises, StopBranch, At
<1>10. CASE HandlerSucceeds(1, n)
  <2>1. PICK branch \in Branches(n) : Advance(1, n, Successors(n, branch))
    BY <1>10 DEF HandlerSucceeds, Branches
  <2>2. /\ n \notin ctx[1].done /\ ctx'[1].done = ctx[1].done \cup {n}
        /\ Orderly(at'[1], ctx'[1].done)
    BY <1>10, <2>1, OnceAdvance DEF HandlerSucceeds, At
  <2>3. ran' = [ran EXCEPT ![1][n] = IF @ < 2 THEN @ + 1 ELSE 2]
    BY <1>10 DEF HandlerSucceeds
  <2>4. ran[1] \in [Nodes -> 0..2] /\ ran[1][n] = 0
    <3>1. ran[1] \in [Nodes -> 0..2]
      BY DEF TypeOK
    <3>2. ~(ran[1][n] > 0)
      BY <1>1, <2>2 DEF RanOnce
    <3> QED
      BY <3>1, <3>2
  <2>5. ran'[1] = [ran[1] EXCEPT ![n] = 1]
    BY <2>3, <2>4 DEF TypeOK
  <2>6. RanOnce'
    BY <1>1, <2>2, <2>4, <2>5 DEF RanOnce
  <2> QED
    BY <2>2, <2>6
<1>11. CASE HandlerFails(1, n)
  <2>1. ran' = ran
    BY <1>11 DEF HandlerFails
  <2>2. CASE StopBranch(1, n, "executing") /\ UNCHANGED ctx
    BY <1>11, <2>1, <2>2, <1>3, <1>4 DEF HandlerFails, StopBranch, At
  <2>3. ASSUME NEW targets, Advance(1, n, targets),
               \/ \E branch \in Branches(n) : targets = Successors(n, branch)
               \/ \E t \in ErrorTargets(n) : targets = {t}
        PROVE  Orderly(at'[1], ctx'[1].done) /\ RanOnce'
    <3>1. /\ ctx'[1].done = ctx[1].done \cup {n} /\ Orderly(at'[1], ctx'[1].done)
      BY <1>11, <2>3, OnceAdvance DEF HandlerFails, At
    <3> QED
      BY <1>1, <2>1, <3>1 DEF RanOnce
  <2>4. ErrorPolicy[n] = "continue" => "none" \in Branches(n)
    BY DEF Branches
  <2> QED
    BY <1>11, <2>2, <2>3, <2>4 DEF HandlerFails
<1> QED
  BY <1>5, <1>6, <1>7, <1>8, <1>9, <1>10, <1>11 DEF NodeStep

LEMMA NextOnce ==
  JoinsReachedAlone /\ TypeOK /\ Unstarted /\ OnceInv /\ [Next]_vars => OnceInv'
<1> SUFFICES ASSUME JoinsReachedAlone, TypeOK, Unstarted, OnceInv, [Next]_vars PROVE OnceInv'
  OBVIOUS
<1> USE FirstIsRun
\* A step that leaves the first run as it was.
<1>0. ASSUME at'[1] = at[1], ctx'[1] = ctx[1], ran'[1] = ran[1],
             pc'[1] = "unused" => pc[1] = "unused"
      PROVE  OnceInv'
  BY <1>0 DEF OnceInv, RanOnce, Orderly, Alone, Fresh, Led, Occupied, Incoming
<1>1. ASSUME NEW r \in Runs, NEW n \in Nodes, NodeStep(r, n) PROVE OnceInv'
  <2>0. pc[r] = "active" /\ pc' = pc
    BY <1>1, NodeStepFrame
  <2>1. CASE r = 1
    <3>1. Orderly(at'[1], ctx'[1].done) /\ RanOnce'
      BY <1>1, <2>1, OnceSteps
    <3>2. pc'[1] # "unused"
      BY <2>0, <2>1
    <3> QED
      BY <3>1, <3>2 DEF OnceInv, Orderly, Alone, Fresh, Led, Occupied, Incoming
  <2>2. CASE r # 1
    <3>1. at'[1] = at[1] /\ ctx'[1] = ctx[1]
      BY <1>1, <2>2, OtherRunsStay
    <3>2. ran'[1] = ran[1]
      <4>1. ran' = ran \/ ran' = [ran EXCEPT ![r][n] = IF @ < 2 THEN @ + 1 ELSE 2]
        BY <1>1 DEF NodeStep, BeginBranch, Enter, HandlerSucceeds, HandlerWaits, HandlerFails,
           WritePause, StatementRaises
      <4> QED
        BY <2>2, <4>1 DEF TypeOK
    <3> QED
      BY <1>0, <2>0, <3>1, <3>2
  <2> QED
    BY <2>1, <2>2
<1>2. ASSUME NEW r \in Runs, Finalize(r) PROVE OnceInv'
  <2>1. UNCHANGED <<at, ctx, ran>> /\ (pc'[1] = "unused" => pc[1] = "unused")
    BY <1>2 DEF Finalize, TypeOK
  <2> QED
    BY <1>0, <2>1
<1>3. ASSUME UNCHANGED tasks \/ Crash PROVE OnceInv'
  <2>1. UNCHANGED <<at, ctx, ran>> /\ (pc'[1] = "unused" => pc[1] = "unused")
    BY <1>3 DEF tasks, Crash
  <2> QED
    BY <1>0, <2>1
<1>4. ASSUME NEW targets, NEW context, Spawn(targets, context), pc[1] # "unused" PROVE OnceInv'
  <2>1. /\ at'[1] = at[1] /\ ctx'[1] = ctx[1] /\ ran' = ran
        /\ pc'[1] = pc[1]
    BY <1>4 DEF Spawn, TypeOK
  <2> QED
    BY <1>0, <2>1
<1>5. CASE StartExecution
  <2>1. PICK r \in Runs : /\ pc[r] = "unused" /\ \A k \in 1..(r - 1) : pc[k] # "unused"
                          /\ pc' = [pc EXCEPT ![r] = "active"]
                          /\ at' = [at EXCEPT ![r] = Schedule(Nowhere, {Start})]
                          /\ ctx' = [ctx EXCEPT ![r] = NewContext]
                          /\ ran' = ran
    BY <1>5 DEF StartExecution, Spawn
  <2>2. CASE r = 1
    <3>1. /\ at'[1] = Schedule(Nowhere, {Start}) /\ ctx'[1] = NewContext /\ pc'[1] = "active"
      BY <2>1, <2>2 DEF TypeOK
    <3>2. NewContext.done = {}
      BY DEF NewContext, Context
    <3>3. Orderly(Schedule(Nowhere, {Start}), {})
      <4>1. \A m \in Nodes : \A s \in Stages :
               Schedule(Nowhere, {Start})[m][s] = IF m = Start /\ s = "scheduled" THEN 1 ELSE 0
        BY DEF Schedule, Nowhere, Stages
      <4>2. Alone(Schedule(Nowhere, {Start}))
        BY <4>1 DEF Alone
      <4>3. \A m \in Nodes \ {Start} : ~Occupied(Schedule(Nowhere, {Start}), m)
        BY <4>1 DEF Occupied
      <4> QED
        BY <4>2, <4>3 DEF Orderly, Fresh, Led
    <3>4. \A n \in Nodes : ran[1][n] = 0
      BY <2>1, <2>2 DEF OnceInv
    <3>5. RanOnce'
      BY <2>1, <3>4 DEF RanOnce
    <3> QED
      <4>1. Orderly(at'[1], ctx'[1].done) /\ pc'[1] # "unused"
        BY <3>1, <3>2, <3>3
      <4> QED
        BY <3>5, <4>1 DEF OnceInv, Orderly, Alone, Fresh, Led, Occupied, Incoming
  <2>3. CASE r # 1
    <3>1. pc[1] # "unused"
      BY <2>1, <2>3 DEF Runs
    <3> QED
      BY <1>4, <1>5, <3>1 DEF StartExecution
  <2> QED
    BY <2>2, <2>3
<1>6. ASSUME NEW q \in Requests, RequestStep(q) PROVE OnceInv'
  <2>1. CASE ResumeWrite(q)
    <3>1. pc[1] # "unused"
      BY <2>1 DEF ResumeWrite, Unstarted
    <3> QED
      BY <2>1, <3>1, <1>3, <1>4 DEF ResumeWrite
  <2>2. CASE ~ResumeWrite(q)
    BY <1>3, <1>6, <2>2 DEF RequestStep, Approve, Reject, Submit, ResumeRead, RejectFails, Cancel
  <2> QED
    BY <2>1, <2>2
<1>7. CASE UNCHANGED vars
  BY <1>3, <1>7 DEF vars
<1>8. CASE Crash
  BY <1>3, <1>8
<1> QED
  BY <1>1, <1>2, <1>5, <1>6, <1>7, <1>8 DEF Next, RunStep, RequestStep

\* From the trigger on no node completes twice, whatever the interleaving of the
\* branches, where no predecessor of a convergence point forks: a convergence
\* point is entered by the last branch to arrive, and by that one only.
THEOREM OncePerRun == Spec => []NodeOncePerRun
<1> DEFINE Once == JoinsReachedAlone => OnceInv
<1>1. Init => Unstarted /\ Once
  <2> SUFFICES ASSUME Init PROVE Unstarted /\ OnceInv
    OBVIOUS
  <2> USE FirstIsRun
  <2>1. at[1] = Nowhere /\ ctx[1] = NewContext /\ NewContext.done = {}
    BY DEF Init, NewContext, Context
  <2>2. Orderly(Nowhere, {})
    BY DEF Orderly, Alone, Fresh, Led, Occupied, Nowhere
  <2>3. \A n \in Nodes : ran[1][n] = 0
    BY DEF Init
  <2>4. OnceInv
    BY <2>1, <2>2, <2>3 DEF OnceInv, RanOnce
  <2> QED
    BY <2>4 DEF Init, Unstarted, Request
<1>2. TypeOK /\ Unstarted /\ Once /\ [Next]_vars => Once'
  BY NextOnce DEF JoinsReachedAlone, Branches, Successors, NextNodes, Incoming
<1>3. Once => NodeOncePerRun
  BY DEF OnceInv, RanOnce, NodeOncePerRun
<1> HIDE DEF Once
<1> QED
  BY <1>1, <1>2, <1>3, InitTypeOK, NextTypeOK, NextUnstarted, PTL DEF Spec

=============================================================================
