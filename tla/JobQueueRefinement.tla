------------------------- MODULE JobQueueRefinement -------------------------
(***************************************************************************)
(* The job queue implements RetryingQueue, for every number of jobs,       *)
(* workers and producers: every step of JobQueue is a step of              *)
(* RetryingQueue or leaves its variables alone.                            *)
(***************************************************************************)
EXTENDS JobQueueProofs

-----------------------------------------------------------------------------
(* The refinement mapping *)

LEMMA KeepersDef ==
    ASSUME NEW j \in Jobs
    PROVE  /\ Keepers[j] = {w \in Workers : Holds(w, j)}
           /\ Keepers'[j] = {w \in Workers : Holds(w, j)'}
  BY DEF Keepers

LEMMA PlaceDef ==
    ASSUME NEW j \in Jobs
    PROVE  /\ Place[j] = IF Keepers[j] # {} THEN "taken" ELSE Unkept[status[j]]
           /\ Place'[j] = IF Keepers'[j] # {} THEN "taken" ELSE Unkept[status'[j]]
  BY DEF Place

LEMMA UnkeptValues ==
    /\ Unkept["new"] = "outside" /\ Unkept["pending"] = "waiting"
    /\ Unkept["processing"] = "lost" /\ Unkept["completed"] = "done"
    /\ Unkept["dead"] = "buried" /\ Unkept["purged"] = "gone"
  BY DEF Unkept

\* The mapping of one job changes and that of the others does not.
LEMMA OneKeepersChange ==
    ASSUME NEW j \in Jobs, NEW K,
           Keepers'[j] = K, \A i \in Jobs : i # j => Keepers'[i] = Keepers[i]
    PROVE  Keepers' = [Keepers EXCEPT ![j] = K]
  BY DEF Keepers

LEMMA OnePlaceChanges ==
    ASSUME NEW j \in Jobs, NEW P,
           Place'[j] = P, \A i \in Jobs : i # j => Place'[i] = Place[i]
    PROVE  Place' = [Place EXCEPT ![j] = P]
  BY DEF Place

\* A held row is in one of the statuses of a taken job.
LEMMA KeptStatus ==
    ASSUME IInv, NEW j \in Jobs, Keepers[j] # {}
    PROVE  status[j] \in {"processing", "completed", "purged"}
  BY KeepersDef DEF IInv, HolderOwnsRow, Holds, HoldingStates

\* A worker past its claim is its job's only keeper.
LEMMA HolderIsKeeper ==
    ASSUME IInv, NEW w \in Workers, pc[w] \in HoldingStates
    PROVE  job[w] \in Jobs /\ Keepers[job[w]] = {w} /\ Place[job[w]] = "taken"
  <1>1. job[w] \in Jobs /\ Holds(w, job[w])
    BY DEF IInv, HolderOwnsRow, Holds, HoldingStates
  <1>2. Keepers[job[w]] = {w}
    BY <1>1, KeepersDef DEF IInv, SingleHolder
  <1> QED
    BY <1>1, <1>2, PlaceDef

\* While no worker takes or leaves a job the keepers stay.
LEMMA KeepersStay ==
    ASSUME \A w \in Workers, j \in Jobs : Holds(w, j)' <=> Holds(w, j)
    PROVE  Keepers' = Keepers
  BY DEF Keepers

LEMMA PlacesStay ==
    ASSUME Keepers' = Keepers,
           \A j \in Jobs : status'[j] = status[j] \/ Keepers[j] # {}
    PROVE  Place' = Place
  <1> SUFFICES ASSUME NEW j \in Jobs PROVE Place'[j] = Place[j]
    BY DEF Place
  <1> QED
    BY PlaceDef

\* A worker lets go of its job, whose row ends up in some status.
LEMMA LettingGo ==
    ASSUME IInv, NEW w \in Workers, pc[w] \in HoldingStates,
           NEW next \in WorkerStates \ HoldingStates,
           pc' = [pc EXCEPT ![w] = next],
           job' = [job EXCEPT ![w] = NoJob],
           \A i \in Jobs \ {job[w]} : status'[i] = status[i]
    PROVE  /\ Keepers' = [Keepers EXCEPT ![job[w]] = {}]
           /\ Place' = [Place EXCEPT ![job[w]] = Unkept[status'[job[w]]]]
  <1> DEFINE j == job[w]
  <1>1. j \in Jobs /\ Keepers[j] = {w}
    BY HolderIsKeeper
  <1>2. \A i \in Jobs : Keepers'[i] = Keepers[i] \ {w}
    <2> SUFFICES ASSUME NEW i \in Jobs, NEW v \in Workers
                 PROVE  Holds(v, i)' <=> Holds(v, i) /\ v # w
      BY KeepersDef
    <2> QED
      BY DEF IInv, TypeOK, Holds, HoldingStates, WorkerStates
  <1>3. \A i \in Jobs : i # j => w \notin Keepers[i]
    BY KeepersDef DEF Holds
  <1>4. Keepers'[j] = {}
    <2>1. Keepers'[j] = Keepers[j] \ {w}
      BY <1>1, <1>2
    <2>2. Keepers[j] = {w}
      BY <1>1
    <2> HIDE DEF j
    <2> QED
      BY <2>1, <2>2
  <1>5. \A i \in Jobs : i # j => Keepers'[i] = Keepers[i]
    <2> SUFFICES ASSUME NEW i \in Jobs, i # j PROVE Keepers'[i] = Keepers[i]
      OBVIOUS
    <2>1. w \notin Keepers[i]
      BY <1>3
    <2>2. Keepers'[i] = Keepers[i] \ {w}
      BY <1>2
    <2> HIDE DEF j
    <2> QED
      BY <2>1, <2>2, KeepersDef
  <1>6. Keepers' = [Keepers EXCEPT ![j] = {}]
    BY <1>1, <1>4, <1>5, OneKeepersChange
  <1>7. /\ Place'[j] = Unkept[status'[j]]
        /\ \A i \in Jobs : i # j => Place'[i] = Place[i]
    BY <1>1, <1>4, <1>5, PlaceDef
  <1>8. Place' = [Place EXCEPT ![j] = Unkept[status'[j]]]
    BY <1>1, <1>7, OnePlaceChanges
  <1> QED
    BY <1>6, <1>8

\* The status of a job that nobody holds changes.
LEMMA Moving ==
    ASSUME IInv, NEW j \in Jobs, Keepers[j] = {}, Keepers' = Keepers,
           \A i \in Jobs \ {j} : status'[i] = status[i]
    PROVE  /\ Place[j] = Unkept[status[j]]
           /\ Place' = [Place EXCEPT ![j] = Unkept[status'[j]]]
  <1>1. \A i \in Jobs : Place'[i] = IF i = j THEN Unkept[status'[j]] ELSE Place[i]
    BY PlaceDef
  <1> QED
    BY <1>1, PlaceDef DEF Place

-----------------------------------------------------------------------------
(* Steps *)

LEMMA InitRefines == Init => Queue!Init
  <1> SUFFICES ASSUME Init PROVE Queue!Init
    OBVIOUS
  <1>1. Keepers = [j \in Jobs |-> {}]
    BY DEF Init, Keepers, Holds, HoldingStates
  <1>2. Place = [j \in Jobs |-> "outside"]
    BY <1>1 DEF Init, Place, Unkept
  <1> QED
    BY <1>1, <1>2 DEF Init, Queue!Init

\* Letting go of a job is what Returns says.
LEMMA ReturnsRefines ==
    ASSUME IInv, NEW w \in Workers, pc[w] \in HoldingStates,
           NEW next \in WorkerStates \ HoldingStates,
           pc' = [pc EXCEPT ![w] = next],
           job' = [job EXCEPT ![w] = NoJob],
           \A i \in Jobs \ {job[w]} : status'[i] = status[i],
           attempts' = attempts
    PROVE  Queue!Returns(w, job[w], Unkept[status'[job[w]]])
  BY LettingGo, HolderIsKeeper DEF Queue!Returns, Queue!Moves

LEMMA StepRefines == IInv /\ [Next]_vars => [Queue!Next]_(Queue!vars)
  <1> SUFFICES ASSUME IInv, [Next]_vars PROVE Queue!Next \/ UNCHANGED Queue!vars
    OBVIOUS
  <1> DEFINE Stays == Place' = Place /\ attempts' = attempts /\ Keepers' = Keepers
  <1>a. Stays => UNCHANGED Queue!vars
    BY DEF Queue!vars
  <1>b. ASSUME NEW w \in Workers, NEW j \in Jobs,
               Queue!Take(w, j) \/ Queue!Finish(w, j) \/ Queue!TryAgain(w, j)
                 \/ Queue!Bury(w, j) \/ Queue!Lose(w, j)
        PROVE  Queue!Next
    BY <1>b DEF Queue!Next
  <1>c. ASSUME status' = status, pc' = pc, job' = job, attempts' = attempts PROVE Stays
    <2>1. Keepers' = Keepers
      BY <1>c, KeepersStay DEF Holds
    <2> QED
      BY <2>1, <1>c, PlacesStay
  <1>1. ASSUME NEW p \in Producers, CheckCapacity(p) \/ CapacityCheckFails(p) PROVE Stays
    BY <1>1, <1>c DEF CheckCapacity, CapacityCheckFails
  <1>2. ASSUME NEW p \in Producers, Insert(p) PROVE Queue!Next
    <2> PICK j \in Jobs : status[j] = "new" /\ status' = [status EXCEPT ![j] = "pending"]
      BY <1>2 DEF Insert
    <2>1. Keepers' = Keepers /\ attempts' = attempts
      BY <1>2, KeepersStay DEF Insert, Holds
    <2>2. Keepers[j] = {}
      BY KeptStatus
    <2>3. status \in [Jobs -> Statuses]
      BY DEF IInv, TypeOK
    <2>4. Place[j] = Unkept[status[j]] /\ Place' = [Place EXCEPT ![j] = Unkept[status'[j]]]
      BY <2>1, <2>2, <2>3, Moving
    <2>5. status'[j] = "pending"
      BY <2>3
    <2>a. status[j] = "new"
      OBVIOUS
    <2>6. Place[j] = "outside" /\ Place' = [Place EXCEPT ![j] = "waiting"]
      BY <2>4, <2>5, <2>a, UnkeptValues
    <2>7. Queue!Submit(j)
      BY <2>1, <2>6 DEF Queue!Submit, Queue!Moves
    <2> QED
      BY <2>7 DEF Queue!Next
  <1>3. ASSUME NEW w \in Workers, LockRow(w) PROVE Stays
    <2>1. Keepers' = Keepers
      BY <1>3, KeepersStay DEF LockRow, Holds, HoldingStates, IInv, TypeOK
    <2> QED
      BY <2>1, <1>3, PlacesStay DEF LockRow
  <1>4. ASSUME NEW w \in Workers, CommitClaim(w) PROVE Queue!Next
    <2> DEFINE j == job[w]
    <2>1. j \in Jobs /\ status[j] = "pending"
      BY <1>4 DEF CommitClaim, IInv, LocksCoverPending
    <2>2. Keepers[j] = {}
      BY <2>1, KeptStatus
    <2>3. \A i \in Jobs, v \in Workers :
             Holds(v, i)' <=> Holds(v, i) \/ (v = w /\ i = j)
      BY <1>4 DEF CommitClaim, Holds, HoldingStates, IInv, TypeOK
    <2>a. Keepers'[j] = {w}
      BY <2>1, <2>2, <2>3, KeepersDef
    <2>4. \A i \in Jobs : i # j => Keepers'[i] = Keepers[i]
      BY <2>3, KeepersDef
    <2>5. Keepers' = [Keepers EXCEPT ![j] = {w}]
      BY <2>1, <2>a, <2>4, OneKeepersChange
    <2>6. Place[j] = "waiting"
      BY <2>1, <2>2, PlaceDef DEF Unkept
    <2>b. \A i \in Jobs : i # j => status'[i] = status[i]
      BY <1>4 DEF CommitClaim, IInv, TypeOK
    <2>7. /\ Place'[j] = "taken"
          /\ \A i \in Jobs : i # j => Place'[i] = Place[i]
      BY <2>1, <2>a, <2>4, <2>b, PlaceDef
    <2>8. Place' = [Place EXCEPT ![j] = "taken"]
      BY <2>1, <2>7, OnePlaceChanges
    <2>9. attempts[j] < MaxAttempts /\ attempts' = [attempts EXCEPT ![j] = @ + 1]
      BY <1>4, <2>1 DEF CommitClaim, IInv, AttemptsLeft
    <2>10. Queue!Take(w, j)
      BY <2>2, <2>5, <2>6, <2>8, <2>9 DEF Queue!Take, Queue!Moves
    <2> QED
      BY <2>1, <2>10, <1>b
  <1>5. ASSUME NEW w \in Workers, StartHandler(w) \/ FinishHandler(w) PROVE Stays
    <2>1. Keepers' = Keepers
      BY <1>5, KeepersStay DEF StartHandler, FinishHandler, Holds, HoldingStates, IInv, TypeOK
    <2> QED
      BY <2>1, <1>5, PlacesStay DEF StartHandler, FinishHandler
  <1>6. ASSUME NEW w \in Workers, CompleteRaises(w) PROVE Stays
    <2>1. pc[w] \in HoldingStates
      BY <1>6 DEF CompleteRaises, HoldingStates
    <2>2. Keepers' = Keepers
      BY <1>6, KeepersStay DEF CompleteRaises, Holds, HoldingStates, IInv, TypeOK
    <2>3. job[w] \in Jobs /\ Keepers[job[w]] # {}
      BY <2>1, HolderIsKeeper
    <2>4. \A i \in Jobs : i # job[w] => status'[i] = status[i]
      BY <1>6 DEF CompleteRaises, Completed, IInv, TypeOK
    <2> QED
      BY <2>2, <2>3, <2>4, <1>6, PlacesStay DEF CompleteRaises
  <1>7. ASSUME NEW w \in Workers, Complete(w) PROVE Queue!Next
    <2>1. /\ pc[w] \in HoldingStates
          /\ job[w] \in Jobs /\ status[job[w]] = "processing"
      BY <1>7 DEF Complete, HoldingStates, IInv, HolderOwnsRow
    <2>2. /\ status'[job[w]] = "completed"
          /\ \A i \in Jobs \ {job[w]} : status'[i] = status[i]
      BY <1>7, <2>1 DEF Complete, Completed, IInv, TypeOK
    <2>3. Queue!Returns(w, job[w], Unkept[status'[job[w]]])
      BY <1>7, <2>1, <2>2, ReturnsRefines DEF Complete, Release, WorkerStates, HoldingStates
    <2>4. Queue!Finish(w, job[w])
      BY <2>2, <2>3 DEF Queue!Finish, Unkept
    <2> QED
      BY <2>1, <2>4, <1>b
  <1>8. ASSUME NEW w \in Workers, Fail(w) PROVE Queue!Next
    <2> DEFINE j == job[w]
    <2>1. /\ pc[w] \in HoldingStates
          /\ j \in Jobs
      BY <1>8 DEF Fail, HoldingStates, IInv, HolderOwnsRow
    <2>2. \A i \in Jobs \ {j} : status'[i] = status[i]
      BY <1>8 DEF Fail, IInv, TypeOK
    <2>3. Queue!Returns(w, j, Unkept[status'[j]])
      BY <1>8, <2>1, <2>2, ReturnsRefines DEF Fail, Release, WorkerStates, HoldingStates
    <2>4. CASE status[j] = "purged"
      <3>1. status'[j] = "purged"
        BY <1>8, <2>4 DEF Fail
      <3>2. Queue!Finish(w, j)
        BY <3>1, <2>3 DEF Queue!Finish, Unkept
      <3> QED
        BY <2>1, <3>2, <1>b
    <2>5. CASE status[j] # "purged" /\ Exhausted(j)
      <3>1. status'[j] = "dead"
        BY <1>8, <2>1, <2>5 DEF Fail, IInv, TypeOK
      <3>2. attempts[j] = MaxAttempts
        BY <2>1, <2>5, BoundsAssumption DEF Exhausted, IInv, AttemptsLeft, TypeOK
      <3>3. Queue!Bury(w, j)
        BY <3>1, <3>2, <2>3 DEF Queue!Bury, Unkept
      <3> QED
        BY <2>1, <3>3, <1>b
    <2>6. CASE status[j] # "purged" /\ ~Exhausted(j)
      <3>1. status'[j] = "pending"
        BY <1>8, <2>1, <2>6 DEF Fail, IInv, TypeOK
      <3>2. attempts[j] < MaxAttempts
        BY <2>1, <2>6, BoundsAssumption DEF Exhausted, IInv, AttemptsLeft, TypeOK
      <3>3. Queue!TryAgain(w, j)
        BY <3>1, <3>2, <2>3 DEF Queue!TryAgain, Unkept
      <3> QED
        BY <2>1, <3>3, <1>b
    <2> QED
      BY <2>4, <2>5, <2>6
  <1>9. ASSUME NEW w \in Workers, DropJob(w) \/ Stop(w), pc[w] \in HoldingStates
        PROVE  Queue!Next
    <2> DEFINE j == job[w]
    <2>1. j \in Jobs /\ status[j] \in {"processing", "completed", "purged"}
      BY <1>9, HolderIsKeeper, KeptStatus
    <2>2. status' = status
      BY <1>9 DEF DropJob, Stop
    <2>3. Queue!Returns(w, j, Unkept[status'[j]])
      BY <1>9, <2>2, ReturnsRefines DEF DropJob, Stop, Release, WorkerStates, HoldingStates
    <2>4. Queue!Finish(w, j) \/ Queue!Lose(w, j)
      BY <2>1, <2>2, <2>3 DEF Queue!Finish, Queue!Lose, Unkept
    <2> QED
      BY <2>1, <2>4, <1>b
  <1>10. ASSUME NEW w \in Workers, Stop(w) \/ Restart(w), pc[w] \notin HoldingStates
         PROVE  Stays
    <2>1. Keepers' = Keepers
      BY <1>10, KeepersStay DEF Stop, Restart, Holds, HoldingStates, IInv, TypeOK
    <2> QED
      BY <2>1, <1>10, PlacesStay DEF Stop, Restart
  <1>11. ASSUME NEW j \in Jobs, BecomeDue(j) PROVE Stays
    BY <1>11, <1>c DEF BecomeDue
  <1>12. ASSUME NEW j \in Jobs, RetryDeadJob(j) PROVE Queue!Next
    <2>1. /\ status[j] = "dead" /\ status' = [status EXCEPT ![j] = "pending"]
          /\ attempts' = [attempts EXCEPT ![j] = 0]
          /\ status \in [Jobs -> Statuses]
      BY <1>12 DEF RetryDeadJob, MayRetry, IInv, TypeOK
    <2>2. Keepers' = Keepers
      BY <1>12, KeepersStay DEF RetryDeadJob, Holds
    <2>3. Keepers[j] = {}
      BY <2>1, KeptStatus
    <2>4. Place[j] = Unkept[status[j]] /\ Place' = [Place EXCEPT ![j] = Unkept[status'[j]]]
      BY <2>1, <2>2, <2>3, Moving
    <2>5. status'[j] = "pending"
      BY <2>1
    <2>6. Place[j] = "buried" /\ Place' = [Place EXCEPT ![j] = "waiting"]
      BY <2>1, <2>4, <2>5, UnkeptValues
    <2>7. Queue!Revive(j)
      BY <2>1, <2>2, <2>6 DEF Queue!Revive, Queue!Moves
    <2> QED
      BY <2>7 DEF Queue!Next
  <1>13. ASSUME NEW j \in Jobs, PurgeOldJob(j) PROVE Queue!Next \/ Stays
    <2>1. /\ status[j] \in {"completed", "dead"}
          /\ status' = [status EXCEPT ![j] = "purged"]
          /\ attempts' = attempts
          /\ status \in [Jobs -> Statuses]
      BY <1>13 DEF PurgeOldJob, IInv, TypeOK
    <2>2. Keepers' = Keepers
      BY <1>13, KeepersStay DEF PurgeOldJob, Holds
    <2>3. CASE Keepers[j] = {}
      <3>1. Place[j] = Unkept[status[j]] /\ Place' = [Place EXCEPT ![j] = Unkept[status'[j]]]
        BY <2>1, <2>2, <2>3, Moving
      <3>2. status'[j] = "purged"
        BY <2>1
      <3>3. Place[j] \in {"done", "buried"} /\ Place' = [Place EXCEPT ![j] = "gone"]
        BY <2>1, <3>1, <3>2, UnkeptValues
      <3>4. Queue!ClearAway(j)
        BY <2>1, <2>2, <3>3 DEF Queue!ClearAway, Queue!Moves
      <3> QED
        BY <3>4 DEF Queue!Next
    <2>4. CASE Keepers[j] # {}
      BY <2>1, <2>2, <2>4, PlacesStay
    <2> QED
      BY <2>3, <2>4
  <1>14. ASSUME UNCHANGED vars PROVE Stays
    BY <1>14, <1>c DEF vars
  <1>15. \A w \in Workers : DropJob(w) => pc[w] \in HoldingStates
    BY DEF DropJob, HoldingStates
  <1>16. \A w \in Workers : Restart(w) => pc[w] \notin HoldingStates
    BY DEF Restart, HoldingStates
  <1> HIDE DEF Stays
  <1> QED
    BY <1>a, <1>1, <1>2, <1>3, <1>4, <1>5, <1>6, <1>7, <1>8, <1>9, <1>10, <1>11, <1>12,
       <1>13, <1>14, <1>15, <1>16 DEF Next, WorkerStep

\* The job queue is a queue with retries, as its users see it.
THEOREM Refinement == Spec => IsRetryingQueue
  BY InitRefines, StepRefines, Invariance, PTL DEF Spec, IsRetryingQueue, Queue!Spec
=============================================================================
