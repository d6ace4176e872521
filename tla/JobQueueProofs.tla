--------------------------- MODULE JobQueueProofs ---------------------------
(***************************************************************************)
(* Safety of the job queue for every number of jobs, workers and           *)
(* producers.                                                              *)
(***************************************************************************)
EXTENDS JobQueue, FiniteSetTheorems, TLAPS

\* A worker between claim and settlement stands in front of a row that is
\* still its own: processing, or, once its completion may have been written,
\* completed or purged.
HolderOwnsRow ==
    \A w \in Workers :
        /\ pc[w] \in {"claimed", "running", "completing"}
              => job[w] \in Jobs /\ status[job[w]] = "processing"
        /\ pc[w] = "failing"
              => job[w] \in Jobs /\ status[job[w]] \in {"processing", "completed", "purged"}

\* A row lock covers a pending row, and no row is locked twice.
LocksCoverPending ==
    \A w \in Workers : pc[w] = "locking"
        => /\ job[w] \in Jobs /\ status[job[w]] = "pending"
           /\ \A v \in Workers : pc[v] = "locking" /\ job[v] = job[w] => v = w

\* A job that may still be claimed has an attempt left.
AttemptsLeft ==
    \A j \in Jobs : /\ status[j] \in {"new", "pending"} => attempts[j] < MaxAttempts
                    /\ attempts[j] <= MaxAttempts

IInv == TypeOK /\ HolderOwnsRow /\ LocksCoverPending /\ SingleHolder /\ AttemptsLeft
            /\ DeadIsExhausted

-----------------------------------------------------------------------------

LEMMA InitIInv == Init => IInv
  BY NoJobAssumption, BoundsAssumption
  DEF Init, IInv, TypeOK, HolderOwnsRow, LocksCoverPending, SingleHolder, Holds,
      HoldingStates, AttemptsLeft, DeadIsExhausted, Statuses, WorkerStates

\* Type correctness is inductive once a worker past its claim is known to
\* hold a job.
LEMMA NextTypeOK == IInv /\ [Next]_vars => TypeOK'
  <1> SUFFICES ASSUME IInv, [Next]_vars PROVE TypeOK'
    OBVIOUS
  <1> USE BoundsAssumption DEF IInv, TypeOK, HolderOwnsRow, LocksCoverPending,
        Statuses, WorkerStates
  <1>1. ASSUME NEW p \in Producers, CheckCapacity(p) PROVE TypeOK'
    BY <1>1 DEF CheckCapacity
  <1>2. ASSUME NEW p \in Producers, CapacityCheckFails(p) PROVE TypeOK'
    BY <1>2 DEF CapacityCheckFails
  <1>3. ASSUME NEW p \in Producers, Insert(p) PROVE TypeOK'
    <2> Cardinality({i \in Jobs : status[i] # "new"}) \in Nat
      BY FiniteAssumption, FS_Subset, FS_CardinalityType
    <2> QED
      BY <1>3 DEF Insert
  <1>4. ASSUME NEW w \in Workers, LockRow(w) PROVE TypeOK'
    BY <1>4 DEF LockRow, Candidates
  <1>5. ASSUME NEW w \in Workers, CommitClaim(w) PROVE TypeOK'
    BY <1>5 DEF CommitClaim
  <1>6. ASSUME NEW w \in Workers, StartHandler(w) PROVE TypeOK'
    BY <1>6 DEF StartHandler
  <1>7. ASSUME NEW w \in Workers, FinishHandler(w) PROVE TypeOK'
    BY <1>7 DEF FinishHandler
  <1>8. ASSUME NEW w \in Workers, Complete(w) PROVE TypeOK'
    BY <1>8 DEF Complete, Completed, Release
  <1>9. ASSUME NEW w \in Workers, CompleteRaises(w) PROVE TypeOK'
    BY <1>9 DEF CompleteRaises, Completed
  <1>10. ASSUME NEW w \in Workers, Fail(w) PROVE TypeOK'
    BY <1>10 DEF Fail, Exhausted, Release
  <1>11. ASSUME NEW w \in Workers, DropJob(w) PROVE TypeOK'
    BY <1>11 DEF DropJob, Release
  <1>12. ASSUME NEW w \in Workers, Stop(w) PROVE TypeOK'
    BY <1>12 DEF Stop
  <1>13. ASSUME NEW w \in Workers, Restart(w) PROVE TypeOK'
    BY <1>13 DEF Restart
  <1>14. ASSUME NEW j \in Jobs, BecomeDue(j) PROVE TypeOK'
    BY <1>14 DEF BecomeDue
  <1>15. ASSUME NEW j \in Jobs, RetryDeadJob(j) PROVE TypeOK'
    BY <1>15 DEF RetryDeadJob, MayRetry
  <1>16. ASSUME NEW j \in Jobs, PurgeOldJob(j) PROVE TypeOK'
    BY <1>16 DEF PurgeOldJob
  <1>17. CASE UNCHANGED vars
    BY <1>17 DEF vars
  <1> QED
    BY <1>1, <1>2, <1>3, <1>4, <1>5, <1>6, <1>7, <1>8, <1>9, <1>10, <1>11, <1>12, <1>13, <1>14, <1>15, <1>16, <1>17 DEF Next, WorkerStep

\* The rest of the invariant is preserved by every step.
LEMMA NextIInv == IInv /\ [Next]_vars => IInv'
  <1> SUFFICES ASSUME IInv, [Next]_vars PROVE IInv'
    OBVIOUS
  <1>0. TypeOK'
    BY NextTypeOK
  <1> USE <1>0, BoundsAssumption, NoJobAssumption DEF IInv, TypeOK, HolderOwnsRow,
        LocksCoverPending, SingleHolder, Holds, HoldingStates, AttemptsLeft,
        DeadIsExhausted, Statuses, WorkerStates
  <1>1. ASSUME NEW p \in Producers, CheckCapacity(p) PROVE IInv'
    BY <1>1 DEF CheckCapacity
  <1>2. ASSUME NEW p \in Producers, CapacityCheckFails(p) PROVE IInv'
    BY <1>2 DEF CapacityCheckFails
  <1>3. ASSUME NEW p \in Producers, Insert(p) PROVE IInv'
    BY <1>3 DEF Insert
  <1>4. ASSUME NEW w \in Workers, LockRow(w) PROVE IInv'
    BY <1>4 DEF LockRow, Candidates, RowLocked
  <1>5. ASSUME NEW w \in Workers, CommitClaim(w) PROVE IInv'
    BY <1>5 DEF CommitClaim
  <1>6. ASSUME NEW w \in Workers, StartHandler(w) PROVE IInv'
    BY <1>6 DEF StartHandler
  <1>7. ASSUME NEW w \in Workers, FinishHandler(w) PROVE IInv'
    BY <1>7 DEF FinishHandler
  <1>8. ASSUME NEW w \in Workers, Complete(w) PROVE IInv'
    BY <1>8 DEF Complete, Completed, Release
  <1>9. ASSUME NEW w \in Workers, CompleteRaises(w) PROVE IInv'
    BY <1>9 DEF CompleteRaises, Completed
  <1>10. ASSUME NEW w \in Workers, Fail(w) PROVE IInv'
    BY <1>10 DEF Fail, Exhausted, Release
  <1>11. ASSUME NEW w \in Workers, DropJob(w) PROVE IInv'
    BY <1>11 DEF DropJob, Release
  <1>12. ASSUME NEW w \in Workers, Stop(w) PROVE IInv'
    BY <1>12 DEF Stop
  <1>13. ASSUME NEW w \in Workers, Restart(w) PROVE IInv'
    BY <1>13 DEF Restart
  <1>14. ASSUME NEW j \in Jobs, BecomeDue(j) PROVE IInv'
    BY <1>14 DEF BecomeDue
  <1>15. ASSUME NEW j \in Jobs, RetryDeadJob(j) PROVE IInv'
    BY <1>15 DEF RetryDeadJob, MayRetry
  <1>16. ASSUME NEW j \in Jobs, PurgeOldJob(j) PROVE IInv'
    BY <1>16 DEF PurgeOldJob
  <1>17. CASE UNCHANGED vars
    BY <1>17 DEF vars
  <1> QED
    BY <1>1, <1>2, <1>3, <1>4, <1>5, <1>6, <1>7, <1>8, <1>9, <1>10, <1>11, <1>12, <1>13, <1>14, <1>15, <1>16, <1>17 DEF Next, WorkerStep

\* The inductive invariant holds in every reachable state.
THEOREM Invariance == Spec => []IInv
  BY InitIInv, NextIInv, PTL DEF Spec

\* Type correctness of the queue.
THEOREM TypeCorrect == Spec => []TypeOK
  <1>1. IInv => TypeOK
    BY DEF IInv
  <1> QED
    BY <1>1, Invariance, PTL

\* Mutual exclusion: a job never has two workers.
THEOREM MutualExclusion == Spec => []SingleHolder
  <1>1. IInv => SingleHolder
    BY DEF IInv
  <1> QED
    BY <1>1, Invariance, PTL

\* The retry limit: a job is never claimed more than max_attempts times
\* between an enqueue or a retry_dead_job and the next.
THEOREM RetryLimit == Spec => []AttemptsBounded
  <1>1. IInv => AttemptsBounded
    BY DEF IInv, AttemptsLeft, AttemptsBounded
  <1> QED
    BY <1>1, Invariance, PTL

\* The dead letter queue holds exhausted jobs only.
THEOREM DeadLetterExhausted == Spec => []DeadIsExhausted
  <1>1. IInv => DeadIsExhausted
    BY DEF IInv
  <1> QED
    BY <1>1, Invariance, PTL

\* Only the worker that completed a job can undo the completion.
THEOREM CompletionStands == Spec => OnlyItsWorkerReopens
  <1> DEFINE Kept == \A j \in Jobs :
        status[j] = "completed" /\ status'[j] \in {"pending", "dead"}
            => \E w \in Workers : pc[w] = "failing" /\ job[w] = j
  <1>1. IInv /\ [Next]_vars => [Kept]_vars
    <2> SUFFICES ASSUME IInv, Next PROVE Kept
      OBVIOUS
    <2> SUFFICES ASSUME NEW j \in Jobs, status[j] = "completed",
                        status'[j] \in {"pending", "dead"}
                 PROVE  \E w \in Workers : pc[w] = "failing" /\ job[w] = j
      OBVIOUS
    <2> USE DEF IInv, TypeOK, HolderOwnsRow, LocksCoverPending
    <2>1. ASSUME NEW p \in Producers, CheckCapacity(p) \/ CapacityCheckFails(p) \/ Insert(p)
          PROVE  FALSE
      BY <2>1 DEF CheckCapacity, CapacityCheckFails, Insert
    <2>2. ASSUME NEW w \in Workers, Fail(w) PROVE pc[w] = "failing" /\ job[w] = j
      BY <2>2 DEF Fail
    <2>3. ASSUME NEW w \in Workers,
                 \/ LockRow(w) \/ CommitClaim(w) \/ StartHandler(w) \/ FinishHandler(w)
                 \/ Complete(w) \/ CompleteRaises(w) \/ DropJob(w) \/ Stop(w) \/ Restart(w)
          PROVE  FALSE
      BY <2>3 DEF LockRow, CommitClaim, StartHandler, FinishHandler, Complete,
                  CompleteRaises, Completed, DropJob, Stop, Restart
    <2>4. ASSUME NEW i \in Jobs, BecomeDue(i) \/ RetryDeadJob(i) \/ PurgeOldJob(i)
          PROVE  FALSE
      BY <2>4 DEF BecomeDue, RetryDeadJob, MayRetry, PurgeOldJob
    <2> QED
      BY <2>1, <2>2, <2>3, <2>4 DEF Next, WorkerStep
  <1> QED
    BY <1>1, Invariance, PTL DEF Spec, OnlyItsWorkerReopens

-----------------------------------------------------------------------------
(* Counting: what a step adds to a finite set, or takes from it *)

LEMMA NoMore ==
  ASSUME NEW S, IsFiniteSet(S), NEW T, T \subseteq S
  PROVE  IsFiniteSet(T) /\ Cardinality(T) \in Nat /\ Cardinality(T) <= Cardinality(S)
  BY FS_Subset, FS_CardinalityType

LEMMA OneMore ==
  ASSUME NEW S, IsFiniteSet(S), NEW x, NEW T, T \subseteq S \cup {x}
  PROVE  IsFiniteSet(T) /\ Cardinality(T) \in Nat /\ Cardinality(T) <= Cardinality(S) + 1
  <1>1. Cardinality(S) \in Nat
    BY FS_CardinalityType
  <1>2. IsFiniteSet(S \cup {x}) /\ Cardinality(S \cup {x}) <= Cardinality(S) + 1
    BY <1>1, FS_AddElement
  <1>3. IsFiniteSet(T) /\ Cardinality(T) \in Nat /\ Cardinality(T) <= Cardinality(S \cup {x})
    BY <1>2, NoMore
  <1>4. Cardinality(S \cup {x}) \in Nat
    BY <1>2, FS_CardinalityType
  <1> QED
    BY <1>1, <1>2, <1>3, <1>4

LEMMA OneLess ==
  ASSUME NEW S, IsFiniteSet(S), NEW x \in S, NEW T, T \subseteq S \ {x}
  PROVE  IsFiniteSet(T) /\ Cardinality(T) \in Nat /\ Cardinality(T) <= Cardinality(S) - 1
  <1>1. IsFiniteSet(S \ {x}) /\ Cardinality(S \ {x}) = Cardinality(S) - 1
    BY FS_RemoveElement
  <1>2. IsFiniteSet(T) /\ Cardinality(T) \in Nat /\ Cardinality(T) <= Cardinality(S \ {x})
    BY <1>1, NoMore
  <1> QED
    BY <1>1, <1>2

-----------------------------------------------------------------------------
(* Stranded jobs *)

StrandedJobs == {j \in Jobs : Stranded(j)}

\* A step strands at most one more job, and only a fault does: the claim of a
\* job makes its worker the holder, and a settled job is not processing.
LEMMA StrandedStep ==
  ASSUME IInv, [Next]_vars
  PROVE  \/ StrandedJobs' \subseteq StrandedJobs /\ faults' = faults
         \/ /\ faults' = faults + 1
            /\ \E j \in Jobs \cup {NoJob} : StrandedJobs' \subseteq StrandedJobs \cup {j}
  <1> DEFINE Steady == StrandedJobs' \subseteq StrandedJobs /\ faults' = faults
  <1> USE NoJobAssumption DEF IInv, TypeOK, HolderOwnsRow, LocksCoverPending, Holds, HoldingStates, Stranded,
        StrandedJobs, Statuses, WorkerStates
  <1>1. ASSUME NEW p \in Producers, CheckCapacity(p) \/ CapacityCheckFails(p) \/ Insert(p)
        PROVE  Steady
    BY <1>1 DEF CheckCapacity, CapacityCheckFails, Insert
  <1>2. ASSUME NEW w \in Workers, LockRow(w) PROVE Steady
    BY <1>2 DEF LockRow
  <1>3. ASSUME NEW w \in Workers, CommitClaim(w) PROVE Steady
    BY <1>3 DEF CommitClaim
  <1>4. ASSUME NEW w \in Workers, StartHandler(w) \/ FinishHandler(w) PROVE Steady
    BY <1>4 DEF StartHandler, FinishHandler
  <1>5. ASSUME NEW w \in Workers, Complete(w) \/ CompleteRaises(w) PROVE Steady
    BY <1>5 DEF Complete, CompleteRaises, Completed, Release
  <1>6. ASSUME NEW w \in Workers, Fail(w) PROVE Steady
    BY <1>6 DEF Fail, Exhausted, Release
  <1>7. ASSUME NEW w \in Workers, DropJob(w) \/ Stop(w)
        PROVE  /\ faults' = faults + 1
               /\ StrandedJobs' \subseteq StrandedJobs \cup {job[w]}
    BY <1>7 DEF DropJob, Stop, Release
  <1>8. ASSUME NEW w \in Workers, Restart(w) PROVE Steady
    BY <1>8 DEF Restart
  <1>9. ASSUME NEW j \in Jobs, BecomeDue(j) \/ RetryDeadJob(j) \/ PurgeOldJob(j) PROVE Steady
    BY <1>9 DEF BecomeDue, RetryDeadJob, MayRetry, PurgeOldJob
  <1>10. ASSUME UNCHANGED vars PROVE Steady
    BY <1>10 DEF vars
  <1>11. \A w \in Workers : job[w] \in Jobs \cup {NoJob}
    OBVIOUS
  <1> HIDE DEF StrandedJobs
  <1> QED
    BY <1>1, <1>2, <1>3, <1>4, <1>5, <1>6, <1>7, <1>8, <1>9, <1>10, <1>11 DEF Next, WorkerStep

LEMMA StrandedFinite == IsFiniteSet(StrandedJobs) /\ Cardinality(StrandedJobs) \in Nat
  BY FiniteAssumption, FS_Subset, FS_CardinalityType DEF StrandedJobs

LEMMA InitStranded == Init => StrandedNeedsFault
  <1> SUFFICES ASSUME Init PROVE StrandedNeedsFault
    OBVIOUS
  <1>1. {j \in Jobs : Stranded(j)} = {}
    BY DEF Init, Stranded
  <1> QED
    BY <1>1, FS_EmptySet DEF StrandedNeedsFault, Init

LEMMA NextStranded == IInv /\ StrandedNeedsFault /\ [Next]_vars => StrandedNeedsFault'
  <1> SUFFICES ASSUME IInv, StrandedNeedsFault, [Next]_vars
               PROVE  Cardinality(StrandedJobs') <= faults'
    BY DEF StrandedNeedsFault, StrandedJobs, Stranded, Holds
  <1> DEFINE n == Cardinality(StrandedJobs)
  <1>1. n \in Nat /\ n <= faults /\ faults \in Nat
    BY StrandedFinite, BoundsAssumption DEF StrandedNeedsFault, StrandedJobs, IInv, TypeOK
  <1>2. CASE StrandedJobs' \subseteq StrandedJobs /\ faults' = faults
    BY <1>1, <1>2, StrandedFinite, NoMore
  <1>3. ASSUME NEW j, StrandedJobs' \subseteq StrandedJobs \cup {j}, faults' = faults + 1
        PROVE  Cardinality(StrandedJobs') <= faults'
    BY <1>1, <1>3, StrandedFinite, OneMore
  <1> QED
    BY <1>2, <1>3, StrandedStep

\* The jobs left in processing with no worker are at most as many as the
\* crashes, cancellations and lost calls: without one of these none is left.
THEOREM FaultPerStrandedJob == Spec => []StrandedNeedsFault
  <1> QED
    BY Invariance, InitStranded, NextStranded, PTL DEF Spec

-----------------------------------------------------------------------------
(* Backpressure *)

\* The workers that may bring a completed job back to life: their
\* complete_job raised after its commit, and they are about to fail the job.
Reopening == {w \in Workers : pc[w] = "failing" /\ status[job[w]] = "completed"}

\* Each of the three ways to exceed the limit has its counter, and each counter
\* its bound: an admitted producer and a reopening worker stand for the job they
\* may yet add.  BoundedOverrun alone is not inductive: it does not say that
\* admitted producers and reopening workers have been charged for.
Load == Cardinality(Live) + Cardinality(admitted) + Cardinality(Reopening)
Ceiling == QueueLimit + Cardinality(Producers) + Cardinality(Workers) + bypasses - 1

LoadBounded == Load <= Ceiling

LEMMA CountsFinite ==
  ASSUME TypeOK
  PROVE  /\ IsFiniteSet(Live) /\ Cardinality(Live) \in Nat
         /\ IsFiniteSet(admitted) /\ Cardinality(admitted) \in Nat
         /\ IsFiniteSet(Reopening) /\ Cardinality(Reopening) \in Nat
         /\ Cardinality(Reopening) <= Cardinality(Workers)
         /\ Cardinality(Producers) \in Nat /\ Cardinality(Workers) \in Nat
  <1>1. Live \in SUBSET Jobs /\ admitted \in SUBSET Producers /\ Reopening \in SUBSET Workers
    BY DEF Live, Reopening, TypeOK
  <1> QED
    BY <1>1, FiniteAssumption, FS_Subset, FS_CardinalityType

LEMMA InitLoad == ASSUME Producers # {}, Init PROVE LoadBounded
  <1>1. Live = {} /\ admitted = {} /\ Reopening = {} /\ bypasses = 0
    BY DEF Init, Live, Reopening
  <1>2. Cardinality(Producers) \in Nat /\ Cardinality(Producers) # 0 /\ Cardinality(Workers) \in Nat
    BY FiniteAssumption, FS_CardinalityType, FS_EmptySet
  <1> QED
    BY <1>1, <1>2, FS_EmptySet, BoundsAssumption DEF LoadBounded, Load, Ceiling

LEMMA NextLoad == ASSUME IInv, LoadBounded, [Next]_vars PROVE LoadBounded'
  <1> DEFINE nL == Cardinality(Live)
             nA == Cardinality(admitted)
             nR == Cardinality(Reopening)
             nP == Cardinality(Producers)
             nW == Cardinality(Workers)
             Lighter == Live' \subseteq Live /\ Reopening' \subseteq Reopening
  <1>1. /\ IsFiniteSet(Live) /\ IsFiniteSet(admitted) /\ IsFiniteSet(Reopening)
        /\ nL \in Nat /\ nA \in Nat /\ nR \in Nat /\ nP \in Nat /\ nW \in Nat
        /\ nR <= nW /\ bypasses \in Nat /\ QueueLimit \in Nat
    BY CountsFinite, BoundsAssumption DEF IInv, TypeOK
  <1>2. nL + nA + nR <= QueueLimit + nP + nW + bypasses - 1
    BY DEF LoadBounded, Load, Ceiling
  <1>3. SUFFICES nL' + nA' + nR' <= QueueLimit + nP + nW + bypasses' - 1
    BY DEF LoadBounded, Load, Ceiling
  <1> USE NoJobAssumption DEF IInv, TypeOK, HolderOwnsRow, LocksCoverPending, Live, Reopening, Statuses,
        WorkerStates
  <1>4. ASSUME NEW p \in Producers, CheckCapacity(p)
        PROVE  nL' + nA' + nR' <= QueueLimit + nP + nW + bypasses' - 1
    <2>1. Live' = Live /\ Reopening' = Reopening /\ bypasses' = bypasses /\ nL < QueueLimit
      BY <1>4 DEF CheckCapacity, HasCapacity
    <2>2. admitted' \subseteq Producers
      BY <1>4 DEF CheckCapacity
    <2>3. nA' \in Nat /\ nA' <= nP
      BY <2>2, FiniteAssumption, NoMore
    <2> HIDE DEF Live, Reopening
    <2> QED
      BY <1>1, <2>1, <2>3
  <1>5. ASSUME NEW p \in Producers, CapacityCheckFails(p)
        PROVE  nL' + nA' + nR' <= QueueLimit + nP + nW + bypasses' - 1
    <2>1. Live' = Live /\ Reopening' = Reopening /\ bypasses' = bypasses + 1
      BY <1>5 DEF CapacityCheckFails
    <2>2. admitted' \subseteq admitted \cup {p}
      BY <1>5 DEF CapacityCheckFails
    <2> HIDE DEF Live, Reopening
    <2>3. nA' \in Nat /\ nA' <= nA + 1
      BY <1>1, <2>2, OneMore
    <2> QED
      BY <1>1, <1>2, <2>1, <2>3
  <1>6. ASSUME NEW p \in Producers, Insert(p)
        PROVE  nL' + nA' + nR' <= QueueLimit + nP + nW + bypasses' - 1
    <2>1. PICK j \in Jobs : status[j] = "new" /\ status' = [status EXCEPT ![j] = "pending"]
      BY <1>6 DEF Insert
    <2>2. /\ Live' \subseteq Live \cup {j} /\ Reopening' \subseteq Reopening /\ bypasses' = bypasses
          /\ p \in admitted /\ admitted' \subseteq admitted \ {p}
      BY <1>6, <2>1 DEF Insert
    <2> HIDE DEF Live, Reopening
    <2>3. /\ nL' \in Nat /\ nL' <= nL + 1
          /\ nA' \in Nat /\ nA' <= nA - 1
          /\ nR' \in Nat /\ nR' <= nR
      BY <1>1, <2>2, OneMore, OneLess, NoMore
    <2> QED
      BY <1>1, <1>2, <2>2, <2>3
  <1>7. ASSUME NEW j \in Jobs, RetryDeadJob(j)
        PROVE  nL' + nA' + nR' <= QueueLimit + nP + nW + bypasses' - 1
    <2>1. /\ Live' \subseteq Live \cup {j} /\ Reopening' \subseteq Reopening
          /\ bypasses' = bypasses + 1 /\ admitted' = admitted
      BY <1>7 DEF RetryDeadJob, MayRetry
    <2> HIDE DEF Live, Reopening
    <2>2. nL' \in Nat /\ nL' <= nL + 1 /\ nR' \in Nat /\ nR' <= nR
      BY <1>1, <2>1, OneMore, NoMore
    <2> QED
      BY <1>1, <1>2, <2>1, <2>2
  <1>8. ASSUME Lighter, admitted' = admitted, bypasses' = bypasses
        PROVE  nL' + nA' + nR' <= QueueLimit + nP + nW + bypasses' - 1
    <2> HIDE DEF Live, Reopening
    <2>1. nL' \in Nat /\ nL' <= nL /\ nR' \in Nat /\ nR' <= nR
      BY <1>1, <1>8, NoMore
    <2> QED
      BY <1>1, <1>2, <1>8, <2>1
  <1>9. ASSUME NEW w \in Workers, Complete(w)
        PROVE  Lighter /\ admitted' = admitted /\ bypasses' = bypasses
    BY <1>9 DEF Complete, Completed, Release, SingleHolder, Holds, HoldingStates
  <1>10. ASSUME NEW w \in Workers, CompleteRaises(w)
         PROVE  nL' + nA' + nR' <= QueueLimit + nP + nW + bypasses' - 1
    <2>1. status[job[w]] = "processing" /\ job[w] \in Live
      BY <1>10 DEF CompleteRaises
    <2>2. admitted' = admitted /\ bypasses' = bypasses
      BY <1>10 DEF CompleteRaises
    <2>3. CASE status' = status
      <3>1. Lighter
        BY <1>10, <2>1, <2>3 DEF CompleteRaises
      <3> QED
        BY <1>8, <2>2, <3>1
    <2>4. CASE status' = Completed(job[w])
      <3>1. Live' \subseteq Live \ {job[w]}
        BY <1>10, <2>1, <2>4 DEF CompleteRaises, Completed
      <3>2. Reopening' \subseteq Reopening \cup {w}
        BY <1>10, <2>1, <2>4 DEF CompleteRaises, Completed, SingleHolder, Holds, HoldingStates
      <3> HIDE DEF Live, Reopening
      <3>3. nL' \in Nat /\ nL' <= nL - 1 /\ nR' \in Nat /\ nR' <= nR + 1
        BY <1>1, <2>1, <3>1, <3>2, OneMore, OneLess
      <3> QED
        BY <1>1, <1>2, <2>2, <3>3
    <2> QED
      BY <1>10, <2>3, <2>4 DEF CompleteRaises
  <1>11. ASSUME NEW w \in Workers, Fail(w)
         PROVE  nL' + nA' + nR' <= QueueLimit + nP + nW + bypasses' - 1
    <2>1. admitted' = admitted /\ bypasses' = bypasses
      BY <1>11 DEF Fail
    <2>2. CASE status[job[w]] # "completed"
      <3>1. Lighter
        BY <1>11, <2>2 DEF Fail, Release
      <3> QED
        BY <1>8, <2>1, <3>1
    <2>3. CASE status[job[w]] = "completed"
      <3>1. Live' \subseteq Live \cup {job[w]} /\ w \in Reopening /\ Reopening' \subseteq Reopening \ {w}
        BY <1>11, <2>3 DEF Fail, Release
      <3> HIDE DEF Live, Reopening
      <3>2. nL' \in Nat /\ nL' <= nL + 1 /\ nR' \in Nat /\ nR' <= nR - 1
        BY <1>1, <3>1, OneMore, OneLess
      <3> QED
        BY <1>1, <1>2, <2>1, <3>2
    <2> QED
      BY <2>2, <2>3
  <1>12. ASSUME NEW w \in Workers, CommitClaim(w)
         PROVE  Lighter /\ admitted' = admitted /\ bypasses' = bypasses
    BY <1>12 DEF CommitClaim
  <1>13. ASSUME NEW w \in Workers,
                \/ LockRow(w) \/ StartHandler(w) \/ FinishHandler(w) \/ DropJob(w) \/ Stop(w) \/ Restart(w)
         PROVE  Lighter /\ admitted' = admitted /\ bypasses' = bypasses
    BY <1>13 DEF LockRow, StartHandler, FinishHandler, DropJob, Stop, Restart, Release
  <1>14. ASSUME NEW j \in Jobs, BecomeDue(j) \/ PurgeOldJob(j)
         PROVE  Lighter /\ admitted' = admitted /\ bypasses' = bypasses
    BY <1>14 DEF BecomeDue, PurgeOldJob
  <1>15. CASE UNCHANGED vars
    BY <1>1, <1>2, <1>15 DEF vars
  <1> HIDE DEF Live, Reopening
  <1> QED
    BY <1>4, <1>5, <1>6, <1>7, <1>8, <1>9, <1>10, <1>11, <1>12, <1>13, <1>14, <1>15 DEF Next, WorkerStep

\* The check of enqueue lets the queue exceed its limit by no more than the
\* producers that passed it and have not inserted, the workers that reopen a
\* completed job and the insertions that bypassed it.  (With no producer and no
\* limit there is nothing to count, and no job.)
THEOREM OverrunIsBounded ==
  ASSUME Producers # {}
  PROVE  Spec => []BoundedOverrun
  <1>1. IInv /\ LoadBounded => BoundedOverrun
    <2> SUFFICES ASSUME IInv, LoadBounded PROVE BoundedOverrun
      OBVIOUS
    <2> QED
      BY CountsFinite, BoundsAssumption DEF IInv, TypeOK, LoadBounded, Load, Ceiling, BoundedOverrun
  <1>2. Init => LoadBounded
    BY InitLoad
  <1>3. IInv /\ LoadBounded /\ [Next]_vars => LoadBounded'
    BY NextLoad
  <1> QED
    BY <1>1, <1>2, <1>3, Invariance, PTL DEF Spec

=============================================================================
