------------------------------ MODULE JobQueue ------------------------------
(***************************************************************************)
(* The PostgreSQL job queue of backend/services/job_queue.py together with *)
(* the stored functions claim_job, complete_job and fail_job of            *)
(* backend/init-db.sql: one queue, the coroutines that call enqueue, and   *)
(* the worker_loop tasks that claim, run and settle jobs.                  *)
(*                                                                         *)
(* Time is abstract.  `due' says whether scheduled_for has been reached;   *)
(* created_at is the rank of the INSERT.  A claim is two steps, because    *)
(* FOR UPDATE SKIP LOCKED matters only between taking the row lock and     *)
(* committing the UPDATE.                                                  *)
(***************************************************************************)
EXTENDS Integers, FiniteSets

CONSTANTS
    Jobs,          \* the job ids (UUIDs) that may ever be inserted
    Workers,       \* the worker_loop tasks of this queue
    Producers,     \* the coroutines that call enqueue
    NoJob,         \* "this worker holds no job"
    Priority,      \* Priority[j]: 1 is served first
    MaxAttempts,   \* max_attempts of every job
    QueueLimit,    \* _get_queue_limit
    MaxFaults,     \* bound on crashes, cancellations and lost database calls
    MaxBypasses    \* bound on insertions the capacity check did not admit

ASSUME NoJobAssumption == NoJob \notin Jobs
ASSUME FiniteAssumption ==
    IsFiniteSet(Jobs) /\ IsFiniteSet(Workers) /\ IsFiniteSet(Producers)
ASSUME PriorityAssumption == Priority \in [Jobs -> 1..10]
ASSUME BoundsAssumption ==
    /\ MaxAttempts \in Nat \ {0}
    /\ QueueLimit \in Nat
    /\ MaxFaults \in Nat
    /\ MaxBypasses \in Nat

VARIABLES
    status,     \* job_queue.status; "new" before the INSERT, "purged" after the DELETE
    attempts,   \* job_queue.attempts
    due,        \* scheduled_for <= CURRENT_TIMESTAMP
    created,    \* rank of created_at, 0 before the INSERT
    pc,         \* where each worker_loop is
    job,        \* the job each worker_loop is locking or has claimed
    admitted,   \* the producers between the COUNT and the INSERT of enqueue
    faults,     \* how many faults have happened so far
    bypasses    \* how many jobs have become live with no capacity check

vars == <<status, attempts, due, created, pc, job, admitted, faults, bypasses>>

Statuses == {"new", "pending", "processing", "completed", "dead", "purged"}
WorkerStates ==
    {"idle", "locking", "claimed", "running", "completing", "failing", "stopped"}
HoldingStates == {"claimed", "running", "completing", "failing"}

TypeOK ==
    /\ status \in [Jobs -> Statuses]
    /\ attempts \in [Jobs -> Nat]
    /\ due \in [Jobs -> BOOLEAN]
    /\ created \in [Jobs -> Nat]
    /\ pc \in [Workers -> WorkerStates]
    /\ job \in [Workers -> Jobs \cup {NoJob}]
    /\ admitted \subseteq Producers
    /\ faults \in 0..MaxFaults
    /\ bypasses \in 0..MaxBypasses

Init ==
    /\ status = [j \in Jobs |-> "new"]
    /\ attempts = [j \in Jobs |-> 0]
    /\ due = [j \in Jobs |-> FALSE]
    /\ created = [j \in Jobs |-> 0]
    /\ pc = [w \in Workers |-> "idle"]
    /\ job = [w \in Workers |-> NoJob]
    /\ admitted = {}
    /\ faults = 0
    /\ bypasses = 0

-----------------------------------------------------------------------------
(* Producers: enqueue counts, then inserts. *)

Live == {j \in Jobs : status[j] \in {"pending", "processing"}}

\* Mutant: the capacity check forgets the jobs being processed.
CapacityCountPendingOnly ==
    Cardinality({j \in Jobs : status[j] = "pending"}) < QueueLimit

HasCapacity == Cardinality(Live) < QueueLimit

\* The SELECT COUNT finds room.  (A full queue makes enqueue return or raise
\* without a change of state.)
CheckCapacity(p) ==
    /\ p \notin admitted
    /\ HasCapacity
    /\ admitted' = admitted \cup {p}
    /\ UNCHANGED <<status, attempts, due, created, pc, job, faults, bypasses>>

\* The check raises: the exception is logged and the INSERT goes ahead.
CapacityCheckFails(p) ==
    /\ p \notin admitted
    /\ bypasses < MaxBypasses
    /\ admitted' = admitted \cup {p}
    /\ bypasses' = bypasses + 1
    /\ UNCHANGED <<status, attempts, due, created, pc, job, faults>>

\* The INSERT; the job is due at once, or later when delay_seconds > 0.
Insert(p) ==
    /\ p \in admitted
    /\ admitted' = admitted \ {p}
    /\ \E j \in Jobs, now \in BOOLEAN :
        /\ status[j] = "new"
        /\ status' = [status EXCEPT ![j] = "pending"]
        /\ due' = [due EXCEPT ![j] = now]
        /\ created' = [created EXCEPT ![j] =
                            Cardinality({i \in Jobs : status[i] # "new"}) + 1]
    /\ UNCHANGED <<attempts, pc, job, faults, bypasses>>

-----------------------------------------------------------------------------
(* Workers: claim_job, the handler, complete_job and fail_job. *)

RowLocked(j) == \E v \in Workers : pc[v] = "locking" /\ job[v] = j

\* Mutant: plain SELECT instead of FOR UPDATE SKIP LOCKED.
CandidatesIgnoringLocks == {j \in Jobs : status[j] = "pending" /\ due[j]}

\* Mutant: a job that has been attempted is never selected again.
CandidatesFirstAttempt ==
    {j \in Jobs : status[j] = "pending" /\ due[j] /\ ~RowLocked(j) /\ attempts[j] = 0}

Candidates == {j \in Jobs : status[j] = "pending" /\ due[j] /\ ~RowLocked(j)}

\* ORDER BY priority ASC, created_at ASC
Precedes(i, j) ==
    \/ Priority[i] < Priority[j]
    \/ Priority[i] = Priority[j] /\ created[i] <= created[j]

\* The subquery of claim_job locks the first candidate.
LockRow(w) ==
    /\ pc[w] = "idle"
    /\ \E j \in Candidates :
        /\ \A i \in Candidates : Precedes(j, i)
        /\ job' = [job EXCEPT ![w] = j]
    /\ pc' = [pc EXCEPT ![w] = "locking"]
    /\ UNCHANGED <<status, attempts, due, created, admitted, faults, bypasses>>

\* The UPDATE of claim_job commits.
CommitClaim(w) ==
    /\ pc[w] = "locking"
    /\ status' = [status EXCEPT ![job[w]] = "processing"]
    /\ attempts' = [attempts EXCEPT ![job[w]] = @ + 1]
    /\ pc' = [pc EXCEPT ![w] = "claimed"]
    /\ UNCHANGED <<due, created, job, admitted, faults, bypasses>>

\* claim_job (Python) reads the row back and process_job calls the handler.
StartHandler(w) ==
    /\ pc[w] = "claimed"
    /\ pc' = [pc EXCEPT ![w] = "running"]
    /\ UNCHANGED <<status, attempts, due, created, job, admitted, faults, bypasses>>

\* The handler returns, or raises, or there is none for this job_type.
FinishHandler(w) ==
    /\ pc[w] = "running"
    /\ \E next \in {"completing", "failing"} : pc' = [pc EXCEPT ![w] = next]
    /\ UNCHANGED <<status, attempts, due, created, job, admitted, faults, bypasses>>

Release(w) ==
    /\ pc' = [pc EXCEPT ![w] = "idle"]
    /\ job' = [job EXCEPT ![w] = NoJob]

\* Mutant: completion writes JobStatus.FAILED, a status nothing handles.
CompletedAsFailed(j) ==
    IF status[j] = "purged" THEN status ELSE [status EXCEPT ![j] = "failed"]

\* complete_job writes whatever the row's status and owner are now; a row
\* that was deleted is not written.
Completed(j) ==
    IF status[j] = "purged" THEN status ELSE [status EXCEPT ![j] = "completed"]

Complete(w) ==
    /\ pc[w] = "completing"
    /\ ~RowLocked(job[w])
    /\ status' = Completed(job[w])
    /\ Release(w)
    /\ UNCHANGED <<attempts, due, created, admitted, faults, bypasses>>

\* Mutant: complete_job is called outside process_job's try block.
CompleteRaisesUncaught(w) ==
    /\ pc[w] = "completing"
    /\ ~RowLocked(job[w])
    /\ status' \in {status, Completed(job[w])}
    /\ Release(w)
    /\ UNCHANGED <<attempts, due, created, admitted, faults, bypasses>>

\* complete_job raises, before its UPDATE commits or after it (the answer is
\* lost): process_job catches the exception and goes on to fail_job.
CompleteRaises(w) ==
    /\ pc[w] = "completing"
    /\ ~RowLocked(job[w])
    /\ status' \in {status, Completed(job[w])}
    /\ pc' = [pc EXCEPT ![w] = "failing"]
    /\ UNCHANGED <<attempts, due, created, job, admitted, faults, bypasses>>

\* Mutants: an off-by-one either way in fail_job's comparison.
ExhaustedTooLate(j) == attempts[j] > MaxAttempts
ExhaustedTooEarly(j) == attempts[j] + 1 >= MaxAttempts

Exhausted(j) == attempts[j] >= MaxAttempts

\* fail_job: dead letter, or pending again after a backoff.
Fail(w) ==
    LET j == job[w] IN
    /\ pc[w] = "failing"
    /\ ~RowLocked(j)
    /\ \/ /\ status[j] = "purged"
          /\ UNCHANGED <<status, due>>
       \/ /\ status[j] # "purged" /\ Exhausted(j)
          /\ status' = [status EXCEPT ![j] = "dead"]
          /\ UNCHANGED due
       \/ /\ status[j] # "purged" /\ ~Exhausted(j)
          /\ status' = [status EXCEPT ![j] = "pending"]
          /\ due' = [due EXCEPT ![j] = FALSE]
    /\ Release(w)
    /\ UNCHANGED <<attempts, created, admitted, faults, bypasses>>

\* The read-back in claim_job or the call of fail_job raises: worker_loop logs
\* it and polls again, and the row keeps the status it has.
DropJob(w) ==
    /\ pc[w] \in {"claimed", "failing"}
    /\ faults < MaxFaults
    /\ faults' = faults + 1
    /\ Release(w)
    /\ UNCHANGED <<status, attempts, due, created, admitted, bypasses>>

\* The task is cancelled by stop_workers after its timeout, or the process
\* dies: nothing is written, an uncommitted claim is rolled back.
Stop(w) ==
    /\ pc[w] # "stopped"
    /\ faults < MaxFaults
    /\ faults' = faults + 1
    /\ pc' = [pc EXCEPT ![w] = "stopped"]
    /\ job' = [job EXCEPT ![w] = NoJob]
    /\ UNCHANGED <<status, attempts, due, created, admitted, bypasses>>

\* start_workers in the next process.
Restart(w) ==
    /\ pc[w] = "stopped"
    /\ pc' = [pc EXCEPT ![w] = "idle"]
    /\ UNCHANGED <<status, attempts, due, created, job, admitted, faults, bypasses>>

-----------------------------------------------------------------------------
(* Time and the administrator.  (cleanup_cluster_state, which would reset   *)
(* expired locks, is called by nothing.) *)

\* The backoff of fail_job or the delay of enqueue runs out.
BecomeDue(j) ==
    /\ status[j] = "pending" /\ ~due[j]
    /\ due' = [due EXCEPT ![j] = TRUE]
    /\ UNCHANGED <<status, attempts, created, pc, job, admitted, faults, bypasses>>

\* Mutant: the guard status = 'dead' is dropped.
RetryAnySettled(j) == status[j] \in {"dead", "completed"}

MayRetry(j) == status[j] = "dead"

RetryDeadJob(j) ==
    /\ MayRetry(j)
    /\ bypasses < MaxBypasses
    /\ bypasses' = bypasses + 1
    /\ status' = [status EXCEPT ![j] = "pending"]
    /\ attempts' = [attempts EXCEPT ![j] = 0]
    /\ due' = [due EXCEPT ![j] = TRUE]
    /\ UNCHANGED <<created, pc, job, admitted, faults>>

PurgeOldJob(j) ==
    /\ status[j] \in {"completed", "dead"}
    /\ status' = [status EXCEPT ![j] = "purged"]
    /\ UNCHANGED <<attempts, due, created, pc, job, admitted, faults, bypasses>>

-----------------------------------------------------------------------------

WorkerStep(w) ==
    \/ LockRow(w) \/ CommitClaim(w) \/ StartHandler(w) \/ FinishHandler(w)
    \/ Complete(w) \/ CompleteRaises(w) \/ Fail(w)

Next ==
    \/ \E p \in Producers : CheckCapacity(p) \/ CapacityCheckFails(p) \/ Insert(p)
    \/ \E w \in Workers : WorkerStep(w) \/ DropJob(w) \/ Stop(w) \/ Restart(w)
    \/ \E j \in Jobs : BecomeDue(j) \/ RetryDeadJob(j) \/ PurgeOldJob(j)

Spec == Init /\ [][Next]_vars

\* The event loop runs every worker task, handlers end (their calls have
\* timeouts), the container is restarted, and time passes.  Nothing obliges a
\* producer, an administrator or a fault to act.
Fairness ==
    /\ \A w \in Workers : WF_vars(WorkerStep(w)) /\ WF_vars(Restart(w))
    /\ \A j \in Jobs : WF_vars(BecomeDue(j))

FairSpec == Spec /\ Fairness

-----------------------------------------------------------------------------
(* Properties *)

Holds(w, j) == pc[w] \in HoldingStates /\ job[w] = j
Stranded(j) == status[j] = "processing" /\ \A w \in Workers : ~Holds(w, j)

\* No two workers execute or settle the same job: SKIP LOCKED, together with
\* the fact that only a job's holder makes it pending again, is what keeps
\* concurrent worker_loops apart, although complete_job and fail_job check
\* neither owner nor status.
SingleHolder ==
    \A v, w \in Workers : \A j \in Jobs : Holds(v, j) /\ Holds(w, j) => v = w

\* A job is never started more than max_attempts times without an
\* administrator's retry_dead_job, whatever fails in between.
AttemptsBounded == \A j \in Jobs : attempts[j] <= MaxAttempts

\* A job reaches the dead letter queue only once its attempts are used up.
DeadIsExhausted == \A j \in Jobs : status[j] = "dead" => attempts[j] >= MaxAttempts

\* Each job left in processing with no worker behind it is accounted for by a
\* fault: the fault-free program strands nothing.
StrandedNeedsFault == Cardinality({j \in Jobs : Stranded(j)}) <= faults

\* What the backpressure of enqueue really guarantees.  The check and the
\* INSERT are two statements, a job whose completion was not acknowledged
\* comes back, and retries and failed checks are not counted: each of them
\* exceeds the limit by one, and nothing else does.
BoundedOverrun ==
    Cardinality(Live)
        <= QueueLimit + Cardinality(Producers) + Cardinality(Workers) + bypasses - 1

\* A completed job is executed again only when the worker that completed it
\* goes on to fail it (its complete_job raised after the commit).
OnlyItsWorkerReopens ==
    [][\A j \in Jobs : status[j] = "completed" /\ status'[j] \in {"pending", "dead"}
            => \E w \in Workers : pc[w] = "failing" /\ job[w] = j]_vars

\* Every queued job is executed to completion or moved to the dead letter
\* queue, unless a fault strands it.
JobsSettle ==
    \A j \in Jobs :
        status[j] = "pending" ~> \/ status[j] \in {"completed", "dead", "purged"}
                                 \/ Stranded(j)

\* Stuck jobs (processing, with no live worker) are reset.  (Documented, and
\* not so: see the README.)
StuckJobsReset == \A j \in Jobs : Stranded(j) ~> ~Stranded(j)

\* The queue never holds more live jobs than its limit.  (Documented, and not
\* so: BoundedOverrun is what holds.)
CapacityEnforced == Cardinality(Live) <= QueueLimit

-----------------------------------------------------------------------------
(* Refinement of RetryingQueue *)

Keepers == [j \in Jobs |-> {w \in Workers : Holds(w, j)}]

\* A completed row whose worker has not heard of it is still taken.
Unkept == [new |-> "outside", pending |-> "waiting", processing |-> "lost",
           completed |-> "done", dead |-> "buried", purged |-> "gone"]

Place == [j \in Jobs |-> IF Keepers[j] # {} THEN "taken" ELSE Unkept[status[j]]]

Queue == INSTANCE RetryingQueue
            WITH MaxTries <- MaxAttempts, place <- Place, tries <- attempts, keepers <- Keepers

\* Whatever the row locks, the unguarded UPDATEs of complete_job and fail_job,
\* lost answers, crashes and purges do, the queue is a RetryingQueue: one keeper
\* at a time, a bounded number of tries, and done is done.
IsRetryingQueue == Queue!Spec

=============================================================================
