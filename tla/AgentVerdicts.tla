---------------------------- MODULE AgentVerdicts ----------------------------
(***************************************************************************)
(* The verdict of one alert in the hands of the agents: the scheduler's    *)
(* sweeps that queue it (backend/services/agent_scheduler.py), the job     *)
(* agent_auto_triage (job_queue.py), the end of an agent's run and its     *)
(* handlers (agent_executor.py), and what else writes the row meanwhile:   *)
(* the triage of AlertIntake, correlation, the reviews of                  *)
(* InvestigationReview.                                                    *)
(*                                                                         *)
(* A verdict that found the alert malicious with a confidence of 0.80 or   *)
(* more is to be kept.  Each writer reads the row to see whether there is  *)
(* one, and writes in another statement.                                   *)
(***************************************************************************)
EXTENDS Naturals, FiniteSets

CONSTANTS
    Tasks,       \* workers and request handlers
    MaxManual,   \* bound on runs and jobs that analysts ask for
    MaxOutside,  \* bound on triages, correlations and reviews
    MaxFaults,   \* bound on failed runs, failed steps and crashes
    MaxEvents    \* bound on all of these together

ASSUME VerdictsAssumption ==
    /\ IsFiniteSet(Tasks)
    /\ {MaxManual, MaxOutside, MaxFaults, MaxEvents} \subseteq Nat

VARIABLES
    policy,   \* the tier 1 agent's guardrails let it close alerts; never changes
    verdict,  \* alerts.ai_verdict, with its confidence
    status,   \* alerts.status
    link,     \* alerts.investigation_id
    opened,   \* investigations whose alert_id is the alert
    queued,   \* alerts.ai_triage_queued
    due,      \* 10 minutes have passed since ai_triage_queued_at
    pending,  \* pending agent_auto_triage jobs of the alert
    sweep,    \* where the scheduler's loop is
    task,     \* what each task is doing
    used,     \* how much of each bound is used up
    excuse    \* history: what may explain a departure from the rules

row == <<verdict, status, link, opened>>
queue == <<queued, due, pending, sweep>>
vars == <<policy, row, queue, task, used, excuse>>

\* `sure' and `weak' are malicious or true_positive, from 0.80 up and below.
\* `unclear' stands for needs_escalation, inconclusive and the like.
Findings == {"suspicious", "weak", "sure"}
Verdicts == {"benign", "unclear"} \cup Findings
Closed == {"resolved", "closed"}
Statuses == {"open", "triaged", "investigating"} \cup Closed
Points == {"idle", "classifying", "attaching", "asking", "overwriting", "seeking", "opening",
           "linking", "advising", "downgrading", "storing", "attending"}

TypeOK ==
    /\ policy \in BOOLEAN
    /\ verdict \in Verdicts \cup {"none"}
    /\ status \in Statuses
    /\ link \in {"none", "own", "other"}
    /\ opened \in Nat
    /\ queued \in BOOLEAN
    /\ due \in BOOLEAN
    /\ pending \in Nat
    /\ sweep \in {"idle", "enqueueing", "marking"}
    /\ task \in [Tasks -> [pc : Points, verdict : Verdicts \cup {"none"}, triage : BOOLEAN]]
    /\ used \in [manual : 0..MaxManual, outside : 0..MaxOutside, faults : 0..MaxFaults]
    /\ excuse \subseteq {"overlap", "fault"}

Idle == [pc |-> "idle", verdict |-> "none", triage |-> FALSE]
At(t, point) == task[t].pc = point
Goes(t, point) == task' = [task EXCEPT ![t].pc = point]
Ends(t) == task' = [task EXCEPT ![t] = Idle]
Active == {t \in Tasks : ~At(t, "idle")}
Uses(bound, limit) ==
    /\ used[bound] < limit /\ used.manual + used.outside + used.faults < MaxEvents
    /\ used' = [used EXCEPT ![bound] = @ + 1]
Finds(t, point, v) == task' = [task EXCEPT ![t].pc = point, ![t].verdict = v]

\* A task begins, while others may be at work on the alert.
Begins(t, point, triage) ==
    /\ At(t, "idle")
    /\ task' = [task EXCEPT ![t] = [Idle EXCEPT !.pc = point, !.triage = triage]]
    /\ excuse' = excuse \cup (IF Active # {} THEN {"overlap"} ELSE {})

\* The guard T1_NO_OVERWRITE, T2_NO_DOWNGRADE and T1_SKIP have in common.
Linked == link # "none"

\* Mutant: only what has led to an investigation is kept.
KeptIfLinked == verdict = "sure" /\ Linked

Kept == verdict = "sure"

\* Mutant: the status agents used to set for a person's attention.
NeedsReview == IF status \in Closed THEN status ELSE "needs_review"

TriagedUnlessClosed == IF status \in Closed THEN status ELSE "triaged"

Init ==
    /\ policy \in BOOLEAN
    /\ verdict = "none" /\ status = "open" /\ link = "none" /\ opened = 0
    /\ queued = FALSE /\ due = FALSE /\ pending = 0 /\ sweep = "idle"
    /\ task = [t \in Tasks |-> Idle]
    /\ used = [manual |-> 0, outside |-> 0, faults |-> 0]
    /\ excuse = {}

-----------------------------------------------------------------------------
(* agent_scheduler: _process_orphaned_alerts, _find_untriaged_events *)

\* Mutant: an alert that was queued once is left to its job.
UnqueuedOnly == verdict = "none" /\ status = "open" /\ ~queued

NeverTriaged == verdict = "none" /\ status = "open" /\ (~queued \/ due)

\* A job that is processing does not count: its status is not `running'.
IsOrphan ==
    /\ NeverTriaged \/ (verdict \in Findings /\ ~Linked /\ ~queued)
    /\ status \notin Closed
    /\ pending = 0

IsUntriaged == status \in {"open", "investigating"} /\ ~queued /\ ~Kept

Selects ==
    /\ sweep = "idle" /\ (IsOrphan \/ IsUntriaged)
    /\ sweep' = "enqueueing"
    /\ UNCHANGED <<policy, row, queued, due, pending, task, used, excuse>>

Enqueues ==
    /\ sweep = "enqueueing"
    /\ pending' = pending + 1
    /\ sweep' = "marking"
    /\ UNCHANGED <<policy, row, queued, due, task, used, excuse>>

MarksQueued ==
    /\ sweep = "marking"
    /\ queued' = TRUE /\ due' = FALSE
    /\ sweep' = "idle"
    /\ UNCHANGED <<policy, row, pending, task, used, excuse>>

TimePasses ==
    /\ queued /\ ~due
    /\ due' = TRUE
    /\ UNCHANGED <<policy, row, queued, pending, sweep, task, used, excuse>>

\* routes/agents.py: queue_auto_triage
QueuesByHand ==
    /\ Uses("manual", MaxManual)
    /\ pending' = pending + 1
    /\ UNCHANGED <<policy, row, queued, due, sweep, task, excuse>>

-----------------------------------------------------------------------------
(* handle_agent_auto_triage, up to the agent's run *)

Takes(t) ==
    /\ pending > 0
    /\ pending' = pending - 1
    /\ Begins(t, "classifying", FALSE)
    /\ ~Kept
    /\ UNCHANGED <<policy, row, queued, due, sweep, used>>

Skips(t) ==
    /\ At(t, "idle")
    /\ pending > 0 /\ Kept
    /\ pending' = pending - 1
    /\ UNCHANGED <<policy, row, queued, due, sweep, task, used, excuse>>

ClassifiesBenign(t) ==
    /\ At(t, "classifying")
    /\ verdict' = "benign" /\ status' = "closed"
    /\ Ends(t)
    /\ UNCHANGED <<policy, link, opened, queue, used, excuse>>

ClassifiesMalicious(t) ==
    /\ At(t, "classifying")
    /\ verdict' = "sure"
    /\ Goes(t, "attaching")
    /\ UNCHANGED <<policy, status, link, opened, queue, used, excuse>>

\* The column is a UUID and is given an INV number: the UPDATE raises, and the
\* handler goes on as if the classifier had failed.
Attaches(t) ==
    /\ At(t, "attaching")
    /\ IF Linked THEN Ends(t) ELSE Goes(t, "asking")
    /\ UNCHANGED <<policy, row, queue, used, excuse>>

ClassifiesNothing(t) ==
    /\ At(t, "classifying")
    /\ Goes(t, "asking")
    /\ UNCHANGED <<policy, row, queue, used, excuse>>

-----------------------------------------------------------------------------
(* run_agent and its handlers, tier 1 *)

\* routes/agents.py: an analyst runs an agent on the alert.
RunsByHand(t) ==
    /\ Uses("manual", MaxManual)
    /\ \E point \in {"asking", "advising"} : Begins(t, point, FALSE)
    /\ UNCHANGED <<policy, row, queue>>

\* _handle_auto_close, closing: allowed and confident.
AutoCloses(t) ==
    /\ At(t, "asking") /\ policy
    /\ verdict' = "benign" /\ status' = "resolved"
    /\ Ends(t)
    /\ UNCHANGED <<policy, link, opened, queue, used, excuse>>

\* _handle_auto_close, not closing.
FindsBenign(t) ==
    /\ At(t, "asking")
    /\ IF Kept THEN Ends(t) ELSE Goes(t, "overwriting")
    /\ UNCHANGED <<policy, row, queue, used, excuse>>

Overwrites(t) ==
    /\ At(t, "overwriting")
    /\ verdict' = "benign"
    /\ status' = IF status = "open" THEN "triaged" ELSE status
    /\ Ends(t)
    /\ UNCHANGED <<policy, link, opened, queue, used, excuse>>

\* _handle_true_positive and _handle_suspicious_escalation: an alert that is
\* linked keeps its verdict, or its want of one.
FindsThreat(t) ==
    /\ At(t, "asking")
    /\ \E v \in Findings : IF Linked THEN Ends(t) ELSE Finds(t, "seeking", v)
    /\ UNCHANGED <<policy, row, queue, used, excuse>>

Seeks(t) ==
    /\ At(t, "seeking")
    /\ Goes(t, IF opened > 0 THEN "linking" ELSE "opening")
    /\ UNCHANGED <<policy, row, queue, used, excuse>>

Opens(t) ==
    /\ At(t, "opening")
    /\ opened' = opened + 1
    /\ Goes(t, "linking")
    /\ UNCHANGED <<policy, verdict, status, link, queue, used, excuse>>

\* An escalation also writes its verdict, and queues Riggs (InvestigationReview).
Links(t) ==
    /\ At(t, "linking")
    /\ link' = "own"
    /\ IF task[t].triage
       THEN status' = "triaged" /\ UNCHANGED verdict
       ELSE status' = "investigating" /\ verdict' = task[t].verdict
    /\ Ends(t)
    /\ UNCHANGED <<policy, opened, queue, used, excuse>>

\* Any other verdict, or none within the limit of iterations.
FindsLittle(t) ==
    /\ At(t, "asking")
    /\ verdict' \in {"unclear", "suspicious"}
    /\ status' = TriagedUnlessClosed
    /\ Ends(t)
    /\ UNCHANGED <<policy, link, opened, queue, used, excuse>>

-----------------------------------------------------------------------------
(* _handle_tier2_completion *)

\* Benign: investigations has no column `resolution', the first UPDATE raises.
\* Otherwise no investigation, or one the alert is not linked to.
AdvisesInVain(t) ==
    /\ At(t, "advising")
    /\ Ends(t)
    /\ UNCHANGED <<policy, row, queue, used, excuse>>

AdvisesMalicious(t) ==
    /\ At(t, "advising") /\ link = "own"
    /\ verdict' \in {"weak", "sure"}
    /\ Ends(t)
    /\ UNCHANGED <<policy, status, link, opened, queue, used, excuse>>

AdvisesDoubt(t) ==
    /\ At(t, "advising") /\ link = "own"
    /\ IF Kept THEN Ends(t) ELSE Goes(t, "downgrading")
    /\ UNCHANGED <<policy, row, queue, used, excuse>>

Downgrades(t) ==
    /\ At(t, "downgrading")
    /\ IF link = "own" THEN verdict' \in {"unclear", "suspicious"} ELSE UNCHANGED verdict
    /\ Ends(t)
    /\ UNCHANGED <<policy, status, link, opened, queue, used, excuse>>

-----------------------------------------------------------------------------
(* What else writes the row *)

\* triage_alert comes to _store_verdict.
Triages(t) ==
    /\ Uses("outside", MaxOutside)
    /\ Begins(t, "storing", TRUE)
    /\ UNCHANGED <<policy, row, queue>>

StoresClosing(t) ==
    /\ At(t, "storing")
    /\ verdict' = "benign" /\ status' = "closed"
    /\ Ends(t)
    /\ UNCHANGED <<policy, link, opened, queue, used, excuse>>

\* A finding is followed by an investigation, other verdicts may be.
Stores(t) ==
    /\ At(t, "storing")
    /\ \E v \in Verdicts :
          /\ verdict' = v
          /\ \/ Finds(t, "attending", v)
             \/ v \notin Findings /\ Ends(t)
    /\ status' = "triaged"
    /\ UNCHANGED <<policy, link, opened, queue, used, excuse>>

\* Mutant: the alert's link is not looked at.
AlwaysUnattended == TRUE

Unattended == ~Linked

\* _create_investigation_from_triage
Attends(t) ==
    /\ At(t, "attending")
    /\ IF Unattended THEN Goes(t, "opening") ELSE Ends(t)
    /\ UNCHANGED <<policy, row, queue, used, excuse>>

\* correlate_alert finds a related investigation.
Correlates ==
    /\ Uses("outside", MaxOutside)
    /\ link' = "other" /\ status' = "triaged"
    /\ UNCHANGED <<policy, verdict, opened, queue, task, excuse>>

\* Riggs, or a Deep Dive, closes the investigation and with it the alert.
ReviewCloses ==
    /\ Linked /\ status \notin Closed
    /\ Uses("outside", MaxOutside)
    /\ verdict' = "benign" /\ status' = "closed"
    /\ UNCHANGED <<policy, link, opened, queue, task, excuse>>

-----------------------------------------------------------------------------
(* Failures *)

Faulted == Uses("faults", MaxFaults) /\ excuse' = excuse \cup {"fault"}

\* The model fails or a statement raises: the handlers and run_agent swallow the
\* exception. Or the process stops; a job that failed is retried.
TaskFails(t) ==
    /\ ~At(t, "idle") /\ Faulted
    /\ pending' \in {pending, pending + 1}
    /\ Ends(t)
    /\ UNCHANGED <<policy, row, queued, due, sweep>>

\* The queue is full, or the scheduler stops.
SweepFails ==
    /\ sweep # "idle" /\ Faulted
    /\ sweep' = "idle"
    /\ UNCHANGED <<policy, row, queued, due, pending, task>>

-----------------------------------------------------------------------------

Sweeps == Selects \/ Enqueues \/ MarksQueued

Works(t) ==
    \/ ClassifiesBenign(t) \/ ClassifiesMalicious(t) \/ ClassifiesNothing(t) \/ Attaches(t)
    \/ AutoCloses(t) \/ FindsBenign(t) \/ Overwrites(t)
    \/ FindsThreat(t) \/ Seeks(t) \/ Opens(t) \/ Links(t) \/ FindsLittle(t)
    \/ AdvisesInVain(t) \/ AdvisesMalicious(t) \/ AdvisesDoubt(t) \/ Downgrades(t)
    \/ StoresClosing(t) \/ Stores(t) \/ Attends(t)

Next ==
    \/ Sweeps \/ TimePasses \/ QueuesByHand
    \/ Correlates \/ ReviewCloses \/ SweepFails
    \/ \E t \in Tasks :
          Takes(t) \/ Skips(t) \/ Works(t) \/ RunsByHand(t) \/ Triages(t) \/ TaskFails(t)

Spec == Init /\ [][Next]_vars

\* The scheduler loops, time passes, workers poll, and what runs goes on.
FairSpec ==
    /\ Spec /\ WF_vars(Sweeps) /\ WF_vars(TimePasses)
    /\ \A t \in Tasks : WF_vars(Takes(t) \/ Skips(t)) /\ WF_vars(Works(t))

-----------------------------------------------------------------------------
(* Properties *)

\* A confident finding gives way to a benign verdict only where the guardrails
\* let the agent close the alert, a triage or review says so, or tasks
\* overlapped: three agents' guards and the job's, each read before the write,
\* do for one task at a time (agent_executor.py:6073, job_queue.py:918).
AgentsNeverBury ==
    [][verdict = "sure" /\ verdict' = "benign" =>
          \/ policy \/ "overlap" \in excuse \/ used'.outside > used.outside
          \/ \E t \in Tasks : At(t, "storing") /\ ~At(t, "storing")']_vars

\* A second investigation is opened for the alert only if tasks overlapped or a
\* step failed: the two agents' handlers and the triage make different checks,
\* and still see each other's (agent_executor.py:6441, ai_triage_service.py:4086).
OpenedOnce == opened > 1 => excuse # {}

\* No open alert goes without a verdict: the sweeps queue it again until it has
\* one, whatever failed, unless it is correlated (agent_scheduler.py:1104).
Answered == (status = "open" /\ verdict = "none") ~> (status # "open" \/ verdict # "none")

\* An alert found malicious that has no investigation is queued, to get one
\* (agent_scheduler.py:1056). (Documented, and not so: the job skips it.)
FindingsGetInvestigated ==
    (verdict = "sure" /\ ~Linked /\ status \notin Closed) ~>
        (verdict # "sure" \/ Linked \/ status \in Closed)
=============================================================================
