------------------------- MODULE InvestigationReview -------------------------
(***************************************************************************)
(* The review of one investigation by Riggs, from its creation to a state  *)
(* that waits for a person: the sweep of backend/services/                 *)
(* agent_scheduler.py, the handlers riggs_analysis and                     *)
(* agent_analyze_investigation of backend/services/job_queue.py, the       *)
(* flight guard of backend/agents/riggs.py, and what else writes the row   *)
(* meanwhile: T1 triage and agents run on an alert linked to it,           *)
(* correlation of later alerts, the asset lookup, Deep Dive, analysts.     *)
(*                                                                         *)
(* The row has a state, a disposition and a JSON document.  Most writers   *)
(* read the whole document, work for a while, and write the whole document *)
(* back: what another writer put there in between is gone.                 *)
(***************************************************************************)
EXTENDS Naturals, FiniteSets

CONSTANTS
    Tasks,            \* workers and request handlers that touch the row
    Paid,             \* the tenant's plan has unlimited Deep Dives
    MaxUpdates,       \* bound on T1 triages of alerts linked to the row
    MaxCorrelations,  \* bound on alerts correlated to the row
    MaxAgents,        \* bound on verdicts of agents that run on an alert of the row
    MaxLookups,       \* bound on lookups of the assets of the row
    MaxHuman,         \* bound on what analysts do
    MaxFaults,        \* bound on exceptions and process crashes
    MaxEvents         \* bound on all of these together

ASSUME ReviewAssumption ==
    /\ IsFiniteSet(Tasks)
    /\ Paid \in BOOLEAN
    /\ {MaxUpdates, MaxCorrelations, MaxAgents, MaxLookups, MaxHuman, MaxFaults, MaxEvents}
          \subseteq Nat

VARIABLES
    state,        \* investigations.state
    disposition,
    data,         \* investigation_data, as far as decisions depend on it
    overdue,      \* 30 minutes have passed since riggs_started_at
    chatted,      \* the investigation's chat holds a message of an agent
    riggsJobs,    \* riggs_analysis jobs: pending, and processing with no worker
    analysisJobs, \* agent_analyze_investigation jobs: pending, and whether one
                  \* is completed or processing with no worker
    diving,       \* a Deep Dive is in progress; how many is left open
    sweep,        \* where the scheduler's sweep is
    task,         \* what each task is doing
    used,         \* how much of each bound is used up
    excuse,       \* history: what has weakened the flight guard
    analyses      \* history: Riggs analyses written, saturating at 2

vars == <<state, disposition, data, overdue, chatted, riggsJobs, analysisJobs,
          diving, sweep, task, used, excuse, analyses>>

\* IN_PROGRESS stands for the other states that analysts set, too (OPEN, ESCALATED,
\* and NEEDS_REVIEW and AWAITING_HUMAN set by hand): nothing here tells them apart.
Terminal == {"CLOSED", "RESOLVED"}
Swept == {"ANALYZING", "TRIAGE_PROVISIONAL"}
States == {"NEW", "NEEDS_REVIEW", "AWAITING_HUMAN", "IN_PROGRESS"} \cup Swept \cup Terminal
Dispositions == {"benign", "harmful"}
Documents == [status : {"none", "RUNNING", "COMPLETE", "FAILED"},
              analysis : BOOLEAN]
Flying == {"reading", "asking", "writing", "following"}
RiggsPoints == {"marking"} \cup Flying \cup {"completing", "marked"}
Analysing == {"starting", "valuing", "analysing", "merging"}
Points == {"idle", "escalating", "linking", "ensuring", "enriching"} \cup Analysing \cup RiggsPoints
Plans == {"none", "review", "close"}
Excuses == {"overran", "overwritten", "reset"}
Bounds == [updates : 0..MaxUpdates, correlations : 0..MaxCorrelations,
           agents : 0..MaxAgents, lookups : 0..MaxLookups,
           human : 0..MaxHuman, faults : 0..MaxFaults]

TypeOK ==
    /\ state \in States
    /\ disposition \in Dispositions
    /\ data \in Documents
    /\ overdue \in BOOLEAN
    /\ chatted \in BOOLEAN
    /\ riggsJobs \in [pending : Nat, stuck : 0..MaxFaults]
    /\ analysisJobs \in [pending : Nat, seen : BOOLEAN]
    /\ diving \in BOOLEAN
    /\ sweep \in {"idle", "reading", "moving", "enqueueing", "renewing"}
    /\ task \in [Tasks -> [pc : Points, read : Documents, plan : Plans]]
    /\ used \in Bounds
    /\ excuse \subseteq Excuses
    /\ analyses \in 0..2

Blank == [status |-> "none", analysis |-> FALSE]
Idle == [pc |-> "idle", read |-> Blank, plan |-> "none"]

At(t, point) == task[t].pc = point
Busy(points) == {t \in Tasks : task[t].pc \in points}
Goes(t, point) == task' = [task EXCEPT ![t].pc = point]
Ends(t) == task' = [task EXCEPT ![t] = Idle]
Reads(t, point, plan) ==
    task' = [task EXCEPT ![t] = [pc |-> point, read |-> data, plan |-> plan]]
Events ==
    used.updates + used.correlations + used.agents + used.lookups + used.human + used.faults
Uses(bound, limit) ==
    /\ used[bound] < limit /\ Events < MaxEvents
    /\ used' = [used EXCEPT ![bound] = @ + 1]

\* A writer other than Riggs replaces the document by what it read earlier.
Replaces(t) ==
    /\ data' = task[t].read
    /\ excuse' = excuse \cup (IF task[t].read.status # data.status
                                 \/ task[t].read.analysis # data.analysis
                              THEN {"overwritten"} ELSE {})

\* Started when the document holds no Deep Dive yet, which may be so whether or
\* not one is in progress.
MayDive == diving' \in {diving, Paid}

jobs == <<riggsJobs, analysisJobs, diving>>
row == <<state, disposition, data>>
clock == <<overdue, chatted>>

\* Created by T1 triage, or NEW by the enrichment that found a malicious
\* indicator: both queue an analysis job, and a Deep Dive if the plan has them.
ByTriage ==
    /\ analysisJobs = [pending |-> 1, seen |-> FALSE]
    /\ diving = Paid
    /\ task = [t \in Tasks |-> Idle]

\* Created by an agent's escalation of an alert, which is yet to queue Riggs.
ByAgent ==
    /\ analysisJobs = [pending |-> 0, seen |-> FALSE]
    /\ diving = FALSE
    /\ \E agent \in Tasks :
          task = [t \in Tasks |-> IF t = agent THEN [Idle EXCEPT !.pc = "escalating"] ELSE Idle]

Init ==
    /\ \/ /\ state = "TRIAGE_PROVISIONAL"
          /\ disposition \in Dispositions
          /\ ByTriage
       \/ /\ state = "NEW"
          /\ disposition = "harmful"
          /\ ByTriage
       \/ /\ state = "ANALYZING"
          /\ disposition = "harmful"
          /\ ByAgent
    /\ data = Blank
    /\ overdue = FALSE
    /\ chatted = FALSE
    /\ riggsJobs = [pending |-> 0, stuck |-> 0]
    /\ sweep = "idle"
    /\ used = [updates |-> 0, correlations |-> 0, agents |-> 0, lookups |-> 0,
               human |-> 0, faults |-> 0]
    /\ excuse = {}
    /\ analyses = 0

-----------------------------------------------------------------------------
(* agent_scheduler: _process_riggs_review_queue, _auto_start_riggs_analysis *)

SweepStep == UNCHANGED <<disposition, data, clock, diving, task, used, excuse, analyses>>

SweepFinds ==
    /\ sweep = "idle"
    /\ state \in Swept
    /\ sweep' = "reading"
    /\ SweepStep /\ UNCHANGED <<state, riggsJobs, analysisJobs>>

NoRiggsJob == riggsJobs.pending = 0 /\ riggsJobs.stuck = 0 /\ Busy(RiggsPoints) = {}

\* Mutant: a row that already has its analysis is passed over.
SweepFollowsFresh ==
    IF data.analysis \/ data.status # "none" \/ chatted \/ ~NoRiggsJob
    THEN "idle" ELSE "enqueueing"

SweepFollows ==
    IF data.analysis THEN "moving"
    ELSE IF data.status # "none" \/ chatted \/ ~NoRiggsJob THEN "idle" ELSE "enqueueing"

SweepReads ==
    /\ sweep = "reading"
    /\ sweep' = SweepFollows
    /\ SweepStep /\ UNCHANGED <<state, riggsJobs, analysisJobs>>

SweepMoves ==
    /\ sweep = "moving"
    /\ state' = "NEEDS_REVIEW"
    /\ sweep' = "idle"
    /\ SweepStep /\ UNCHANGED <<riggsJobs, analysisJobs>>

SweepEnqueues ==
    /\ sweep = "enqueueing"
    /\ riggsJobs' = [riggsJobs EXCEPT !.pending = @ + 1]
    /\ sweep' = "idle"
    /\ SweepStep /\ UNCHANGED <<state, analysisJobs>>

\* _process_new_investigations: a row still NEW with no pending job.  It looks
\* for jobs that are `running', a status no job has.
SweepFindsNew ==
    /\ sweep = "idle"
    /\ state = "NEW"
    /\ analysisJobs.pending = 0
    /\ sweep' = "renewing"
    /\ SweepStep /\ UNCHANGED <<state, riggsJobs, analysisJobs>>

SweepRenews ==
    /\ sweep = "renewing"
    /\ state' = "ANALYZING"
    /\ analysisJobs' = [analysisJobs EXCEPT !.pending = @ + 1]
    /\ sweep' = "idle"
    /\ SweepStep /\ UNCHANGED riggsJobs

Sweep ==
    \/ SweepFinds \/ SweepReads \/ SweepMoves \/ SweepEnqueues
    \/ SweepFindsNew \/ SweepRenews

-----------------------------------------------------------------------------
(* handle_riggs_analysis behind RiggsFlightGuard *)

RiggsTakes(t) ==
    /\ At(t, "idle") /\ riggsJobs.pending > 0
    /\ riggsJobs' = [riggsJobs EXCEPT !.pending = @ - 1]
    /\ Goes(t, "marking")
    /\ UNCHANGED <<row, clock, analysisJobs, diving, sweep, used, excuse, analyses>>

\* The end of _handle_true_positive and of _handle_suspicious_escalation.
EscalationQueues(t) ==
    /\ At(t, "escalating")
    /\ riggsJobs' = [riggsJobs EXCEPT !.pending = @ + 1]
    /\ MayDive
    /\ Ends(t)
    /\ UNCHANGED <<row, clock, analysisJobs, sweep, used, excuse, analyses>>

\* Mutant: the guard looks for an analysis, not for a run in progress.
MayStartUnlessAnalysed == ~data.analysis

MayStart == ~data.analysis /\ (data.status = "RUNNING" => overdue)

\* mark_started reads and writes the row in one transaction that locks it.
MarkStarted(t) ==
    /\ At(t, "marking")
    /\ IF MayStart
       THEN /\ data' = [data EXCEPT !.status = "RUNNING"]
            /\ overdue' = FALSE
            /\ excuse' = excuse \cup (IF overdue THEN {"overran"} ELSE {})
            /\ Goes(t, "reading")
       ELSE Ends(t) /\ UNCHANGED <<data, overdue, excuse>>
    /\ UNCHANGED <<state, disposition, chatted, jobs, sweep, used, analyses>>

\* The document is read once; an analysis already in it is refused as input.
RiggsReads(t) ==
    /\ At(t, "reading")
    /\ Reads(t, IF data.analysis THEN "completing" ELSE "asking", "none")
    /\ UNCHANGED <<row, clock, jobs, sweep, used, excuse, analyses>>

\* The model answers nothing usable, a confident benign verdict, or another.
RiggsAnswers(t) ==
    /\ At(t, "asking")
    /\ \/ task' = [task EXCEPT ![t] = [Idle EXCEPT !.pc = "completing"]]
       \/ \E plan \in {"review", "close"} :
             task' = [task EXCEPT ![t].pc = "writing", ![t].plan = plan]
    /\ UNCHANGED <<row, clock, jobs, sweep, used, excuse, analyses>>

RiggsWrites(t) ==
    /\ At(t, "writing")
    /\ data' = [task[t].read EXCEPT !.analysis = TRUE]
    /\ state' = IF task[t].plan = "close" THEN "CLOSED" ELSE "NEEDS_REVIEW"
    /\ disposition' = IF task[t].plan = "close" THEN "benign" ELSE disposition
    /\ analyses' = IF analyses < 2 THEN analyses + 1 ELSE 2
    /\ task' = [task EXCEPT ![t].pc = "following", ![t].read = Blank]
    /\ UNCHANGED <<clock, jobs, sweep, used, excuse>>

\* A Deep Dive if there was none; an automatic closing is written once more.
RiggsFollows(t) ==
    /\ At(t, "following")
    /\ MayDive
    /\ IF task[t].plan = "close" /\ state \notin Terminal
       THEN state' = "CLOSED" /\ disposition' = "benign"
       ELSE UNCHANGED <<state, disposition>>
    /\ Goes(t, "completing")
    /\ UNCHANGED <<data, clock, riggsJobs, analysisJobs, sweep, used, excuse, analyses>>

\* mark_complete reads the document and writes it back, without a lock.
MarkReads(t) ==
    /\ At(t, "completing")
    /\ Reads(t, "marked", task[t].plan)
    /\ UNCHANGED <<row, clock, jobs, sweep, used, excuse, analyses>>

\* Mutant: the plan is written in place of the outcome.
MarkedByPlan(t) == task[t].plan

MarkedStatus(t) == IF task[t].plan = "none" THEN "FAILED" ELSE "COMPLETE"

MarkWrites(t) ==
    /\ At(t, "marked")
    /\ data' = [task[t].read EXCEPT !.status = MarkedStatus(t)]
    /\ Ends(t)
    /\ UNCHANGED <<state, disposition, clock, jobs, sweep, used, excuse, analyses>>

\* An exception anywhere after the guard: mark_complete(success=False).
RiggsRaises(t) ==
    /\ task[t].pc \in Flying
    /\ Uses("faults", MaxFaults)
    /\ task' = [task EXCEPT ![t] = [Idle EXCEPT !.pc = "completing"]]
    /\ UNCHANGED <<row, clock, jobs, sweep, excuse, analyses>>

\* The process stops: the job stays `processing' (see JobQueue).
RiggsCrashes(t) ==
    /\ task[t].pc \in RiggsPoints
    /\ Uses("faults", MaxFaults)
    /\ riggsJobs' = [riggsJobs EXCEPT !.stuck = @ + 1]
    /\ Ends(t)
    /\ UNCHANGED <<row, clock, analysisJobs, diving, sweep, excuse, analyses>>

Riggs(t) ==
    \/ MarkStarted(t) \/ RiggsReads(t) \/ RiggsAnswers(t) \/ RiggsWrites(t)
    \/ RiggsFollows(t) \/ MarkReads(t) \/ MarkWrites(t)

-----------------------------------------------------------------------------
(* handle_agent_analyze_investigation, run with a tier 1 agent *)

AnalysisTakes(t) ==
    /\ At(t, "idle") /\ analysisJobs.pending > 0
    /\ analysisJobs' = [analysisJobs EXCEPT !.pending = @ - 1]
    /\ Goes(t, "starting")
    /\ UNCHANGED <<row, clock, riggsJobs, diving, sweep, used, excuse, analyses>>

\* Before the agent's run the assets involved are looked up, if the alert names
\* any; an analyst can ask for it as well.  The document is read, and written back.
AssetsRead(t) ==
    /\ Uses("lookups", MaxLookups)
    /\ \/ At(t, "starting") /\ Reads(t, "valuing", "none")
       \/ At(t, "idle") /\ Reads(t, "enriching", "none")
    /\ UNCHANGED <<row, clock, jobs, sweep, excuse, analyses>>

AssetsWrite(t) ==
    /\ \/ At(t, "valuing") /\ task' = [task EXCEPT ![t] = [Idle EXCEPT !.pc = "analysing"]]
       \/ At(t, "enriching") /\ Ends(t)
    /\ Replaces(t)
    /\ UNCHANGED <<state, disposition, clock, jobs, sweep, used, analyses>>

\* After the agent's run the document is read again, to merge into it.
AnalysisReads(t) ==
    /\ task[t].pc \in {"starting", "analysing"}
    /\ Reads(t, "merging", "none")
    /\ UNCHANGED <<row, clock, jobs, sweep, used, excuse, analyses>>

AnalysisWrites(t) ==
    /\ At(t, "merging")
    /\ Replaces(t)
    /\ state' = "ANALYZING"
    /\ analysisJobs' = [analysisJobs EXCEPT !.seen = TRUE]
    /\ Ends(t)
    /\ UNCHANGED <<disposition, clock, riggsJobs, diving, sweep, used, analyses>>

\* The agent decoded indicators: the columns they are merged into do not exist,
\* and every attempt of the job ends like this.
AnalysisFails(t) ==
    /\ At(t, "merging")
    /\ Ends(t)
    /\ UNCHANGED <<row, clock, jobs, sweep, used, excuse, analyses>>

AnalysisCrashes(t) ==
    /\ task[t].pc \in Analysing
    /\ Uses("faults", MaxFaults)
    /\ analysisJobs' = [analysisJobs EXCEPT !.seen = TRUE]
    /\ Ends(t)
    /\ UNCHANGED <<row, clock, riggsJobs, diving, sweep, excuse, analyses>>

Analysis(t) ==
    \/ AssetsWrite(t)
    \/ AnalysisReads(t) \/ AnalysisWrites(t) \/ AnalysisFails(t)

-----------------------------------------------------------------------------
(* Later alerts: T1 triage of one that is linked to the row, and correlation *)

\* Mutant: T1 does not look whether the row was closed as benign.
KeepsOpen == FALSE

KeepsClosed == state \in Terminal /\ disposition = "benign"

\* _update_existing_investigation_from_triage: one transaction on the locked row.
TriageUpdates(t) ==
    /\ At(t, "idle")
    /\ Uses("updates", MaxUpdates)
    /\ IF KeepsClosed
       THEN UNCHANGED <<state, disposition>>
       ELSE state' = "NEEDS_REVIEW" /\ disposition' \in Dispositions
    /\ Goes(t, "ensuring")
    /\ UNCHANGED <<data, clock, jobs, sweep, excuse, analyses>>

\* Then an analysis job if there is none, and a Deep Dive if there was none.
NoAnalysisJob ==
    analysisJobs.pending = 0 /\ ~analysisJobs.seen /\ Busy(Analysing) = {}

TriageEnsures(t) ==
    /\ At(t, "ensuring")
    /\ analysisJobs' = IF NoAnalysisJob
                       THEN [analysisJobs EXCEPT !.pending = 1] ELSE analysisJobs
    /\ MayDive
    /\ Ends(t)
    /\ UNCHANGED <<row, clock, riggsJobs, sweep, used, excuse, analyses>>

\* _link_alert_to_investigation: reads the row, links the alert, writes the row.
CorrelationReads(t) ==
    /\ At(t, "idle")
    /\ Uses("correlations", MaxCorrelations)
    /\ Reads(t, "linking",
             IF state \in Terminal /\ disposition = "harmful" THEN "review" ELSE "none")
    /\ UNCHANGED <<row, clock, jobs, sweep, excuse, analyses>>

CorrelationWrites(t) ==
    /\ At(t, "linking")
    /\ Replaces(t)
    /\ state' = IF task[t].plan = "review" THEN "ANALYZING" ELSE state
    /\ Ends(t)
    /\ UNCHANGED <<disposition, clock, jobs, sweep, used, analyses>>

\* _store_deep_dive_results merges in one UPDATE, and may close the row; a Deep
\* Dive whose model call fails stores nothing.
DeepDiveEnds ==
    /\ diving
    /\ diving' \in BOOLEAN
    /\ \/ UNCHANGED <<state, disposition>>
       \/ state' = "CLOSED" /\ disposition' = "benign"
    /\ UNCHANGED <<data, clock, riggsJobs, analysisJobs, sweep, task, used, excuse, analyses>>

-----------------------------------------------------------------------------
(* agent_executor: an agent has run on an alert whose row this is.  None of    *)
(* its handlers looks at the row's present state; what they add to the         *)
(* document they merge in one UPDATE.                                          *)

AgentStep == UNCHANGED <<data, clock, jobs, sweep, excuse, analyses>>

\* _handle_true_positive: found by the alert's link the row is written and that
\* is all; found as the row of this alert, Riggs is queued too.
AgentConfirms(t) ==
    /\ At(t, "idle")
    /\ Uses("agents", MaxAgents)
    /\ state' = "ANALYZING"
    /\ UNCHANGED task \/ Goes(t, "escalating")
    /\ UNCHANGED disposition /\ AgentStep

\* _handle_suspicious_escalation writes nothing to a row that exists.
AgentSuspects(t) ==
    /\ At(t, "idle")
    /\ Uses("agents", MaxAgents)
    /\ Goes(t, "escalating")
    /\ UNCHANGED <<state, disposition>> /\ AgentStep

\* _handle_auto_close: as the tenant's policy allows.
AgentCloses ==
    /\ Uses("agents", MaxAgents)
    /\ \/ state' = "AWAITING_HUMAN" /\ UNCHANGED disposition
       \/ state' = "CLOSED" /\ disposition' = "benign"
    /\ UNCHANGED task /\ AgentStep

\* _handle_tier2_completion.  Its benign branch sets a column that does not
\* exist, and writes nothing.
AgentReviews ==
    /\ Uses("agents", MaxAgents)
    /\ state' = "NEEDS_REVIEW"
    /\ UNCHANGED <<disposition, task>> /\ AgentStep

Agents(t) == AgentConfirms(t) \/ AgentSuspects(t) \/ AgentCloses \/ AgentReviews

-----------------------------------------------------------------------------
(* Analysts and time *)

AnalystCloses ==
    /\ Uses("human", MaxHuman)
    /\ state' \in Terminal /\ disposition' \in Dispositions
    /\ UNCHANGED <<data, clock, jobs, sweep, task, excuse, analyses>>

\* Of a row that is not closed the disposition is nowhere looked at.
AnalystSets ==
    /\ Uses("human", MaxHuman)
    /\ state' \in {"NEW", "IN_PROGRESS", "ANALYZING"}
    /\ UNCHANGED <<disposition, data, clock, jobs, sweep, task, excuse, analyses>>

AnalystChats ==
    /\ ~chatted
    /\ Uses("human", MaxHuman)
    /\ chatted' = TRUE
    /\ UNCHANGED <<row, overdue, jobs, sweep, task, excuse, analyses>>

\* POST .../triage removes what the guard looks at and queues another Riggs.
AnalystRetriages ==
    /\ Uses("human", MaxHuman)
    /\ data' = [data EXCEPT !.status = "none", !.analysis = FALSE]
    /\ overdue' = FALSE
    /\ riggsJobs' = [riggsJobs EXCEPT !.pending = @ + 1]
    /\ excuse' = excuse \cup {"reset"}
    /\ UNCHANGED <<state, disposition, chatted, analysisJobs, diving, sweep, task, analyses>>

Analyst == AnalystCloses \/ AnalystSets \/ AnalystChats \/ AnalystRetriages

HalfAnHourPasses ==
    /\ data.status = "RUNNING" /\ ~overdue
    /\ Uses("faults", MaxFaults)
    /\ overdue' = TRUE
    /\ UNCHANGED <<row, chatted, jobs, sweep, task, excuse, analyses>>

Takes(t) == RiggsTakes(t) \/ AnalysisTakes(t)
Triage(t) == TriageUpdates(t) \/ CorrelationReads(t) \/ AssetsRead(t)
Merges(t) == EscalationQueues(t) \/ TriageEnsures(t) \/ CorrelationWrites(t)

Next ==
    \/ Sweep \/ Analyst \/ HalfAnHourPasses \/ DeepDiveEnds
    \/ \E t \in Tasks :
          \/ Takes(t) \/ Riggs(t) \/ Analysis(t) \/ Triage(t) \/ Agents(t) \/ Merges(t)
          \/ RiggsRaises(t) \/ RiggsCrashes(t) \/ AnalysisCrashes(t)

Spec == Init /\ [][Next]_vars

\* The scheduler's loop goes on, workers poll and their calls return.
FairSpec ==
    /\ Spec
    /\ WF_vars(Sweep)
    /\ WF_vars(\E t \in Tasks : RiggsTakes(t))
    /\ WF_vars(\E t \in Tasks : AnalysisTakes(t))
    /\ \A t \in Tasks : WF_vars(Riggs(t)) /\ WF_vars(Analysis(t)) /\ WF_vars(Merges(t))

-----------------------------------------------------------------------------
(* Properties *)

\* Riggs works on the row once at a time, through all the writers that replace
\* the document holding the guard's state: two runs overlap only after a run
\* overran its half hour, a stale document was written back, or an analyst
\* cleared the guard.
SingleFlight == Cardinality(Busy(Flying)) > 1 => excuse # {}

\* One analysis is ever written, under the same conditions, however many jobs
\* the sweep, the escalations and the retries queue.
AnalysedOnce == analyses > 1 => excuse # {}

\* A row that is closed as benign and analysed, on which nothing goes on but what
\* later alerts bring (their correlation, their triage, the jobs and the Deep Dive
\* these ask for, a lookup of assets), stays so until an analyst or an agent acts.
Beside == {"idle", "ensuring", "enriching"}
Settled ==
    /\ state \in Terminal /\ disposition = "benign"
    /\ sweep = "idle"
    /\ riggsJobs.pending = 0
    /\ analysisJobs.pending = 0 /\ analysisJobs.seen
    /\ \A t \in Tasks : task[t].pc \in Beside \/ (At(t, "linking") /\ task[t].plan = "none")

SettledStaysClosed ==
    [][Settled /\ used'.human = used.human /\ used'.agents = used.agents => Settled']_vars

\* What alert_correlation_service.py:398 and ai_triage_service.py:4314 say of later
\* alerts: once one has been linked to a settled row, the row is not reopened
\* until an analyst acts.
LaterAlertsDoNotReopen ==
    [][Settled /\ used.correlations > 0 /\ Busy({"linking"}) = {} /\ used'.human = used.human
          => state' # "ANALYZING"]_vars

\* A row the sweep watches comes to the analysts: it leaves the swept states,
\* or Riggs failed on it, an agent has spoken in its chat, there was a fault, a
\* stale document was written back, or an analyst cleared the guard.
ReviewSettles ==
    state \in Swept ~>
        \/ state \notin Swept
        \/ data.status = "FAILED"
        \/ chatted
        \/ used.faults > 0
        \/ excuse \cap {"overwritten", "reset"} # {}

=============================================================================
