---------------------- MODULE InvestigationReviewProofs ----------------------
(***************************************************************************)
(* What the flight guard of Riggs and the writers of an investigation's    *)
(* row keep, for any number of tasks, alerts, analysts and faults.         *)
(***************************************************************************)
EXTENDS InvestigationReview, FiniteSetTheorems, TLAPS

-----------------------------------------------------------------------------
(* What the operators on tasks and on the document do *)

Task == [pc : Points, read : Documents, plan : Plans]
Tasked == task \in [Tasks -> Task]
OthersStay(t) == \A s \in Tasks \ {t} : task'[s] = task[s]

LEMMA BoundsAreNumbers ==
    /\ MaxUpdates \in Nat /\ MaxCorrelations \in Nat /\ MaxAgents \in Nat
    /\ MaxLookups \in Nat /\ MaxHuman \in Nat /\ MaxFaults \in Nat /\ MaxEvents \in Nat
  BY ReviewAssumption

LEMMA IdleIsTask == Blank \in Documents /\ Idle \in Task
  BY DEF Blank, Documents, Idle, Task, Points, Plans

\* What one task turns into, and that the others stay.
LEMMA BecomesChanges ==
  ASSUME Tasked, NEW t \in Tasks, NEW rec \in Task, task' = [task EXCEPT ![t] = rec]
  PROVE  Tasked' /\ OthersStay(t) /\ task'[t] = rec
  BY DEF Tasked, OthersStay

LEMMA GoesChanges ==
  ASSUME Tasked, NEW t \in Tasks, NEW point \in Points, Goes(t, point)
  PROVE  /\ Tasked' /\ OthersStay(t) /\ task'[t].pc = point
         /\ task'[t].read = task[t].read /\ task'[t].plan = task[t].plan
<1> DEFINE rec == [task[t] EXCEPT !.pc = point]
<1>1. task[t] \in Task
  BY DEF Tasked
<1>2. /\ rec \in Task /\ rec.pc = point
      /\ rec.read = task[t].read /\ rec.plan = task[t].plan
  BY <1>1 DEF Task
<1>3. task' = [task EXCEPT ![t] = rec]
  BY DEF Goes
<1> HIDE DEF rec
<1> QED
  BY <1>2, <1>3, BecomesChanges

LEMMA EndsChanges ==
  ASSUME Tasked, NEW t \in Tasks, Ends(t)
  PROVE  Tasked' /\ OthersStay(t) /\ task'[t] = Idle
  BY IdleIsTask, BecomesChanges DEF Ends

LEMMA ReadsChanges ==
  ASSUME Tasked, data \in Documents, NEW t \in Tasks, NEW point \in Points, NEW plan \in Plans,
         Reads(t, point, plan)
  PROVE  /\ Tasked' /\ OthersStay(t) /\ task'[t].pc = point
         /\ task'[t].read = data /\ task'[t].plan = plan
<1> DEFINE rec == [pc |-> point, read |-> data, plan |-> plan]
<1>1. rec \in Task /\ rec.pc = point /\ rec.read = data /\ rec.plan = plan
  BY DEF Task
<1>2. task' = [task EXCEPT ![t] = rec]
  BY DEF Reads
<1> HIDE DEF rec
<1> QED
  BY <1>1, <1>2, BecomesChanges

\* A task goes on with nothing of what it read.
Restarts(t, point) == task' = [task EXCEPT ![t] = [Idle EXCEPT !.pc = point]]

LEMMA RestartChanges ==
  ASSUME Tasked, NEW t \in Tasks, NEW point \in Points, Restarts(t, point)
  PROVE  /\ Tasked' /\ OthersStay(t) /\ task'[t].pc = point
         /\ task'[t].plan = "none"
<1> DEFINE rec == [Idle EXCEPT !.pc = point]
<1>1. rec \in Task /\ rec.pc = point /\ rec.plan = "none"
  BY IdleIsTask DEF Task, Idle
<1>2. task' = [task EXCEPT ![t] = rec]
  BY DEF Restarts
<1> HIDE DEF rec
<1> QED
  BY <1>1, <1>2, BecomesChanges

\* A run that failed goes to mark the failure.
GivesUp(t) == Restarts(t, "completing")

LEMMA GivesUpChanges ==
  ASSUME Tasked, NEW t \in Tasks, GivesUp(t)
  PROVE  /\ Tasked' /\ OthersStay(t) /\ task'[t].pc = "completing"
         /\ task'[t].plan = "none"
<1>1. "completing" \in Points
  BY DEF Points, RiggsPoints
<1> QED
  BY <1>1, RestartChanges DEF GivesUp

\* The answer chooses a plan.
LEMMA PlanChanges ==
  ASSUME Tasked, NEW t \in Tasks, NEW plan \in Plans,
         task' = [task EXCEPT ![t].pc = "writing", ![t].plan = plan]
  PROVE  /\ Tasked' /\ OthersStay(t) /\ task'[t].pc = "writing"
         /\ task'[t].read = task[t].read /\ task'[t].plan = plan
<1>1. task[t] \in Task
  BY DEF Tasked
<1>2. task'[t] = [[task[t] EXCEPT !.pc = "writing"] EXCEPT !.plan = plan]
  BY DEF Tasked
<1>3. "writing" \in Points
  BY DEF Points, RiggsPoints, Flying
<1>4. task'[t] = [pc |-> "writing", read |-> task[t].read, plan |-> plan]
  BY <1>1, <1>2 DEF Task
<1>5. task'[t] \in Task
  BY <1>1, <1>3, <1>4 DEF Task
<1> QED
  BY <1>4, <1>5 DEF Tasked, OthersStay

\* The analysis is written, and what was read is done with.
LEMMA WritesChanges ==
  ASSUME Tasked, NEW t \in Tasks,
         task' = [task EXCEPT ![t].pc = "following", ![t].read = Blank]
  PROVE  Tasked' /\ OthersStay(t) /\ task'[t].pc = "following"
<1>1. task[t] \in Task
  BY DEF Tasked
<1>2. task'[t] = [[task[t] EXCEPT !.pc = "following"] EXCEPT !.read = Blank]
  BY DEF Tasked
<1>3. "following" \in Points
  BY DEF Points, RiggsPoints, Flying
<1>4. task'[t] = [pc |-> "following", read |-> Blank, plan |-> task[t].plan]
  BY <1>1, <1>2 DEF Task
<1>5. task'[t] \in Task
  BY <1>1, <1>3, <1>4, IdleIsTask DEF Task
<1> QED
  BY <1>4, <1>5 DEF Tasked, OthersStay

-----------------------------------------------------------------------------
(* Type correctness *)

Flags == overdue \in BOOLEAN /\ chatted \in BOOLEAN /\ diving \in BOOLEAN

\* Jobs, and the crashes that left some of them without a worker.
Jobs ==
    /\ riggsJobs \in [pending : Nat, stuck : Nat] /\ riggsJobs.stuck <= used.faults
    /\ analysisJobs \in [pending : Nat, seen : BOOLEAN]
    /\ used \in Bounds

Row ==
    /\ state \in States /\ disposition \in Dispositions /\ data \in Documents
    /\ sweep \in {"idle", "reading", "moving", "enqueueing", "renewing"}
    /\ excuse \subseteq Excuses /\ analyses \in 0..2

Typed == Flags /\ Jobs /\ Row /\ Tasked

LEMMA TypedImpliesTypeOK == Typed => TypeOK
<1> SUFFICES ASSUME Typed PROVE TypeOK
  OBVIOUS
<1>1. riggsJobs \in [pending : Nat, stuck : 0..MaxFaults]
  BY BoundsAreNumbers DEF Typed, Jobs, Bounds
<1> QED
  BY <1>1 DEF TypeOK, Typed, Flags, Jobs, Row, Tasked, Task

LEMMA UsesChanges ==
  ASSUME used \in Bounds,
         \/ Uses("updates", MaxUpdates) \/ Uses("correlations", MaxCorrelations)
         \/ Uses("agents", MaxAgents) \/ Uses("lookups", MaxLookups)
         \/ Uses("human", MaxHuman) \/ Uses("faults", MaxFaults)
  PROVE  used' \in Bounds /\ used.faults <= used'.faults
  BY BoundsAreNumbers DEF Bounds, Uses

LEMMA FaultIsUsed ==
  ASSUME used \in Bounds, Uses("faults", MaxFaults)
  PROVE  used' \in Bounds /\ used'.faults = used.faults + 1
  BY BoundsAreNumbers DEF Bounds, Uses

LEMMA InitTyped == Init => Typed
<1> SUFFICES ASSUME Init PROVE Typed
  OBVIOUS
<1>1. Tasked
  <2>1. CASE ByTriage
    BY <2>1, IdleIsTask DEF ByTriage, Tasked
  <2>2. CASE ByAgent
    <3>1. [Idle EXCEPT !.pc = "escalating"] \in Task
      BY IdleIsTask DEF Task, Points
    <3> QED
      BY <2>2, <3>1, IdleIsTask DEF ByAgent, Tasked
  <2> QED
    BY <2>1, <2>2 DEF Init
<1>2. Row
  BY IdleIsTask DEF Init, Row, States, Swept, Dispositions
<1>3. Flags
  BY ReviewAssumption DEF Init, Flags, ByTriage, ByAgent
<1>4. analysisJobs \in [pending : Nat, seen : BOOLEAN]
  <2>1. \E n \in {0, 1} : analysisJobs = [pending |-> n, seen |-> FALSE]
    BY DEF Init, ByTriage, ByAgent
  <2> QED
    BY <2>1
<1>5. Jobs
  BY <1>4, BoundsAreNumbers DEF Init, Jobs, Bounds
<1> QED
  BY <1>1, <1>2, <1>3, <1>5 DEF Typed

LEMMA NextFlags == Typed /\ [Next]_vars => Flags'
<1> SUFFICES ASSUME Typed, [Next]_vars PROVE Flags'
  OBVIOUS
<1> USE ReviewAssumption DEF Typed, Flags, MayDive, clock, jobs, SweepStep
<1>1. ASSUME Sweep \/ DeepDiveEnds \/ HalfAnHourPasses PROVE Flags'
  BY <1>1 DEF Sweep, SweepFinds, SweepReads, SweepMoves, SweepEnqueues, SweepFindsNew, SweepRenews,
     DeepDiveEnds, HalfAnHourPasses
<1>2. ASSUME Analyst PROVE Flags'
  BY <1>2 DEF Analyst, AnalystCloses, AnalystSets, AnalystChats, AnalystRetriages
<1>3. ASSUME NEW t \in Tasks, Takes(t) \/ Triage(t) \/ Merges(t) PROVE Flags'
  BY <1>3 DEF Takes, RiggsTakes, AnalysisTakes, Triage, TriageUpdates, CorrelationReads, AssetsRead,
     Merges, EscalationQueues, TriageEnsures, CorrelationWrites
<1>4. ASSUME NEW t \in Tasks, Riggs(t) PROVE Flags'
  BY <1>4 DEF Riggs, MarkStarted, RiggsReads, RiggsAnswers, RiggsWrites, RiggsFollows, MarkReads, MarkWrites
<1>5. ASSUME NEW t \in Tasks, Analysis(t) \/ RiggsRaises(t) \/ RiggsCrashes(t) \/ AnalysisCrashes(t)
      PROVE  Flags'
  BY <1>5 DEF Analysis, AssetsWrite, AnalysisReads, AnalysisWrites, AnalysisFails, RiggsRaises,
     RiggsCrashes, AnalysisCrashes
<1>6. ASSUME NEW t \in Tasks, Agents(t) PROVE Flags'
  BY <1>6 DEF Agents, AgentConfirms, AgentSuspects, AgentCloses, AgentReviews, AgentStep
<1>7. CASE UNCHANGED vars
  BY <1>7 DEF vars
<1> QED
  BY <1>1, <1>2, <1>3, <1>4, <1>5, <1>6, <1>7 DEF Next

\* Of a task that reads or writes, what it holds is in its type.
LEMMA TaskParts ==
  ASSUME Tasked, NEW t \in Tasks
  PROVE  task[t].pc \in Points /\ task[t].read \in Documents /\ task[t].plan \in Plans
  BY DEF Tasked, Task

LEMMA NextTasked == Typed /\ [Next]_vars => Tasked'
<1> SUFFICES ASSUME Typed, [Next]_vars PROVE Tasked'
  OBVIOUS
<1>0. Tasked /\ data \in Documents
  BY DEF Typed, Row
<1> USE <1>0
<1>1. ASSUME task' = task PROVE Tasked'
  BY <1>1 DEF Tasked
<1>2. ASSUME Sweep \/ DeepDiveEnds \/ HalfAnHourPasses \/ Analyst \/ UNCHANGED vars PROVE Tasked'
  <2>1. task' = task
    BY <1>2 DEF Sweep, SweepFinds, SweepReads, SweepMoves, SweepEnqueues, SweepFindsNew, SweepRenews,
       SweepStep, DeepDiveEnds, HalfAnHourPasses, Analyst, AnalystCloses, AnalystSets, AnalystChats,
       AnalystRetriages, vars
  <2> QED
    BY <2>1, <1>1
<1>3. ASSUME NEW t \in Tasks, Ends(t) PROVE Tasked'
  BY <1>3, EndsChanges
<1>4. ASSUME NEW t \in Tasks, NEW point \in Points, Goes(t, point) PROVE Tasked'
  BY <1>4, GoesChanges
<1>5. ASSUME NEW t \in Tasks, NEW point \in Points, NEW plan \in Plans, Reads(t, point, plan)
      PROVE  Tasked'
  BY <1>5, ReadsChanges
<1>6. /\ {"marking", "reading", "completing", "marked", "asking"} \subseteq Points
      /\ {"starting", "valuing", "analysing", "merging"} \subseteq Points
      /\ {"escalating", "ensuring", "linking", "enriching"} \subseteq Points
      /\ {"none", "review"} \subseteq Plans
  BY DEF Points, RiggsPoints, Flying, Analysing, Plans
<1>7. ASSUME NEW t \in Tasks,
             \/ EscalationQueues(t) \/ MarkWrites(t) \/ RiggsCrashes(t) \/ AnalysisWrites(t)
             \/ AnalysisFails(t) \/ AnalysisCrashes(t) \/ TriageEnsures(t) \/ CorrelationWrites(t)
      PROVE  Tasked'
  BY <1>7, <1>3 DEF EscalationQueues, MarkWrites, RiggsCrashes, AnalysisWrites, AnalysisFails,
     AnalysisCrashes, TriageEnsures, CorrelationWrites
<1>8. ASSUME NEW t \in Tasks, RiggsTakes(t) \/ RiggsFollows(t) \/ AnalysisTakes(t) \/ TriageUpdates(t)
      PROVE  Tasked'
  <2>1. \E point \in {"marking", "completing", "starting", "ensuring"} : Goes(t, point)
    BY <1>8 DEF RiggsTakes, RiggsFollows, AnalysisTakes, TriageUpdates
  <2> QED
    BY <2>1, <1>4, <1>6
<1>9. ASSUME NEW t \in Tasks, MarkStarted(t) PROVE Tasked'
  <2>1. Goes(t, "reading") \/ Ends(t)
    BY <1>9 DEF MarkStarted
  <2> QED
    BY <2>1, <1>3, <1>4, <1>6
<1>10. ASSUME NEW t \in Tasks,
              \/ RiggsReads(t) \/ MarkReads(t) \/ AnalysisReads(t) \/ CorrelationReads(t)
              \/ AssetsRead(t)
       PROVE  Tasked'
  <2>1. \E point \in {"completing", "asking", "marked", "merging", "linking", "valuing", "enriching"},
           plan \in {"none", "review", task[t].plan} : Reads(t, point, plan)
    BY <1>10 DEF RiggsReads, MarkReads, AnalysisReads, CorrelationReads, AssetsRead
  <2> QED
    BY <2>1, <1>5, <1>6, TaskParts
<1>11. ASSUME NEW t \in Tasks, RiggsAnswers(t) \/ RiggsRaises(t) PROVE Tasked'
  <2>1. \/ GivesUp(t)
        \/ \E plan \in {"review", "close"} :
              task' = [task EXCEPT ![t].pc = "writing", ![t].plan = plan]
    BY <1>11 DEF RiggsAnswers, RiggsRaises, GivesUp, Restarts
  <2>2. {"review", "close"} \subseteq Plans
    BY DEF Plans
  <2> QED
    BY <2>1, <2>2, GivesUpChanges, PlanChanges
<1>12. ASSUME NEW t \in Tasks, RiggsWrites(t) PROVE Tasked'
  BY <1>12, WritesChanges DEF RiggsWrites
<1>13. ASSUME NEW t \in Tasks, AssetsWrite(t) PROVE Tasked'
  <2>1. Restarts(t, "analysing") \/ Ends(t)
    BY <1>13 DEF AssetsWrite, Restarts
  <2> QED
    BY <2>1, <1>3, <1>6, RestartChanges
<1>14. ASSUME NEW t \in Tasks, Agents(t) PROVE Tasked'
  <2>1. task' = task \/ Goes(t, "escalating")
    BY <1>14 DEF Agents, AgentConfirms, AgentSuspects, AgentCloses, AgentReviews
  <2> QED
    BY <2>1, <1>1, <1>4, <1>6
<1> QED
  BY <1>2, <1>7, <1>8, <1>9, <1>10, <1>11, <1>12, <1>13, <1>14
     DEF Next, Takes, Riggs, Analysis, Triage, Merges

LEMMA NextJobs == Typed /\ [Next]_vars => Jobs'
<1> SUFFICES ASSUME Typed, [Next]_vars PROVE Jobs'
  OBVIOUS
<1>0. Jobs /\ used \in Bounds /\ used.faults \in Nat
  BY BoundsAreNumbers DEF Typed, Jobs, Bounds
<1> USE <1>0
\* The jobs of Riggs change their number, those of the analysis stay.
<1>1. ASSUME analysisJobs' = analysisJobs, used' \in Bounds, used.faults <= used'.faults,
             \/ riggsJobs' = riggsJobs
             \/ riggsJobs' = [riggsJobs EXCEPT !.pending = @ + 1]
             \/ riggsJobs.pending > 0 /\ riggsJobs' = [riggsJobs EXCEPT !.pending = @ - 1]
      PROVE  Jobs'
  <2>1. used'.faults \in Nat
    BY <1>1, BoundsAreNumbers DEF Bounds
  <2>2. riggsJobs' \in [pending : Nat, stuck : Nat] /\ riggsJobs'.stuck = riggsJobs.stuck
    BY <1>1 DEF Jobs
  <2> QED
    BY <1>1, <2>1, <2>2 DEF Jobs
\* The jobs of the analysis change, those of Riggs stay.
<1>2. ASSUME riggsJobs' = riggsJobs, used' \in Bounds, used.faults <= used'.faults,
             analysisJobs' \in [pending : Nat, seen : BOOLEAN]
      PROVE  Jobs'
  <2>1. used'.faults \in Nat
    BY <1>2, BoundsAreNumbers DEF Bounds
  <2> QED
    BY <1>2, <2>1 DEF Jobs
<1>3. ASSUME Sweep \/ DeepDiveEnds \/ HalfAnHourPasses \/ Analyst \/ UNCHANGED vars PROVE Jobs'
  <2>1. CASE SweepFinds \/ SweepReads \/ SweepMoves \/ SweepEnqueues \/ SweepFindsNew \/ DeepDiveEnds \/ UNCHANGED vars
    <3>1. /\ UNCHANGED <<analysisJobs, used>>
          /\ riggsJobs' = riggsJobs \/ riggsJobs' = [riggsJobs EXCEPT !.pending = @ + 1]
      BY <2>1 DEF SweepFinds, SweepReads, SweepMoves, SweepEnqueues, SweepFindsNew, SweepStep,
         DeepDiveEnds, vars
    <3> QED
      BY <3>1, <1>1
  <2>2. CASE SweepRenews
    <3>1. /\ UNCHANGED <<riggsJobs, used>>
          /\ analysisJobs' = [analysisJobs EXCEPT !.pending = @ + 1]
      BY <2>2 DEF SweepRenews, SweepStep
    <3>2. analysisJobs' \in [pending : Nat, seen : BOOLEAN]
      BY <3>1 DEF Jobs
    <3> QED
      BY <3>1, <3>2, <1>2
  <2>3. CASE HalfAnHourPasses \/ Analyst
    <3>1. /\ analysisJobs' = analysisJobs
          /\ Uses("human", MaxHuman) \/ Uses("faults", MaxFaults)
          /\ riggsJobs' = riggsJobs \/ riggsJobs' = [riggsJobs EXCEPT !.pending = @ + 1]
      BY <2>3 DEF HalfAnHourPasses, Analyst, AnalystCloses, AnalystSets, AnalystChats, AnalystRetriages, jobs
    <3> QED
      BY <3>1, <1>1, UsesChanges
  <2> QED
    BY <1>3, <2>1, <2>2, <2>3 DEF Sweep
<1>4. ASSUME NEW t \in Tasks, RiggsTakes(t) \/ EscalationQueues(t) PROVE Jobs'
  <2>1. /\ UNCHANGED <<analysisJobs, used>>
        /\ \/ riggsJobs' = [riggsJobs EXCEPT !.pending = @ + 1]
           \/ riggsJobs.pending > 0 /\ riggsJobs' = [riggsJobs EXCEPT !.pending = @ - 1]
    BY <1>4 DEF RiggsTakes, EscalationQueues
  <2> QED
    BY <2>1, <1>1
<1>5. ASSUME NEW t \in Tasks, Riggs(t) \/ RiggsRaises(t) PROVE Jobs'
  <2>1. UNCHANGED <<riggsJobs, analysisJobs>> /\ (used' = used \/ Uses("faults", MaxFaults))
    BY <1>5 DEF Riggs, MarkStarted, RiggsReads, RiggsAnswers, RiggsWrites, RiggsFollows, MarkReads,
       MarkWrites, RiggsRaises, jobs
  <2> QED
    BY <2>1, <1>1, UsesChanges
<1>6. ASSUME NEW t \in Tasks, RiggsCrashes(t) PROVE Jobs'
  <2>1. /\ analysisJobs' = analysisJobs /\ Uses("faults", MaxFaults)
        /\ riggsJobs' = [riggsJobs EXCEPT !.stuck = @ + 1]
    BY <1>6 DEF RiggsCrashes
  <2>2. used' \in Bounds /\ used'.faults = used.faults + 1
    BY <2>1, FaultIsUsed
  <2>3. riggsJobs' \in [pending : Nat, stuck : Nat] /\ riggsJobs'.stuck = riggsJobs.stuck + 1
    BY <2>1 DEF Jobs
  <2> QED
    BY <2>1, <2>2, <2>3 DEF Jobs
<1>7. ASSUME NEW t \in Tasks, AnalysisTakes(t) PROVE Jobs'
  <2>1. /\ UNCHANGED <<riggsJobs, used>> /\ analysisJobs.pending > 0
        /\ analysisJobs' = [analysisJobs EXCEPT !.pending = @ - 1]
    BY <1>7 DEF AnalysisTakes
  <2>2. analysisJobs' \in [pending : Nat, seen : BOOLEAN]
    BY <2>1 DEF Jobs
  <2> QED
    BY <2>1, <2>2, <1>2
<1>8. ASSUME NEW t \in Tasks, Analysis(t) \/ AnalysisCrashes(t) PROVE Jobs'
  <2>1. /\ riggsJobs' = riggsJobs /\ (used' = used \/ Uses("faults", MaxFaults))
        /\ analysisJobs' = analysisJobs \/ analysisJobs' = [analysisJobs EXCEPT !.seen = TRUE]
    BY <1>8 DEF Analysis, AssetsWrite, AnalysisReads, AnalysisWrites, AnalysisFails, AnalysisCrashes, jobs
  <2>2. analysisJobs' \in [pending : Nat, seen : BOOLEAN]
    BY <2>1 DEF Jobs
  <2> QED
    BY <2>1, <2>2, <1>2, UsesChanges
<1>9. ASSUME NEW t \in Tasks, Triage(t) \/ Agents(t) \/ CorrelationWrites(t) PROVE Jobs'
  <2>1. /\ UNCHANGED <<riggsJobs, analysisJobs>>
        /\ \/ used' = used \/ Uses("updates", MaxUpdates) \/ Uses("correlations", MaxCorrelations)
           \/ Uses("agents", MaxAgents) \/ Uses("lookups", MaxLookups)
    BY <1>9 DEF Triage, TriageUpdates, CorrelationReads, AssetsRead, CorrelationWrites, Agents,
       AgentConfirms, AgentSuspects, AgentCloses, AgentReviews, AgentStep, jobs
  <2> QED
    BY <2>1, <1>1, UsesChanges
<1>10. ASSUME NEW t \in Tasks, TriageEnsures(t) PROVE Jobs'
  <2>1. /\ UNCHANGED <<riggsJobs, used>>
        /\ analysisJobs' = analysisJobs \/ analysisJobs' = [analysisJobs EXCEPT !.pending = 1]
    BY <1>10 DEF TriageEnsures
  <2>2. analysisJobs' \in [pending : Nat, seen : BOOLEAN]
    BY <2>1 DEF Jobs
  <2> QED
    BY <2>1, <2>2, <1>2
<1> QED
  BY <1>3, <1>4, <1>5, <1>6, <1>7, <1>8, <1>9, <1>10 DEF Next, Takes, Merges

LEMMA NextRow == Typed /\ [Next]_vars => Row'
<1> SUFFICES ASSUME Typed, [Next]_vars PROVE Row'
  OBVIOUS
<1>0. Row /\ Tasked
  BY DEF Typed
<1> USE <1>0 DEF row
<1>1. ASSUME Sweep \/ DeepDiveEnds \/ HalfAnHourPasses \/ UNCHANGED vars PROVE Row'
  BY <1>1 DEF Sweep, SweepFinds, SweepReads, SweepFollows, SweepMoves, SweepEnqueues, SweepFindsNew,
     SweepRenews, SweepStep, DeepDiveEnds, HalfAnHourPasses, vars, Row, States, Swept, Terminal,
     Dispositions
<1>2. ASSUME Analyst PROVE Row'
  <2>1. CASE AnalystRetriages
    <3>1. data' = [[data EXCEPT !.status = "none"] EXCEPT !.analysis = FALSE]
      BY <2>1 DEF AnalystRetriages
    <3>2. data' \in Documents
      BY <3>1 DEF Row, Documents
    <3> QED
      BY <2>1, <3>2 DEF AnalystRetriages, Row, Excuses
  <2>2. CASE AnalystCloses \/ AnalystSets \/ AnalystChats
    BY <2>2 DEF AnalystCloses, AnalystSets, AnalystChats, Row, States, Swept, Terminal
  <2> QED
    BY <1>2, <2>1, <2>2 DEF Analyst
<1>3. ASSUME NEW t \in Tasks, Takes(t) \/ EscalationQueues(t) \/ TriageEnsures(t) PROVE Row'
  BY <1>3 DEF Takes, RiggsTakes, AnalysisTakes, EscalationQueues, TriageEnsures, Row
<1>4. ASSUME NEW t \in Tasks, Triage(t) PROVE Row'
  BY <1>4 DEF Triage, TriageUpdates, CorrelationReads, AssetsRead, Row, States
<1>5. ASSUME NEW t \in Tasks, MarkStarted(t) PROVE Row'
  <2>1. UNCHANGED <<state, disposition, sweep, analyses>> /\ excuse' \subseteq excuse \cup {"overran"}
    BY <1>5 DEF MarkStarted
  <2>2. data' = data \/ data' = [data EXCEPT !.status = "RUNNING"]
    BY <1>5 DEF MarkStarted
  <2>3. data' \in Documents
    BY <2>2 DEF Row, Documents
  <2> QED
    BY <2>1, <2>3 DEF Row, Excuses
<1>6. ASSUME NEW t \in Tasks, RiggsReads(t) \/ RiggsAnswers(t) \/ RiggsRaises(t) \/ RiggsCrashes(t)
      PROVE  Row'
  BY <1>6 DEF RiggsReads, RiggsAnswers, RiggsRaises, RiggsCrashes, Row
<1>7. ASSUME NEW t \in Tasks, RiggsWrites(t) PROVE Row'
  <2>1. data' = [task[t].read EXCEPT !.analysis = TRUE]
    BY <1>7 DEF RiggsWrites
  <2>2. data' \in Documents
    BY <2>1, TaskParts DEF Documents
  <2>3. analyses' \in 0..2
    BY <1>7 DEF RiggsWrites, Row
  <2> QED
    BY <1>7, <2>2, <2>3 DEF RiggsWrites, Row, States, Terminal, Dispositions
<1>8. ASSUME NEW t \in Tasks, RiggsFollows(t) \/ MarkReads(t) PROVE Row'
  BY <1>8 DEF RiggsFollows, MarkReads, Row, States, Terminal, Dispositions
<1>9. ASSUME NEW t \in Tasks, MarkWrites(t) PROVE Row'
  <2>1. data' = [task[t].read EXCEPT !.status = MarkedStatus(t)]
    BY <1>9 DEF MarkWrites
  <2>2. data' \in Documents
    BY <2>1, TaskParts DEF Documents, MarkedStatus
  <2> QED
    BY <1>9, <2>2 DEF MarkWrites, Row
<1>10. ASSUME NEW t \in Tasks, Replaces(t)
       PROVE  data' \in Documents /\ excuse' \subseteq Excuses
  BY <1>10, TaskParts DEF Replaces, Row, Excuses
<1>11. ASSUME NEW t \in Tasks, Analysis(t) \/ AnalysisCrashes(t) PROVE Row'
  BY <1>11, <1>10 DEF Analysis, AssetsWrite, AnalysisReads, AnalysisWrites, AnalysisFails,
     AnalysisCrashes, Row, States, Swept
<1>12. ASSUME NEW t \in Tasks, CorrelationWrites(t) PROVE Row'
  BY <1>12, <1>10 DEF CorrelationWrites, Row, States, Swept
<1>13. ASSUME NEW t \in Tasks, Agents(t) PROVE Row'
  BY <1>13 DEF Agents, AgentConfirms, AgentSuspects, AgentCloses, AgentReviews, AgentStep, Row, States,
     Swept, Terminal, Dispositions
<1> QED
  BY <1>1, <1>2, <1>3, <1>4, <1>5, <1>6, <1>7, <1>8, <1>9, <1>11, <1>12, <1>13 DEF Next, Riggs, Merges

LEMMA NextTyped == Typed /\ [Next]_vars => Typed'
  BY NextFlags, NextTasked, NextJobs, NextRow DEF Typed

\* The row, its document, its jobs and the tasks that touch it stay in their
\* types, and no more Riggs jobs are left without a worker than processes stop.
THEOREM TypeCorrect == Spec => []TypeOK
<1>1. Spec => []Typed
  BY InitTyped, NextTyped, PTL DEF Spec
<1> QED
  BY <1>1, TypedImpliesTypeOK, PTL

-----------------------------------------------------------------------------
(* The flight guard *)

InFlight == Flying \cup {"completing", "marked"}

\* While nothing has weakened the guard, one task at most is between
\* mark_started and the end of mark_complete.
OneFlight == \A s, t \in Tasks : task[s].pc \in InFlight /\ task[t].pc \in InFlight => s = t

\* Meanwhile the document says so, with no analysis until one is written ...
Guarded ==
    \A t \in Tasks :
        /\ task[t].pc \in InFlight => data.status = "RUNNING"
        /\ task[t].pc \in {"reading", "asking", "writing"} => ~data.analysis

\* ... and what the task will write back is what the document still is.
ReadsHold == \A t \in Tasks : task[t].pc \in {"asking", "writing", "marked"} => task[t].read = data

\* The one analysis that was written is still in the document.
Counted == analyses <= 1 /\ (analyses > 0 => data.analysis)

FlightInv == excuse = {} => OneFlight /\ Guarded /\ ReadsHold /\ Counted

LEMMA InitFlightInv == Init => FlightInv
<1> SUFFICES ASSUME Init PROVE FlightInv
  OBVIOUS
<1>1. \A t \in Tasks : task[t].pc \in {"idle", "escalating"}
  BY DEF Init, ByTriage, ByAgent, Idle
<1> QED
  BY <1>1 DEF Init, FlightInv, OneFlight, Guarded, ReadsHold, Counted, InFlight, Flying

\* A step of other work, which leaves the document as it is or an excuse.
LEMMA OtherStep ==
  ASSUME FlightInv, excuse' = {} => excuse = {} /\ data' = data, analyses' = analyses,
         \A s \in Tasks : task'[s] = task[s] \/ task'[s].pc \notin InFlight
  PROVE  FlightInv'
  BY DEF FlightInv, OneFlight, Guarded, ReadsHold, Counted, InFlight, Flying

\* A step of a flight: it is the only one, and it stays in the air.
LEMMA FlightStep ==
  ASSUME FlightInv, NEW t \in Tasks, task[t].pc \in InFlight, OthersStay(t), excuse' = excuse,
         excuse = {} =>
             /\ task'[t].pc \in InFlight => data'.status = "RUNNING"
             /\ task'[t].pc \in {"reading", "asking", "writing"} => ~data'.analysis
             /\ task'[t].pc \in {"asking", "writing", "marked"} => task'[t].read = data'
             /\ analyses' <= 1 /\ (analyses' > 0 => data'.analysis)
  PROVE  FlightInv'
<1> SUFFICES ASSUME excuse = {} PROVE (OneFlight /\ Guarded /\ ReadsHold /\ Counted)'
  BY DEF FlightInv
<1>1. \A s \in Tasks \ {t} : task'[s].pc \notin InFlight
  BY DEF FlightInv, OneFlight, OthersStay
<1>2. OneFlight'
  BY <1>1 DEF OneFlight
<1>3. Guarded'
  BY <1>1 DEF Guarded, InFlight, Flying
<1>4. ReadsHold'
  BY <1>1 DEF ReadsHold, InFlight, Flying
<1> QED
  BY <1>2, <1>3, <1>4 DEF Counted

\* Whoever writes back what it read leaves the document as it is, or an excuse.
LEMMA ReplacesChanges ==
  ASSUME Typed, NEW t \in Tasks, Replaces(t)
  PROVE  excuse' = {} => excuse = {} /\ data' = data
<1> SUFFICES ASSUME excuse' = {} PROVE excuse = {} /\ data' = data
  OBVIOUS
<1>1. excuse = {} /\ task[t].read.status = data.status /\ task[t].read.analysis = data.analysis
  BY DEF Replaces
<1>2. task[t].read \in Documents /\ data \in Documents
  BY TaskParts DEF Typed, Row
<1>3. task[t].read = data
  BY <1>1, <1>2 DEF Documents
<1> QED
  BY <1>1, <1>3 DEF Replaces

\* A flight starts: nobody else is in the air, or the one that is has overrun.
LEMMA StartStep ==
  ASSUME Typed, FlightInv, NEW t \in Tasks, MarkStarted(t)
  PROVE  FlightInv'
<1>0. Tasked /\ data \in Documents
  BY DEF Typed, Row
<1>1. CASE ~MayStart
  <2>1. task'[t] = Idle /\ OthersStay(t) /\ UNCHANGED <<data, excuse, analyses>>
    BY <1>0, <1>1, EndsChanges DEF MarkStarted
  <2>2. \A s \in Tasks : task'[s] = task[s] \/ task'[s].pc \notin InFlight
    BY <2>1 DEF OthersStay, Idle, InFlight, Flying
  <2> QED
    BY <2>1, <2>2, OtherStep
<1>2. CASE MayStart
  <2> SUFFICES ASSUME excuse' = {} PROVE (OneFlight /\ Guarded /\ ReadsHold /\ Counted)'
    BY DEF FlightInv
  <2>1. excuse = {} /\ ~overdue
    BY <1>2 DEF MarkStarted
  <2>2. ~data.analysis /\ data.status # "RUNNING"
    BY <1>2, <2>1 DEF MayStart
  <2>3. data' = [data EXCEPT !.status = "RUNNING"] /\ analyses' = analyses
    BY <1>2 DEF MarkStarted
  <2>4. data'.status = "RUNNING" /\ data'.analysis = data.analysis
    BY <1>0, <2>3 DEF Documents
  <2>5. Goes(t, "reading") /\ "reading" \in Points
    BY <1>2 DEF MarkStarted, Points, RiggsPoints, Flying
  <2>6. OthersStay(t) /\ task'[t].pc = "reading"
    BY <1>0, <2>5, GoesChanges
  <2>7. \A s \in Tasks \ {t} : task'[s].pc \notin InFlight
    BY <2>1, <2>2, <2>6 DEF FlightInv, Guarded, OthersStay
  <2>8. OneFlight'
    BY <2>7 DEF OneFlight
  <2>9. Guarded'
    BY <2>2, <2>4, <2>6, <2>7 DEF Guarded, InFlight, Flying
  <2>10. ReadsHold'
    BY <2>6, <2>7 DEF ReadsHold, InFlight, Flying
  <2>11. Counted'
    BY <2>1, <2>3, <2>4 DEF FlightInv, Counted
  <2> QED
    BY <2>8, <2>9, <2>10, <2>11
<1> QED
  BY <1>1, <1>2

LEMMA NextFlightInv == Typed /\ FlightInv /\ [Next]_vars => FlightInv'
<1> SUFFICES ASSUME Typed, FlightInv, [Next]_vars PROVE FlightInv'
  OBVIOUS
<1>0. Tasked /\ data \in Documents /\ analyses \in 0..2
  BY DEF Typed, Row
<1> USE <1>0 DEF row
<1>1. ASSUME NEW t \in Tasks, OthersStay(t), task'[t].pc \notin InFlight, analyses' = analyses,
             excuse' = {} => excuse = {} /\ data' = data
      PROVE  FlightInv'
  BY <1>1, OtherStep DEF OthersStay
<1>2. ASSUME Sweep \/ DeepDiveEnds \/ HalfAnHourPasses \/ Analyst \/ UNCHANGED vars PROVE FlightInv'
  <2>1. task' = task /\ analyses' = analyses /\ (excuse' = {} => excuse = {} /\ data' = data)
    BY <1>2 DEF Sweep, SweepFinds, SweepReads, SweepMoves, SweepEnqueues, SweepFindsNew, SweepRenews,
       SweepStep, DeepDiveEnds, HalfAnHourPasses, Analyst, AnalystCloses, AnalystSets, AnalystChats,
       AnalystRetriages, vars
  <2> QED
    BY <2>1, OtherStep
<1>3. ASSUME NEW t \in Tasks, Takes(t) \/ TriageUpdates(t) PROVE FlightInv'
  <2>1. /\ UNCHANGED <<data, excuse, analyses>>
        /\ \E point \in {"marking", "starting", "ensuring"} : Goes(t, point)
    BY <1>3 DEF Takes, RiggsTakes, AnalysisTakes, TriageUpdates
  <2>2. {"marking", "starting", "ensuring"} \subseteq Points \ InFlight
    BY DEF Points, RiggsPoints, Analysing, InFlight, Flying
  <2> QED
    BY <2>1, <2>2, <1>1, GoesChanges
<1>4. ASSUME NEW t \in Tasks, AnalysisReads(t) \/ CorrelationReads(t) \/ AssetsRead(t) PROVE FlightInv'
  <2>1. /\ UNCHANGED <<data, excuse, analyses>>
        /\ \E point \in {"merging", "linking", "valuing", "enriching"}, plan \in {"none", "review"} :
              Reads(t, point, plan)
    BY <1>4 DEF AnalysisReads, CorrelationReads, AssetsRead
  <2>2. {"merging", "linking", "valuing", "enriching"} \subseteq Points \ InFlight /\ {"none", "review"} \subseteq Plans
    BY DEF Points, Analysing, InFlight, Flying, Plans
  <2> QED
    BY <2>1, <2>2, <1>1, ReadsChanges
<1>5. "idle" \notin InFlight /\ Idle.pc = "idle"
  BY DEF InFlight, Flying, Idle
<1>6. ASSUME NEW t \in Tasks,
             \/ EscalationQueues(t) \/ TriageEnsures(t) \/ AnalysisFails(t) \/ AnalysisCrashes(t)
             \/ RiggsCrashes(t)
      PROVE  FlightInv'
  <2>1. UNCHANGED <<data, excuse, analyses>> /\ Ends(t)
    BY <1>6 DEF EscalationQueues, TriageEnsures, AnalysisFails, AnalysisCrashes, RiggsCrashes
  <2> QED
    BY <2>1, <1>5, <1>1, EndsChanges
<1>7. ASSUME NEW t \in Tasks, AnalysisWrites(t) \/ CorrelationWrites(t) PROVE FlightInv'
  <2>1. Replaces(t) /\ Ends(t) /\ analyses' = analyses
    BY <1>7 DEF AnalysisWrites, CorrelationWrites
  <2> QED
    BY <2>1, <1>5, <1>1, EndsChanges, ReplacesChanges
<1>8. ASSUME NEW t \in Tasks, RiggsReads(t) PROVE FlightInv'
  <2>1. /\ task[t].pc = "reading" /\ UNCHANGED <<data, excuse, analyses>>
        /\ \/ data.analysis /\ Reads(t, "completing", "none")
           \/ ~data.analysis /\ Reads(t, "asking", "none")
    BY <1>8 DEF RiggsReads, At
  <2>2. {"completing", "asking"} \subseteq Points /\ "none" \in Plans
    BY DEF Points, RiggsPoints, Flying, Plans
  <2>3. /\ OthersStay(t) /\ task'[t].read = data
        /\ task'[t].pc = "completing" \/ (task'[t].pc = "asking" /\ ~data.analysis)
    BY <2>1, <2>2, ReadsChanges
  <2> QED
    BY <2>1, <2>3, FlightStep DEF FlightInv, Guarded, Counted, InFlight, Flying
<1>9. ASSUME NEW t \in Tasks, RiggsAnswers(t) PROVE FlightInv'
  <2>1. task[t].pc = "asking" /\ UNCHANGED <<data, excuse, analyses>>
    BY <1>9 DEF RiggsAnswers, At
  <2>2. \/ GivesUp(t)
        \/ \E plan \in {"review", "close"} :
              task' = [task EXCEPT ![t].pc = "writing", ![t].plan = plan]
    BY <1>9 DEF RiggsAnswers, GivesUp, Restarts
  <2>3. {"review", "close"} \subseteq Plans
    BY DEF Plans
  <2>4. /\ OthersStay(t)
        /\ task'[t].pc = "completing" \/ (task'[t].pc = "writing" /\ task'[t].read = task[t].read)
    BY <2>2, <2>3, GivesUpChanges, PlanChanges
  <2> QED
    BY <2>1, <2>4, FlightStep DEF FlightInv, Guarded, ReadsHold, Counted, InFlight, Flying
<1>10. ASSUME NEW t \in Tasks, RiggsWrites(t) PROVE FlightInv'
  <2>1. /\ task[t].pc = "writing" /\ excuse' = excuse
        /\ data' = [task[t].read EXCEPT !.analysis = TRUE]
        /\ analyses' = IF analyses < 2 THEN analyses + 1 ELSE 2
    BY <1>10 DEF RiggsWrites, At
  <2>2. OthersStay(t) /\ task'[t].pc = "following"
    BY <1>10, WritesChanges DEF RiggsWrites
  <2>3. data'.status = task[t].read.status /\ data'.analysis
    BY <2>1, TaskParts DEF Documents
  <2>4. excuse = {} => analyses = 0 /\ task[t].read = data /\ data.status = "RUNNING"
    BY <2>1 DEF FlightInv, Guarded, ReadsHold, Counted, InFlight, Flying
  <2> QED
    BY <2>1, <2>2, <2>3, <2>4, FlightStep DEF InFlight, Flying
<1>11. ASSUME NEW t \in Tasks, RiggsFollows(t) PROVE FlightInv'
  <2>1. task[t].pc = "following" /\ UNCHANGED <<data, excuse, analyses>> /\ Goes(t, "completing")
    BY <1>11 DEF RiggsFollows, At
  <2>2. "completing" \in Points
    BY DEF Points, RiggsPoints
  <2>3. OthersStay(t) /\ task'[t].pc = "completing"
    BY <2>1, <2>2, GoesChanges
  <2> QED
    BY <2>1, <2>3, FlightStep DEF FlightInv, Guarded, Counted, InFlight, Flying
<1>12. ASSUME NEW t \in Tasks, MarkReads(t) PROVE FlightInv'
  <2>1. /\ task[t].pc = "completing" /\ UNCHANGED <<data, excuse, analyses>>
        /\ Reads(t, "marked", task[t].plan)
    BY <1>12 DEF MarkReads, At
  <2>2. "marked" \in Points
    BY DEF Points, RiggsPoints
  <2>3. OthersStay(t) /\ task'[t].pc = "marked" /\ task'[t].read = data
    BY <2>1, <2>2, TaskParts, ReadsChanges
  <2> QED
    BY <2>1, <2>3, FlightStep DEF FlightInv, Guarded, Counted, InFlight, Flying
<1>13. ASSUME NEW t \in Tasks, MarkWrites(t) PROVE FlightInv'
  <2>1. /\ task[t].pc = "marked" /\ UNCHANGED <<excuse, analyses>> /\ Ends(t)
        /\ data' = [task[t].read EXCEPT !.status = MarkedStatus(t)]
    BY <1>13 DEF MarkWrites, At
  <2>2. OthersStay(t) /\ task'[t].pc = "idle"
    BY <2>1, <1>5, EndsChanges
  <2>3. data'.analysis = task[t].read.analysis
    BY <2>1, TaskParts DEF Documents
  <2>4. excuse = {} => task[t].read = data
    BY <2>1 DEF FlightInv, ReadsHold
  <2> QED
    BY <2>1, <2>2, <2>3, <2>4, FlightStep DEF FlightInv, Counted, InFlight, Flying
<1>14. ASSUME NEW t \in Tasks, RiggsRaises(t) PROVE FlightInv'
  <2>1. task[t].pc \in Flying /\ UNCHANGED <<data, excuse, analyses>> /\ GivesUp(t)
    BY <1>14 DEF RiggsRaises, GivesUp, Restarts
  <2>2. OthersStay(t) /\ task'[t].pc = "completing"
    BY <2>1, GivesUpChanges
  <2> QED
    BY <2>1, <2>2, FlightStep DEF FlightInv, Guarded, Counted, InFlight, Flying
<1>15. ASSUME NEW t \in Tasks, MarkStarted(t) PROVE FlightInv'
  BY <1>15, StartStep
<1>16. ASSUME NEW t \in Tasks, AssetsWrite(t) PROVE FlightInv'
  <2>1. Replaces(t) /\ (Restarts(t, "analysing") \/ Ends(t)) /\ analyses' = analyses
    BY <1>16 DEF AssetsWrite, Restarts
  <2>2. "analysing" \in Points \ InFlight
    BY DEF Points, Analysing, InFlight, Flying
  <2> QED
    BY <2>1, <2>2, <1>5, <1>1, EndsChanges, RestartChanges, ReplacesChanges
<1>17. ASSUME NEW t \in Tasks, Agents(t) PROVE FlightInv'
  <2>1. UNCHANGED <<data, excuse, analyses>> /\ (task' = task \/ Goes(t, "escalating"))
    BY <1>17 DEF Agents, AgentConfirms, AgentSuspects, AgentCloses, AgentReviews, AgentStep
  <2>2. "escalating" \in Points \ InFlight
    BY DEF Points, InFlight, Flying
  <2> QED
    BY <2>1, <2>2, <1>1, GoesChanges, OtherStep
<1> QED
  BY <1>2, <1>3, <1>4, <1>6, <1>7, <1>8, <1>9, <1>10, <1>11, <1>12, <1>13, <1>14, <1>15, <1>16, <1>17
     DEF Next, Riggs, Analysis, Triage, Merges

LEMMA FlightInvariant == Spec => [](Typed /\ FlightInv)
  BY InitTyped, NextTyped, InitFlightInv, NextFlightInv, PTL DEF Spec

\* A set of tasks with no two different ones in it has one at most.
LEMMA AtMostOne ==
  ASSUME NEW S, S \subseteq Tasks, \A s, t \in S : s = t
  PROVE  ~(Cardinality(S) > 1)
<1>1. CASE S = {}
  BY <1>1, FS_EmptySet
<1>2. CASE S # {}
  <2>1. PICK s \in S : TRUE
    BY <1>2
  <2>2. S = {s}
    BY <2>1
  <2> QED
    BY <2>2, FS_Singleton
<1> QED
  BY <1>1, <1>2

\* Two runs of Riggs overlap only after one overran its half hour, a stale
\* document was written back over the guard, or an analyst cleared it.
THEOREM OneRiggsAtATime == Spec => []SingleFlight
<1>1. FlightInv => SingleFlight
  <2> SUFFICES ASSUME FlightInv, excuse = {} PROVE ~(Cardinality(Busy(Flying)) > 1)
    BY DEF SingleFlight
  <2>1. Busy(Flying) \subseteq Tasks /\ \A s, t \in Busy(Flying) : s = t
    BY DEF FlightInv, OneFlight, Busy, InFlight
  <2> QED
    BY <2>1, AtMostOne
<1> QED
  BY <1>1, FlightInvariant, PTL

\* Under the same conditions one analysis is ever written to the row, however
\* many jobs the sweep, the escalations and the retries queue.
THEOREM OneAnalysis == Spec => []AnalysedOnce
<1>1. Typed /\ FlightInv => AnalysedOnce
  BY DEF Typed, Row, FlightInv, Counted, AnalysedOnce
<1> QED
  BY <1>1, FlightInvariant, PTL

-----------------------------------------------------------------------------
(* A settled row *)

Beneath(t) == task'[t].pc \in Beside \/ (task'[t].pc = "linking" /\ task'[t].plan = "none")

\* What leaves the row's columns and jobs alone, and takes one task to a point
\* beside the row, leaves it settled.
LEMMA BesideStep ==
  ASSUME Settled, NEW t \in Tasks, OthersStay(t), Beneath(t), KeepsClosed',
         sweep' = sweep, riggsJobs' = riggsJobs, analysisJobs' = analysisJobs
  PROVE  Settled'
<1>1. \A s \in Tasks : Beneath(s)
  BY DEF Settled, OthersStay, Beneath, At
<1> QED
  BY <1>1 DEF Settled, KeepsClosed, Beneath, At

\* A step from a settled row that neither an analyst nor an agent takes leaves
\* it settled.
LEMMA SettledStep ==
  ASSUME Typed, Next, Settled, used'.human = used.human, used'.agents = used.agents
  PROVE  Settled'
<1>0. Tasked /\ data \in Documents /\ used \in Bounds
  BY DEF Typed, Row, Jobs
<1>1. /\ state \in Terminal /\ disposition = "benign" /\ sweep = "idle"
      /\ riggsJobs.pending = 0 /\ analysisJobs.pending = 0 /\ analysisJobs.seen
  BY DEF Settled
<1>2. \A t \in Tasks : task[t].pc \in Beside \/ (task[t].pc = "linking" /\ task[t].plan = "none")
  BY DEF Settled, At
<1>3. ~Sweep
  BY <1>1 DEF Sweep, SweepFinds, SweepReads, SweepMoves, SweepEnqueues, SweepFindsNew, SweepRenews,
     Swept, Terminal
<1>4. ~Uses("human", MaxHuman) /\ ~Uses("agents", MaxAgents)
  BY <1>0, BoundsAreNumbers DEF Uses, Bounds
<1>5. ~Analyst /\ \A t \in Tasks : ~Agents(t)
  BY <1>4 DEF Analyst, AnalystCloses, AnalystSets, AnalystChats, AnalystRetriages, Agents, AgentConfirms,
     AgentSuspects, AgentCloses, AgentReviews
<1>6. ASSUME NEW t \in Tasks
      PROVE  /\ ~Takes(t) /\ ~Riggs(t) /\ ~EscalationQueues(t)
             /\ ~AnalysisReads(t) /\ ~AnalysisWrites(t) /\ ~AnalysisFails(t)
             /\ ~RiggsRaises(t) /\ ~RiggsCrashes(t) /\ ~AnalysisCrashes(t)
  BY <1>1, <1>2 DEF At, Beside, Takes, RiggsTakes, AnalysisTakes, Riggs, MarkStarted, RiggsReads,
     RiggsAnswers, RiggsWrites, RiggsFollows, MarkReads, MarkWrites, AnalysisReads, AnalysisWrites,
     AnalysisFails, EscalationQueues, RiggsRaises, RiggsCrashes, AnalysisCrashes, RiggsPoints, Flying,
     Analysing
<1>7. ASSUME task' = task, KeepsClosed', UNCHANGED <<sweep, riggsJobs, analysisJobs>> PROVE Settled'
  BY <1>7 DEF Settled, KeepsClosed, At
<1>8. ASSUME DeepDiveEnds \/ HalfAnHourPasses PROVE Settled'
  BY <1>1, <1>7, <1>8 DEF DeepDiveEnds, HalfAnHourPasses, KeepsClosed, Terminal, row, jobs
<1>9. ASSUME NEW t \in Tasks, Triage(t) PROVE Settled'
  <2>1. KeepsClosed' /\ UNCHANGED <<sweep, riggsJobs, analysisJobs>>
    BY <1>1, <1>9 DEF Triage, TriageUpdates, CorrelationReads, AssetsRead, KeepsClosed, row, jobs
  <2>2. CASE TriageUpdates(t)
    <3>1. Goes(t, "ensuring") /\ "ensuring" \in Points \cap Beside
      BY <2>2 DEF TriageUpdates, Points, Beside
    <3>2. OthersStay(t) /\ Beneath(t)
      BY <1>0, <3>1, GoesChanges DEF Beneath
    <3> QED
      BY <2>1, <3>2, BesideStep
  <2>3. CASE CorrelationReads(t)
    <3>1. Reads(t, "linking", "none") /\ "linking" \in Points /\ "none" \in Plans
      BY <1>1, <2>3 DEF CorrelationReads, Points, Plans
    <3>2. OthersStay(t) /\ Beneath(t)
      BY <1>0, <3>1, ReadsChanges DEF Beneath
    <3> QED
      BY <2>1, <3>2, BesideStep
  <2>4. CASE AssetsRead(t)
    <3>1. task[t].pc # "starting"
      BY <1>2 DEF Beside
    <3>2. Reads(t, "enriching", "none")
      BY <2>4, <3>1 DEF AssetsRead, At
    <3>3. "enriching" \in Points /\ "enriching" \in Beside /\ "none" \in Plans
      BY DEF Points, Beside, Plans
    <3>4. OthersStay(t) /\ Beneath(t)
      BY <1>0, <3>2, <3>3, ReadsChanges DEF Beneath
    <3> QED
      BY <2>1, <3>4, BesideStep
  <2> QED
    BY <1>9, <2>2, <2>3, <2>4 DEF Triage
<1>10. ASSUME NEW t \in Tasks, TriageEnsures(t) \/ CorrelationWrites(t) \/ AssetsWrite(t) PROVE Settled'
  <2>1. Ends(t)
    BY <1>2, <1>10 DEF TriageEnsures, CorrelationWrites, AssetsWrite, At, Beside
  <2>2. KeepsClosed' /\ UNCHANGED <<sweep, riggsJobs, analysisJobs>>
    BY <1>1, <1>2, <1>10 DEF TriageEnsures, CorrelationWrites, AssetsWrite, NoAnalysisJob, KeepsClosed,
       At, Beside, row, jobs
  <2>3. OthersStay(t) /\ Beneath(t)
    BY <1>0, <2>1, EndsChanges DEF Beneath, Beside, Idle
  <2> QED
    BY <2>2, <2>3, BesideStep
<1> QED
  BY <1>3, <1>5, <1>6, <1>8, <1>9, <1>10 DEF Next, Analysis, Merges

\* Through any number of later alerts correlated to a row that was closed as
\* benign, or linked to it and triaged, the row stays closed: what reopens it is
\* an analyst or an agent.
THEOREM BenignStaysClosed == Spec => SettledStaysClosed
<1>1. ASSUME Typed, [Next]_vars
      PROVE  [Settled /\ used'.human = used.human /\ used'.agents = used.agents => Settled']_vars
  BY <1>1, SettledStep
<1> QED
  BY <1>1, FlightInvariant, PTL DEF Spec, SettledStaysClosed

=============================================================================
