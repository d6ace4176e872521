----------------------------- MODULE AlertIntake -----------------------------
(***************************************************************************)
(* One alert from its arrival to its verdict: correlation, the pre-flight  *)
(* for phishing simulations, enrichment, T1 triage and the investigations  *)
(* they open (backend/services/auto_enrichment.py, ai_triage_service.py,   *)
(* alert_correlation_service.py, enrichment_queue.py).                     *)
(*                                                                         *)
(* enrich_alert ends with a T1 triage of its own, which the pipeline that  *)
(* calls it follows with another: the `inner' and the outer one.  The two  *)
(* are kept apart only by the hash of the snapshot they worked on, stored  *)
(* when a triage is over.  No statement is in a transaction with another.  *)
(***************************************************************************)
EXTENDS Naturals, FiniteSets

CONSTANTS
    Tasks,      \* background tasks and request handlers working on the alert
    Snapshots,  \* hashes of sealed enrichment snapshots
    NoHash,     \* the column is NULL
    MaxRuns,    \* bound on what is started after the arrival
    Faulty      \* one step may raise an exception, or its process stop

ASSUME IntakeAssumption ==
    /\ IsFiniteSet(Tasks) /\ Tasks # {}
    /\ Snapshots # {} /\ NoHash \notin Snapshots
    /\ MaxRuns \in Nat /\ Faulty \in BOOLEAN

VARIABLES
    alert,     \* what the alert is like; never changes
    status,    \* alerts.status
    verdict,   \* alerts.ai_verdict, by what it leads to
    triage,    \* alerts.triage_status
    hash,      \* alerts.triage_enrichment_hash
    link,      \* alerts.investigation_id
    enriched,  \* its document holds an enrichment
    task,      \* what each task is doing
    started,   \* runs started after the arrival
    visited,   \* history: scanners have visited what the alert names
    related,   \* history: it has been correlated with an investigation
    orphans,   \* history: investigations opened for it that it does not name
    judged,    \* history: triages per snapshot, saturating at 2
    excuse     \* history: what may explain a departure from the rules

row == <<status, verdict, triage, hash, link, enriched>>
history == <<visited, related, orphans, judged, excuse>>
vars == <<alert, row, task, started, history>>

\* `closing' closes the alert, `doubtful' opens an investigation, `quiet' neither.
Verdicts == {"closing", "quiet", "doubtful"}
Jobs == {"ingest", "api", "form", "enrich", "rerun"}
Ways == Jobs \cup {"short"}
Points == {"idle", "correlating", "preflight", "enriching", "checking", "autolinking",
           "automarking", "sealing", "judging", "storing", "opening", "linking",
           "hashing", "late"}
Snapshot == Snapshots \cup {NoHash}

TypeOK ==
    /\ alert \in [iocs : BOOLEAN, hostile : BOOLEAN, test : BOOLEAN, stable : BOOLEAN]
    /\ status \in {"open", "triaged", "investigating", "closed"}
    /\ verdict \in Verdicts \cup {"none"}
    /\ triage \in {"none", "blocked", "completed"}
    /\ hash \in Snapshot
    /\ link \in {"none", "own", "other"}
    /\ enriched \in BOOLEAN
    /\ task \in [Tasks -> [pc : Points, way : Ways, inner : BOOLEAN, complete : BOOLEAN,
                           snapshot : Snapshot, verdict : Verdicts \cup {"none"}]]
    /\ started \in 0..MaxRuns
    /\ visited \in BOOLEAN
    /\ related \in BOOLEAN
    /\ orphans \in Nat
    /\ judged \in [Snapshots -> 0..2]
    /\ excuse \subseteq {"overlap", "fault"}

Idle == [pc |-> "idle", way |-> "ingest", inner |-> TRUE, complete |-> TRUE,
         snapshot |-> NoHash, verdict |-> "none"]

At(t, point) == task[t].pc = point
Goes(t, point) == task' = [task EXCEPT ![t].pc = point]
Ends(t) == task' = [task EXCEPT ![t] = Idle]
Active == {t \in Tasks : ~At(t, "idle")}
Begins(t, way, point) ==
    /\ At(t, "idle")
    /\ started < MaxRuns /\ started' = started + 1
    /\ task' = [task EXCEPT ![t] = [Idle EXCEPT !.pc = point, !.way = way]]

\* In enrich_alert, called by a pipeline that looks at what it returns.
IsPipeline(t) == task[t].inner /\ task[t].way \in {"ingest", "api", "form"}

\* The end of enrich_alert_background.  A request that created the alert has a
\* second background task to run: _correlate_alert_task.
Leaves(t) == IF task[t].way = "api" THEN Goes(t, "late") ELSE Ends(t)

\* The alert names another investigation: an own one named before is orphaned.
Names(investigation) ==
    /\ link' = investigation
    /\ orphans' = orphans + (IF link = "own" THEN 1 ELSE 0)

Init ==
    /\ alert \in [iocs : BOOLEAN, hostile : BOOLEAN, test : BOOLEAN, stable : BOOLEAN]
    /\ (alert.hostile \/ alert.stable) => alert.iocs
    /\ status = "open" /\ verdict = "none" /\ triage = "none" /\ hash = NoHash
    /\ enriched = FALSE
    /\ started = 0
    /\ visited = FALSE /\ related = FALSE /\ orphans = 0 /\ excuse = {}
    /\ judged = [s \in Snapshots |-> 0]
    /\ \E t \in Tasks, way \in {"ingest", "api", "form"} :
          /\ task = [u \in Tasks |-> IF u = t THEN [Idle EXCEPT !.pc = "correlating", !.way = way]
                                     ELSE Idle]
          /\ link = IF way = "form" THEN "other" ELSE "none"

-----------------------------------------------------------------------------
(* enrich_alert_background: correlation and the pre-flight *)

\* The pipeline ends with its next triage; the task after it is left.
Shortened(way) == IF way = "api" THEN way ELSE "short"

\* _link_alert_to_investigation; InvestigationReview has what it does to the row
\* of the investigation.
Correlated ==
    /\ Names("other")
    /\ status' = "triaged"
    /\ related' = TRUE

Correlates(t) ==
    /\ At(t, "correlating") /\ alert.iocs
    /\ Correlated
    /\ task' = [task EXCEPT ![t] = [@ EXCEPT !.pc = "enriching", !.way = Shortened(task[t].way),
                                             !.inner = FALSE]]
    /\ UNCHANGED <<alert, verdict, triage, hash, enriched, started, visited, judged, excuse>>

FindsNoMatch(t) ==
    /\ At(t, "correlating")
    /\ Goes(t, "preflight")
    /\ UNCHANGED <<alert, row, started, history>>

\* Mutant: the pre-flight comes after the enrichment.
MissesTest == FALSE

IsTest == alert.test

Preflight(t) ==
    /\ At(t, "preflight")
    /\ task' = IF IsTest
               THEN [task EXCEPT ![t] = [@ EXCEPT !.pc = "storing", !.verdict = "closing",
                                                  !.way = Shortened(task[t].way), !.inner = FALSE]]
               ELSE [task EXCEPT ![t].pc = "enriching"]
    /\ UNCHANGED <<alert, row, started, history>>

-----------------------------------------------------------------------------
(* enrich_alert and _auto_create_investigation *)

\* Asked for by the sweep of the enrichment queue or by an analyst.
ReEnriches(t) ==
    /\ ~enriched
    /\ Begins(t, "enrich", "enriching")
    /\ excuse' = excuse \cup (IF Active # {} THEN {"overlap"} ELSE {})
    /\ UNCHANGED <<alert, row, visited, related, orphans, judged>>

\* Some indicators may be left without a result; an alert without indicators is
\* always completely enriched.
Enriches(t) ==
    /\ At(t, "enriching")
    /\ \E s \in Snapshots, complete \in BOOLEAN :
          /\ alert.iocs \/ complete
          /\ task' = [task EXCEPT ![t] = [@ EXCEPT !.pc = IF alert.hostile THEN "checking" ELSE "sealing",
                                                   !.snapshot = s, !.complete = complete]]
    /\ visited' = TRUE
    /\ enriched' = (enriched \/ alert.iocs)
    /\ UNCHANGED <<alert, status, verdict, triage, hash, link, started, related, orphans, judged, excuse>>

\* Mutant: the alert is not asked whether it names an investigation already.
AlwaysUnlinked == TRUE

Unlinked == link = "none"

AutoCreates(t) ==
    /\ At(t, "checking")
    /\ Goes(t, IF Unlinked THEN "autolinking" ELSE "sealing")
    /\ UNCHANGED <<alert, row, started, history>>

AutoLinks(t) ==
    /\ At(t, "autolinking")
    /\ Names("own")
    /\ Goes(t, "automarking")
    /\ UNCHANGED <<alert, status, verdict, triage, hash, enriched, started, visited, related, judged, excuse>>

AutoMarks(t) ==
    /\ At(t, "automarking")
    /\ status' = "investigating"
    /\ Goes(t, "sealing")
    /\ UNCHANGED <<alert, verdict, triage, hash, link, enriched, started, history>>

-----------------------------------------------------------------------------
(* _run_ai_triage inside enrich_alert, and the second half of the pipeline *)

\* Mutant: a snapshot that was triaged already is triaged again.
MayJudgeAgain(t) == task[t].complete

MayJudge(t) == task[t].complete /\ hash # task[t].snapshot

\* Mutant: the reason is written into the status.
MarksReason(t) == IF task[t].complete THEN "duplicate_execution" ELSE "incomplete"

\* Mutant: nothing says that triage was refused.
MarksNothing(t) == triage

\* A duplicate keeps the status of a triage that gave a verdict.
Marks(t) == IF task[t].complete /\ verdict # "none" THEN triage ELSE "blocked"

\* Past the inner triage the pipeline seals a snapshot of its own.
GoesOn(t) ==
    IF IsPipeline(t)
    THEN \E s \in Snapshots, complete \in {task[t].complete, TRUE} :
            /\ (s = task[t].snapshot) <=> alert.stable
            /\ task' = [task EXCEPT ![t] = [@ EXCEPT !.pc = "sealing", !.inner = FALSE,
                                                     !.snapshot = s, !.complete = complete]]
    ELSE Leaves(t)

Refuses(t) ==
    /\ At(t, "sealing") /\ ~MayJudge(t)
    /\ triage' = Marks(t)
    /\ GoesOn(t)
    /\ UNCHANGED <<alert, status, verdict, hash, link, enriched, started, history>>

\* skip_triage is looked at here, and not by the inner triage.
Skips(t) == task[t].way = "form" /\ ~task[t].inner

Accepts(t) ==
    /\ At(t, "sealing") /\ MayJudge(t)
    /\ IF Skips(t) THEN Leaves(t) ELSE Goes(t, "judging")
    /\ UNCHANGED <<alert, row, started, history>>

\* Analysts may ask for another triage at any time: it looks at no hash.
Reruns(t) ==
    /\ Begins(t, "rerun", "judging")
    /\ excuse' = excuse \cup (IF Active # {} THEN {"overlap"} ELSE {})
    /\ UNCHANGED <<alert, row, visited, related, orphans, judged>>

-----------------------------------------------------------------------------
(* triage_alert and _store_verdict *)

Judges(t) ==
    /\ At(t, "judging")
    /\ \E v \in Verdicts :
          /\ (alert.test /\ task[t].way # "rerun") => v = "closing"
          /\ task' = [task EXCEPT ![t].pc = "storing", ![t].verdict = v]
    /\ judged' = [s \in Snapshots |-> IF s = task[t].snapshot /\ judged[s] < 2
                                      THEN judged[s] + 1 ELSE judged[s]]
    /\ UNCHANGED <<alert, row, started, visited, related, orphans, excuse>>

\* A re-run and the pre-flight store no hash.
Stored(t) ==
    IF task[t].snapshot = NoHash THEN Leaves(t) ELSE Goes(t, "hashing")

\* Mutant: only a verdict on an alert that names an investigation is followed up.
NeedsLinkedInvestigation(t) == task[t].verdict = "doubtful" /\ link # "none"

NeedsInvestigation(t) == task[t].verdict = "doubtful"

StatusFor(v) == IF v = "closing" THEN "closed" ELSE "triaged"

Stores(t) ==
    /\ At(t, "storing")
    /\ verdict' = task[t].verdict
    /\ status' = StatusFor(task[t].verdict)
    /\ IF NeedsInvestigation(t) THEN Goes(t, "opening") ELSE Stored(t)
    /\ UNCHANGED <<alert, triage, hash, link, enriched, started, history>>

\* _create_investigation_from_triage: an investigation that is there is updated.
Opens(t) ==
    /\ At(t, "opening")
    /\ IF Unlinked THEN Goes(t, "linking") ELSE Stored(t)
    /\ UNCHANGED <<alert, row, started, history>>

Links(t) ==
    /\ At(t, "linking")
    /\ Names("own")
    /\ status' = "triaged"
    /\ Stored(t)
    /\ UNCHANGED <<alert, verdict, triage, hash, enriched, started, visited, related, judged, excuse>>

Hashes(t) ==
    /\ At(t, "hashing")
    /\ hash' = task[t].snapshot
    /\ triage' = "completed"
    /\ GoesOn(t)
    /\ UNCHANGED <<alert, status, verdict, link, enriched, started, history>>

\* _correlate_alert_task: the match may be the investigation it has itself.
CorrelatesLate(t) ==
    /\ At(t, "late")
    /\ \/ alert.iocs /\ Correlated
       \/ /\ alert.iocs /\ link = "own" /\ status' = "triaged" /\ related' = TRUE
          /\ UNCHANGED <<link, orphans>>
       \/ UNCHANGED <<status, link, related, orphans>>
    /\ Ends(t)
    /\ UNCHANGED <<alert, verdict, triage, hash, enriched, started, visited, judged, excuse>>

-----------------------------------------------------------------------------
(* Failures *)

Fault == Faulty /\ "fault" \notin excuse

Faulted == excuse' = excuse \cup {"fault"}

\* The pre-flight's exception is not fatal: the enrichment follows.
PreflightRaises(t) ==
    /\ At(t, "preflight") /\ Fault /\ Faulted
    /\ Goes(t, "enriching")
    /\ UNCHANGED <<alert, row, started, visited, related, orphans, judged>>

\* enrich_alert returns an error, which only the pipeline looks at.
EnrichRaises(t) ==
    /\ At(t, "enriching") /\ Fault /\ Faulted
    /\ triage' = IF IsPipeline(t) THEN "blocked" ELSE triage
    /\ Leaves(t)
    /\ UNCHANGED <<alert, status, verdict, hash, link, enriched, started, visited, related, orphans, judged>>

\* triage_alert and _store_verdict swallow exceptions; the hash is stored after them.
TriageRaises(t) ==
    /\ task[t].pc \in {"judging", "storing", "opening"} /\ Fault /\ Faulted
    /\ Stored(t)
    /\ UNCHANGED <<alert, row, started, visited, related, orphans, judged>>

\* The insertion was done: the investigation stays without its alert.
LinkRaises(t) ==
    /\ task[t].pc \in {"autolinking", "linking"} /\ Fault /\ Faulted
    /\ orphans' = orphans + 1
    /\ IF At(t, "linking") THEN Stored(t) ELSE Goes(t, "sealing")
    /\ UNCHANGED <<alert, row, started, visited, related, judged>>

Crashes(t) ==
    /\ ~At(t, "idle") /\ Fault /\ Faulted
    /\ orphans' = orphans + (IF task[t].pc \in {"autolinking", "linking"} THEN 1 ELSE 0)
    /\ Ends(t)
    /\ UNCHANGED <<alert, row, started, visited, related, judged>>

-----------------------------------------------------------------------------

Step(t) ==
    \/ Correlates(t) \/ FindsNoMatch(t) \/ Preflight(t)
    \/ Enriches(t) \/ AutoCreates(t) \/ AutoLinks(t) \/ AutoMarks(t)
    \/ Refuses(t) \/ Accepts(t) \/ Judges(t)
    \/ Stores(t) \/ Opens(t) \/ Links(t) \/ Hashes(t) \/ CorrelatesLate(t)

Fails(t) ==
    \/ PreflightRaises(t) \/ EnrichRaises(t) \/ TriageRaises(t) \/ LinkRaises(t) \/ Crashes(t)

Next == \E t \in Tasks : Step(t) \/ ReEnriches(t) \/ Reruns(t) \/ Fails(t)

Spec == Init /\ [][Next]_vars

\* A background task that is not cancelled goes on.
FairSpec == Spec /\ \A t \in Tasks : WF_vars(Step(t))

-----------------------------------------------------------------------------
(* Properties *)

\* An investigation opened for the alert stays without it only if two tasks were
\* on the alert at once, a later correlation gave the alert another one, or a
\* step failed: within one pipeline the enrichment's investigation and the two
\* triages' are one (auto_enrichment.py:1446).
OrphanNeedsReason ==
    orphans > 0 => related \/ excuse \cap {"overlap", "fault"} # {}

\* T1 sees one snapshot twice only if tasks overlapped, a step failed, or another
\* snapshot was triaged in between: the inner and the outer triage of a stable
\* alert are one (auto_enrichment.py:40).
JudgedOncePerSnapshot ==
    \A s \in Snapshots :
        judged[s] > 1 => \/ excuse \cap {"overlap", "fault"} # {}
                         \/ \E r \in Snapshots \ {s} : judged[r] > 0

\* Scanners visit the links of a recognised phishing simulation only if the alert
\* was correlated first, an enrichment was asked for from outside the pipeline,
\* or the pre-flight failed (auto_enrichment.py:1801).
TestsVisitedWithReason ==
    alert.test /\ visited => related \/ started > 0 \/ "fault" \in excuse

\* At rest a doubtful verdict has an investigation, whichever of the triages gave
\* it and whatever ran beside it, unless a step failed.
DoubtIsInvestigated ==
    Active = {} /\ verdict = "doubtful" /\ "fault" \notin excuse => link # "none"

\* The pre-flight keeps scanners away from phishing simulations.
TestsNotVisited == alert.test => ~visited

\* No alert is forgotten: it gets a verdict or is marked as blocked, unless a
\* step fails.
Answered == <>(verdict # "none" \/ triage = "blocked" \/ "fault" \in excuse)
=============================================================================
