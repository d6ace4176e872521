-------------------------- MODULE AlertIntakeProofs --------------------------
(***************************************************************************)
(* What the pipeline of an alert keeps, for any number of tasks, snapshots *)
(* and runs, whatever the alert is like and whatever fails.                *)
(***************************************************************************)
EXTENDS AlertIntake, TLAPS

-----------------------------------------------------------------------------
(* What the operators on tasks do *)

Task == [pc : Points, way : Ways, inner : BOOLEAN, complete : BOOLEAN,
         snapshot : Snapshot, verdict : Verdicts \cup {"none"}]
Tasked == task \in [Tasks -> Task]
OthersStay(t) == \A s \in Tasks \ {t} : task'[s] = task[s]

\* A task keeps its snapshot from the test of its hash to the writing of it.
Keeping == {"preflight", "judging", "storing", "opening", "linking", "hashing"}

Moves(t, tos) ==
    /\ Tasked' /\ OthersStay(t)
    /\ task'[t].pc \in tos
    /\ task'[t].pc \in Keeping => task'[t].snapshot = task[t].snapshot

LEMMA IdleIsTask == Idle \in Task
  BY DEF Idle, Task, Points, Ways, Jobs, Snapshot

LEMMA NewRecord ==
  ASSUME Tasked, NEW t \in Tasks, NEW rec \in Task, task' = [task EXCEPT ![t] = rec]
  PROVE  Tasked' /\ OthersStay(t) /\ task'[t] = rec
  BY DEF Tasked, OthersStay

LEMMA GoesMoves ==
  ASSUME Tasked, NEW t \in Tasks, NEW point \in Points, Goes(t, point)
  PROVE  Moves(t, {point})
<1> DEFINE rec == [task[t] EXCEPT !.pc = point]
<1>1. task[t] \in Task
  BY DEF Tasked
<1>2. rec \in Task /\ rec.pc = point /\ rec.snapshot = task[t].snapshot
  BY <1>1 DEF Task
<1>3. task' = [task EXCEPT ![t] = rec]
  BY DEF Goes, Tasked
<1> HIDE DEF rec
<1> QED
  BY <1>2, <1>3, NewRecord DEF Moves

LEMMA EndsMoves ==
  ASSUME Tasked, NEW t \in Tasks, Ends(t)
  PROVE  Moves(t, {"idle"})
<1>1. Tasked' /\ OthersStay(t) /\ task'[t] = Idle
  BY IdleIsTask, NewRecord DEF Ends
<1> QED
  BY <1>1 DEF Moves, Idle, Keeping

LEMMA LeavesMoves ==
  ASSUME Tasked, NEW t \in Tasks, Leaves(t)
  PROVE  Moves(t, {"idle", "late"})
<1>1. Ends(t) \/ Goes(t, "late")
  BY DEF Leaves
<1> QED
  BY <1>1, EndsMoves, GoesMoves DEF Moves, Points

\* After the verdict a task writes its hash if it has one.
LEMMA StoredMoves ==
  ASSUME Tasked, NEW t \in Tasks, Stored(t)
  PROVE  \/ task[t].snapshot = NoHash /\ Moves(t, {"idle", "late"})
         \/ task[t].snapshot # NoHash /\ Moves(t, {"hashing"})
<1>1. CASE task[t].snapshot = NoHash
  BY <1>1, LeavesMoves DEF Stored
<1>2. CASE task[t].snapshot # NoHash
  BY <1>2, GoesMoves DEF Stored, Points
<1> QED
  BY <1>1, <1>2

LEMMA GoesOnMoves ==
  ASSUME Tasked, NEW t \in Tasks, GoesOn(t)
  PROVE  Moves(t, {"idle", "late", "sealing"})
<1>1. CASE Leaves(t)
  BY <1>1, LeavesMoves DEF Moves
<1>2. ASSUME NEW s \in Snapshots, NEW complete \in BOOLEAN,
             task' = [task EXCEPT ![t] = [@ EXCEPT !.pc = "sealing", !.inner = FALSE,
                                                   !.snapshot = s, !.complete = complete]]
      PROVE  Moves(t, {"sealing"})
  <2> DEFINE rec == [task[t] EXCEPT !.pc = "sealing", !.inner = FALSE, !.snapshot = s, !.complete = complete]
  <2>1. task[t] \in Task
    BY DEF Tasked
  <2>2. rec \in Task /\ rec.pc = "sealing"
    BY <2>1 DEF Task, Points, Snapshot
  <2>3. task' = [task EXCEPT ![t] = rec]
    BY <1>2 DEF Tasked
  <2> HIDE DEF rec
  <2> QED
    BY <2>2, <2>3, NewRecord DEF Moves, Keeping
<1>3. task[t].complete \in BOOLEAN
  BY DEF Tasked, Task
<1> QED
  BY <1>1, <1>2, <1>3 DEF GoesOn, Moves

-----------------------------------------------------------------------------
(* Where each step takes its task *)

LEMMA CorrelatesMoves ==
  ASSUME Tasked, NEW t \in Tasks, Correlates(t)
  PROVE  Moves(t, {"enriching"})
<1> DEFINE rec == [task[t] EXCEPT !.pc = "enriching", !.way = Shortened(@), !.inner = FALSE]
<1>1. task[t] \in Task
  BY DEF Tasked
<1>2. Shortened(task[t].way) \in Ways
  BY <1>1 DEF Task, Shortened, Ways
<1>3. rec \in Task /\ rec.pc = "enriching"
  BY <1>1, <1>2 DEF Task, Points
<1>4. task' = [task EXCEPT ![t] = rec]
  BY DEF Correlates, Tasked
<1> HIDE DEF rec
<1> QED
  BY <1>3, <1>4, NewRecord DEF Moves, Keeping

LEMMA PreflightMoves ==
  ASSUME Tasked, NEW t \in Tasks, Preflight(t)
  PROVE  IF IsTest THEN Moves(t, {"storing"}) ELSE Moves(t, {"enriching"})
<1>1. CASE ~IsTest
  <2>1. Goes(t, "enriching")
    BY <1>1 DEF Preflight, Goes
  <2> QED
    BY <1>1, <2>1, GoesMoves DEF Points
<1>2. CASE IsTest
  <2> DEFINE rec == [task[t] EXCEPT !.pc = "storing", !.verdict = "closing", !.way = Shortened(@), !.inner = FALSE]
  <2>1. task[t] \in Task
    BY DEF Tasked
  <2>2. Shortened(task[t].way) \in Ways
    BY <2>1 DEF Task, Shortened, Ways
  <2>3. rec \in Task /\ rec.pc = "storing" /\ rec.snapshot = task[t].snapshot
    BY <2>1, <2>2 DEF Task, Points, Verdicts
  <2>4. task' = [task EXCEPT ![t] = rec]
    BY <1>2 DEF Preflight, Tasked
  <2> HIDE DEF rec
  <2> QED
    BY <1>2, <2>3, <2>4, NewRecord DEF Moves
<1> QED
  BY <1>1, <1>2

LEMMA EnrichesMoves ==
  ASSUME Tasked, NEW t \in Tasks, Enriches(t)
  PROVE  Moves(t, {"checking", "sealing"})
<1>1. PICK s \in Snapshots, complete \in BOOLEAN :
         task' = [task EXCEPT ![t] = [@ EXCEPT !.pc = IF alert.hostile THEN "checking" ELSE "sealing",
                                               !.snapshot = s, !.complete = complete]]
  BY DEF Enriches
<1> DEFINE point == IF alert.hostile THEN "checking" ELSE "sealing"
           rec == [task[t] EXCEPT !.pc = point, !.snapshot = s, !.complete = complete]
<1>2. task[t] \in Task
  BY DEF Tasked
<1>3. point \in {"checking", "sealing"}
  OBVIOUS
<1>4. task' = [task EXCEPT ![t] = rec]
  BY <1>1 DEF Tasked
<1> HIDE DEF point
<1>5. rec \in Task /\ rec.pc = point
  BY <1>2, <1>3 DEF Task, Points, Snapshot
<1> HIDE DEF rec
<1> QED
  BY <1>3, <1>4, <1>5, NewRecord DEF Moves, Keeping

LEMMA JudgesMoves ==
  ASSUME Tasked, NEW t \in Tasks, Judges(t)
  PROVE  Moves(t, {"storing"})
<1>1. PICK v \in Verdicts : task' = [task EXCEPT ![t].pc = "storing", ![t].verdict = v]
  BY DEF Judges
<1> DEFINE rec == [[task[t] EXCEPT !.pc = "storing"] EXCEPT !.verdict = v]
<1>2. task[t] \in Task
  BY DEF Tasked
<1>3. rec \in Task /\ rec.pc = "storing" /\ rec.snapshot = task[t].snapshot
  BY <1>2 DEF Task, Points
<1>4. task' = [task EXCEPT ![t] = rec]
  BY <1>1 DEF Tasked
<1> HIDE DEF rec
<1> QED
  BY <1>3, <1>4, NewRecord DEF Moves

LEMMA BeginsMoves ==
  ASSUME Tasked, NEW t \in Tasks, NEW way \in Ways, NEW point \in Points, Begins(t, way, point)
  PROVE  Tasked' /\ OthersStay(t) /\ task'[t].pc = point /\ task'[t].snapshot = NoHash
<1> DEFINE rec == [Idle EXCEPT !.pc = point, !.way = way]
<1>1. rec \in Task /\ rec.pc = point /\ rec.snapshot = NoHash
  BY IdleIsTask DEF Task, Idle
<1>2. task' = [task EXCEPT ![t] = rec]
  BY DEF Begins
<1> HIDE DEF rec
<1> QED
  BY <1>1, <1>2, NewRecord

LEMMA InitTasked ==
  ASSUME Init
  PROVE  /\ Tasked
         /\ \E t \in Tasks : /\ \A u \in Tasks : u # t => At(u, "idle")
                             /\ At(t, "correlating") /\ task[t].snapshot = NoHash
<1>1. PICK t \in Tasks, way \in {"ingest", "api", "form"} :
         task = [u \in Tasks |-> IF u = t THEN [Idle EXCEPT !.pc = "correlating", !.way = way] ELSE Idle]
  BY DEF Init
<1> DEFINE rec == [Idle EXCEPT !.pc = "correlating", !.way = way]
<1>2. rec \in Task /\ rec.pc = "correlating" /\ rec.snapshot = NoHash
  BY IdleIsTask DEF Task, Idle, Points, Ways, Jobs
<1> HIDE DEF rec
<1>3. Tasked /\ task[t] = rec /\ \A u \in Tasks : u # t => task[u] = Idle
  BY <1>1, <1>2, IdleIsTask DEF Tasked, rec
<1> QED
  BY <1>2, <1>3 DEF At, Idle

LEMMA AcceptsMoves ==
  ASSUME Tasked, NEW t \in Tasks, Accepts(t)
  PROVE  Moves(t, {"idle", "late"}) \/ (Moves(t, {"judging"}) /\ hash # task[t].snapshot)
<1>1. Leaves(t) \/ (Goes(t, "judging") /\ hash # task[t].snapshot)
  BY DEF Accepts, MayJudge
<1> QED
  BY <1>1, LeavesMoves, GoesMoves DEF Points

LEMMA AutoMoves ==
  ASSUME Tasked, NEW t \in Tasks
  PROVE  /\ FindsNoMatch(t) => Moves(t, {"preflight"})
         /\ AutoCreates(t) => (Unlinked /\ Moves(t, {"autolinking"})) \/ Moves(t, {"sealing"})
         /\ AutoLinks(t) => Moves(t, {"automarking"})
         /\ AutoMarks(t) => Moves(t, {"sealing"})
<1>1. ASSUME AutoCreates(t)
      PROVE (Unlinked /\ Moves(t, {"autolinking"})) \/ Moves(t, {"sealing"})
  <2>1. (Unlinked /\ Goes(t, "autolinking")) \/ Goes(t, "sealing")
    BY <1>1 DEF AutoCreates
  <2> QED
    BY <2>1, GoesMoves DEF Points
<1> QED
  BY <1>1, GoesMoves DEF FindsNoMatch, AutoLinks, AutoMarks, Points

LEMMA RefusesMoves ==
  ASSUME Tasked, NEW t \in Tasks, Refuses(t) \/ Hashes(t)
  PROVE  Moves(t, {"idle", "late", "sealing"})
  BY GoesOnMoves DEF Refuses, Hashes

LEMMA CorrelatesLateMoves ==
  ASSUME Tasked, NEW t \in Tasks, CorrelatesLate(t)
  PROVE  Moves(t, {"idle"})
  BY EndsMoves DEF CorrelatesLate

\* A verdict that needs an investigation, the look for one, and the opening.
HasStored(t) ==
    \/ task[t].snapshot = NoHash /\ Moves(t, {"idle", "late"})
    \/ task[t].snapshot # NoHash /\ Moves(t, {"hashing"})

LEMMA StoresMoves ==
  ASSUME Tasked, NEW t \in Tasks
  PROVE  /\ Stores(t) => \/ Moves(t, {"opening"})
                         \/ verdict' # "doubtful" /\ HasStored(t)
         /\ Opens(t) => \/ Unlinked /\ Moves(t, {"linking"})
                        \/ ~Unlinked /\ HasStored(t)
         /\ Links(t) => HasStored(t)
<1>1. ASSUME Stores(t) PROVE Moves(t, {"opening"}) \/ (verdict' # "doubtful" /\ HasStored(t))
  BY <1>1, GoesMoves, StoredMoves DEF Stores, NeedsInvestigation, HasStored, Points
<1>2. ASSUME Opens(t) PROVE (Unlinked /\ Moves(t, {"linking"})) \/ (~Unlinked /\ HasStored(t))
  BY <1>2, GoesMoves, StoredMoves DEF Opens, HasStored, Points
<1>3. ASSUME Links(t) PROVE HasStored(t)
  BY <1>3, StoredMoves DEF Links, HasStored
<1> QED
  BY <1>1, <1>2, <1>3

\* However a task fails, it does not come back to the start.
LEMMA FailsMoves ==
  ASSUME Tasked, NEW t \in Tasks, Fails(t)
  PROVE  /\ Moves(t, {"idle", "late", "enriching", "sealing", "hashing"})
         /\ "fault" \in excuse' /\ excuse' = excuse \cup {"fault"} /\ ~At(t, "idle")
<1>1. CASE PreflightRaises(t)
  BY <1>1, GoesMoves DEF PreflightRaises, Faulted, At, Moves, Points
<1>2. CASE EnrichRaises(t)
  BY <1>2, LeavesMoves DEF EnrichRaises, Faulted, At, Moves
<1>3. CASE TriageRaises(t)
  BY <1>3, StoredMoves DEF TriageRaises, Faulted, At, Moves
<1>4. CASE LinkRaises(t)
  BY <1>4, StoredMoves, GoesMoves DEF LinkRaises, Faulted, At, Moves, Points
<1>5. CASE Crashes(t)
  BY <1>5, EndsMoves DEF Crashes, Faulted, At, Moves
<1> QED
  BY <1>1, <1>2, <1>3, <1>4, <1>5 DEF Fails

-----------------------------------------------------------------------------
(* Type correctness *)

Flags == enriched \in BOOLEAN /\ visited \in BOOLEAN /\ related \in BOOLEAN

Typed ==
    /\ alert \in [iocs : BOOLEAN, hostile : BOOLEAN, test : BOOLEAN, stable : BOOLEAN]
    /\ status \in {"open", "triaged", "investigating", "closed"}
    /\ verdict \in Verdicts \cup {"none"}
    /\ triage \in {"none", "blocked", "completed"}
    /\ hash \in Snapshot
    /\ link \in {"none", "own", "other"}
    /\ Tasked
    /\ started \in 0..MaxRuns
    /\ orphans \in Nat
    /\ judged \in [Snapshots -> 0..2]
    /\ excuse \subseteq {"overlap", "fault"}

LEMMA TypeParts == (TypeOK <=> Flags /\ Typed) /\ (TypeOK' <=> Flags' /\ Typed')
<1>1. TypeOK <=> Flags /\ Typed
  BY DEF TypeOK, Flags, Typed, Tasked, Task
<1>2. TypeOK' <=> Flags' /\ Typed'
  BY DEF TypeOK, Flags, Typed, Tasked, Task
<1> QED
  BY <1>1, <1>2

LEMMA InitTypeOK == Init => TypeOK
<1> SUFFICES ASSUME Init PROVE TypeOK
  OBVIOUS
<1>1. Tasked
  BY InitTasked
<1>2. alert \in [iocs : BOOLEAN, hostile : BOOLEAN, test : BOOLEAN, stable : BOOLEAN]
  BY DEF Init
<1>3. Typed
  BY <1>1, <1>2, IntakeAssumption DEF Init, Typed, Snapshot
<1>4. Flags
  BY DEF Init, Flags
<1> QED
  BY <1>3, <1>4, TypeParts

LEMMA NextFlags == TypeOK /\ [Next]_vars => Flags'
<1> SUFFICES ASSUME TypeOK, [Next]_vars PROVE Flags'
  OBVIOUS
<1>0. /\ Flags /\ alert.iocs \in BOOLEAN
  BY TypeParts DEF Typed
<1> USE <1>0 DEF Flags, row, history
<1>1. ASSUME NEW t \in Tasks, Enriches(t) PROVE Flags'
  BY <1>1 DEF Enriches
<1>2. ASSUME NEW t \in Tasks, Correlates(t) \/ CorrelatesLate(t) PROVE Flags'
  <2>1. related' \in {related, TRUE} /\ visited' = visited /\ enriched' = enriched
    BY <1>2 DEF Correlates, CorrelatesLate, Correlated
  <2> QED
    BY <2>1
<1>3. ASSUME NEW t \in Tasks,
             \/ FindsNoMatch(t) \/ Preflight(t) \/ AutoCreates(t) \/ AutoLinks(t) \/ AutoMarks(t)
             \/ Refuses(t) \/ Accepts(t) \/ Judges(t) \/ Stores(t) \/ Opens(t) \/ Links(t) \/ Hashes(t)
             \/ ReEnriches(t) \/ Reruns(t)
      PROVE  Flags'
  BY <1>3 DEF FindsNoMatch, Preflight, AutoCreates, AutoLinks, AutoMarks, Refuses, Accepts, Judges,
              Stores, Opens, Links, Hashes, ReEnriches, Reruns
<1>4. ASSUME NEW t \in Tasks, Fails(t) PROVE Flags'
  BY <1>4 DEF Fails, PreflightRaises, EnrichRaises, TriageRaises, LinkRaises, Crashes
<1>5. CASE UNCHANGED vars
  BY <1>5 DEF vars
<1> QED
  BY <1>1, <1>2, <1>3, <1>4, <1>5 DEF Next, Step

LEMMA NextTyped == TypeOK /\ [Next]_vars => Typed'
<1> SUFFICES ASSUME TypeOK, [Next]_vars PROVE Typed'
  OBVIOUS
<1>0. Typed /\ Tasked
  BY TypeParts DEF Typed
<1> USE <1>0 DEF row, history
<1>1. ASSUME NEW t \in Tasks, Correlates(t) PROVE Typed'
  <2>1. /\ UNCHANGED <<alert, verdict, triage, hash, started, judged, excuse>>
        /\ status' = "triaged" /\ link' = "other" /\ orphans' \in {orphans, orphans + 1}
    BY <1>1 DEF Correlates, Correlated, Names, Typed
  <2> QED
    BY <1>1, <2>1, CorrelatesMoves DEF Moves, Typed
<1>2. ASSUME NEW t \in Tasks, CorrelatesLate(t) PROVE Typed'
  <2>1. /\ UNCHANGED <<alert, verdict, triage, hash, started, judged, excuse>>
        /\ status' \in {status, "triaged"} /\ link' \in {link, "other"}
        /\ orphans' \in {orphans, orphans + 1}
    BY <1>2 DEF CorrelatesLate, Correlated, Names, Typed
  <2> QED
    BY <1>2, <2>1, CorrelatesLateMoves DEF Moves, Typed
<1>3. ASSUME NEW t \in Tasks, FindsNoMatch(t) \/ AutoCreates(t) \/ AutoLinks(t) \/ AutoMarks(t)
      PROVE  Typed'
  BY <1>3, AutoMoves DEF FindsNoMatch, AutoCreates, AutoLinks, AutoMarks, Names, Moves, Typed
<1>4. ASSUME NEW t \in Tasks, Preflight(t) PROVE Typed'
  BY <1>4, PreflightMoves DEF Preflight, Moves, Typed
<1>5. ASSUME NEW t \in Tasks, Enriches(t) PROVE Typed'
  <2>1. UNCHANGED <<alert, status, verdict, triage, hash, link, started, orphans, judged, excuse>>
    BY <1>5 DEF Enriches
  <2> QED
    BY <1>5, <2>1, EnrichesMoves DEF Moves, Typed
<1>6. ASSUME NEW t \in Tasks, Refuses(t) PROVE Typed'
  BY <1>6, RefusesMoves DEF Refuses, Marks, Moves, Typed
<1>7. ASSUME NEW t \in Tasks, Accepts(t) PROVE Typed'
  BY <1>7, AcceptsMoves DEF Accepts, Moves, Typed
<1>8. ASSUME NEW t \in Tasks, Judges(t) PROVE Typed'
  <2>1. \A s \in Snapshots : judged[s] \in 0..2
    BY DEF Typed
  <2>2. judged' \in [Snapshots -> 0..2]
    BY <1>8, <2>1 DEF Judges
  <2> QED
    BY <1>8, <2>2, JudgesMoves DEF Judges, Moves, Typed
<1>9. ASSUME NEW t \in Tasks, Stores(t) PROVE Typed'
  <2>1. task[t].verdict \in Verdicts \cup {"none"}
    BY DEF Tasked, Task
  <2> QED
    BY <1>9, <2>1, StoresMoves DEF Stores, StatusFor, HasStored, Moves, Typed
<1>10. ASSUME NEW t \in Tasks, Opens(t) \/ Links(t) PROVE Typed'
  <2>1. /\ UNCHANGED <<alert, verdict, triage, hash, started, judged, excuse>>
        /\ status' \in {status, "triaged"} /\ link' \in {link, "own"}
        /\ orphans' \in {orphans, orphans + 1}
    BY <1>10 DEF Opens, Links, Names, Typed
  <2>2. Tasked'
    BY <1>10, StoresMoves DEF HasStored, Moves
  <2> QED
    BY <2>1, <2>2 DEF Typed
<1>11. ASSUME NEW t \in Tasks, Hashes(t) PROVE Typed'
  <2>1. task[t].snapshot \in Snapshot
    BY DEF Tasked, Task
  <2> QED
    BY <1>11, <2>1, RefusesMoves DEF Hashes, Moves, Typed
<1>12. ASSUME NEW t \in Tasks, ReEnriches(t) \/ Reruns(t) PROVE Typed'
  <2>1. Begins(t, "enrich", "enriching") \/ Begins(t, "rerun", "judging")
    BY <1>12 DEF ReEnriches, Reruns
  <2>2. Tasked'
    BY <2>1, BeginsMoves DEF Points, Ways, Jobs
  <2>3. started' \in 0..MaxRuns
    BY <2>1, IntakeAssumption DEF Begins, Typed
  <2> QED
    BY <1>12, <2>2, <2>3 DEF ReEnriches, Reruns, Typed
<1>13. ASSUME NEW t \in Tasks, Fails(t) PROVE Typed'
  <2>1. Tasked' /\ excuse' = excuse \cup {"fault"}
    BY <1>13, FailsMoves DEF Moves
  <2>2. /\ UNCHANGED <<alert, status, verdict, hash, link, started, judged>>
        /\ triage' \in {triage, "blocked"} /\ orphans' \in {orphans, orphans + 1}
    BY <1>13 DEF Fails, PreflightRaises, EnrichRaises, TriageRaises, LinkRaises, Crashes, Typed
  <2> QED
    BY <2>1, <2>2 DEF Typed
<1>14. CASE UNCHANGED vars
  BY <1>14 DEF vars, Typed, Tasked
<1> QED
  BY <1>1, <1>2, <1>3, <1>4, <1>5, <1>6, <1>7, <1>8, <1>9, <1>10, <1>11, <1>12, <1>13, <1>14 DEF Next, Step

LEMMA NextTypeOK == TypeOK /\ [Next]_vars => TypeOK'
  BY NextFlags, NextTyped, TypeParts

\* The alert's row, the tasks and their history stay in their types.
THEOREM TypeCorrect == Spec => []TypeOK
  BY InitTypeOK, NextTypeOK, PTL DEF Spec

-----------------------------------------------------------------------------
(* Phishing simulations *)

\* Why a task may have scanners visit what the alert names.
Visitable == alert.test => related \/ started > 0 \/ "fault" \in excuse

VisitInv ==
    /\ visited => Visitable
    /\ \A t \in Tasks : At(t, "enriching") => Visitable

LEMMA InitVisitInv == Init => VisitInv
<1> SUFFICES ASSUME Init PROVE VisitInv
  OBVIOUS
<1>1. \A t \in Tasks : ~At(t, "enriching")
  BY InitTasked DEF At
<1> QED
  BY <1>1 DEF Init, VisitInv

\* A step of one task, once Visitable is known to stay.
LEMMA VisitStep ==
  ASSUME VisitInv, NEW t \in Tasks, OthersStay(t), Visitable => Visitable',
         visited' => visited \/ Visitable',
         task'[t].pc = "enriching" => Visitable'
  PROVE  VisitInv'
  BY DEF VisitInv, OthersStay, At

LEMMA NextVisitInv == TypeOK /\ VisitInv /\ [Next]_vars => VisitInv'
<1> SUFFICES ASSUME TypeOK, VisitInv, [Next]_vars PROVE VisitInv'
  OBVIOUS
<1>0. Tasked /\ started \in Nat
  BY TypeParts, IntakeAssumption DEF Typed
<1> USE <1>0 DEF row, history
<1>1. ASSUME NEW t \in Tasks, Correlates(t) PROVE VisitInv'
  <2>1. OthersStay(t)
    BY <1>1, CorrelatesMoves DEF Moves
  <2>2. Visitable' /\ visited' = visited
    BY <1>1 DEF Correlates, Correlated, Visitable
  <2> QED
    BY <2>1, <2>2, VisitStep
<1>2. ASSUME NEW t \in Tasks, CorrelatesLate(t) PROVE VisitInv'
  <2>1. OthersStay(t) /\ task'[t].pc = "idle"
    BY <1>2, CorrelatesLateMoves DEF Moves
  <2>2. (Visitable => Visitable') /\ visited' = visited
    BY <1>2 DEF CorrelatesLate, Correlated, Visitable
  <2> QED
    BY <2>1, <2>2, VisitStep
<1>3. ASSUME NEW t \in Tasks, Preflight(t) PROVE VisitInv'
  <2>1. UNCHANGED <<alert, started, visited, related, excuse>>
    BY <1>3 DEF Preflight
  <2>2. OthersStay(t) /\ (task'[t].pc = "enriching" => ~alert.test)
    BY <1>3, PreflightMoves DEF Moves, IsTest
  <2> QED
    BY <2>1, <2>2, VisitStep DEF Visitable
<1>4. ASSUME NEW t \in Tasks, Enriches(t) PROVE VisitInv'
  <2>1. UNCHANGED <<alert, started, related, excuse>> /\ At(t, "enriching")
    BY <1>4 DEF Enriches
  <2>2. OthersStay(t)
    BY <1>4, EnrichesMoves DEF Moves
  <2> QED
    BY <2>1, <2>2, VisitStep DEF Visitable, VisitInv
<1>5. ASSUME NEW t \in Tasks,
             \/ FindsNoMatch(t) \/ AutoCreates(t) \/ AutoLinks(t) \/ AutoMarks(t)
             \/ Refuses(t) \/ Accepts(t) \/ Judges(t) \/ Stores(t) \/ Opens(t) \/ Links(t) \/ Hashes(t)
      PROVE  VisitInv'
  <2>1. UNCHANGED <<alert, started, visited, related, excuse>>
    BY <1>5 DEF FindsNoMatch, AutoCreates, AutoLinks, AutoMarks, Refuses, Accepts, Judges, Stores, Opens,
                Links, Hashes
  <2>2. OthersStay(t) /\ task'[t].pc # "enriching"
    BY <1>5, AutoMoves, RefusesMoves, AcceptsMoves, JudgesMoves, StoresMoves DEF Moves, HasStored
  <2> QED
    BY <2>1, <2>2, VisitStep DEF Visitable
<1>6. ASSUME NEW t \in Tasks, ReEnriches(t) \/ Reruns(t) PROVE VisitInv'
  <2>1. UNCHANGED <<alert, visited, related>> /\ started' = started + 1
    BY <1>6 DEF ReEnriches, Reruns, Begins
  <2>2. OthersStay(t)
    BY <1>6, BeginsMoves DEF ReEnriches, Reruns, Points, Ways, Jobs
  <2>3. Visitable'
    BY <2>1 DEF Visitable
  <2> QED
    BY <2>1, <2>2, <2>3, VisitStep
<1>7. ASSUME NEW t \in Tasks, Fails(t) PROVE VisitInv'
  <2>1. visited' = visited
    BY <1>7 DEF Fails, PreflightRaises, EnrichRaises, TriageRaises, LinkRaises, Crashes
  <2>2. OthersStay(t) /\ Visitable'
    BY <1>7, FailsMoves DEF Moves, Visitable
  <2> QED
    BY <2>1, <2>2, VisitStep
<1>8. CASE UNCHANGED vars
  BY <1>8 DEF vars, VisitInv, Visitable, At
<1> QED
  BY <1>1, <1>2, <1>3, <1>4, <1>5, <1>6, <1>7, <1>8 DEF Next, Step

\* The links of a phishing simulation are visited only after a correlation, an
\* enrichment from outside the pipeline, or a pre-flight that failed.
THEOREM VisitsHaveReasons == Spec => []TestsVisitedWithReason
<1>1. VisitInv => TestsVisitedWithReason
  BY DEF VisitInv, Visitable, TestsVisitedWithReason
<1> QED
  BY <1>1, InitTypeOK, NextTypeOK, InitVisitInv, NextVisitInv, PTL DEF Spec

-----------------------------------------------------------------------------
(* Doubtful verdicts *)

\* From the verdict to the link somebody is at work on the investigation.
DoubtInv ==
    verdict = "doubtful" /\ "fault" \notin excuse =>
        link # "none" \/ \E t \in Tasks : task[t].pc \in {"opening", "linking"}

LEMMA InitDoubtInv == Init => DoubtInv
  BY DEF Init, DoubtInv

\* A step of one task that keeps the verdict and does not lose the link, or that
\* leads to the opening.
LEMMA DoubtStep ==
  ASSUME DoubtInv, NEW t \in Tasks, OthersStay(t), "fault" \in excuse => "fault" \in excuse',
         \/ verdict' # "doubtful" \/ link' # "none" \/ "fault" \in excuse'
         \/ task'[t].pc \in {"opening", "linking"}
         \/ /\ verdict' = verdict /\ link' = link
            /\ task[t].pc \notin {"opening", "linking"}
  PROVE  DoubtInv'
  BY DEF DoubtInv, OthersStay

LEMMA NextDoubtInv == TypeOK /\ DoubtInv /\ [Next]_vars => DoubtInv'
<1> SUFFICES ASSUME TypeOK, DoubtInv, [Next]_vars PROVE DoubtInv'
  OBVIOUS
<1>0. Tasked
  BY TypeParts DEF Typed
<1> USE <1>0 DEF row, history
<1>1. ASSUME NEW t \in Tasks, Correlates(t) PROVE DoubtInv'
  BY <1>1, CorrelatesMoves, DoubtStep DEF Correlates, Correlated, Names, Moves
<1>2. ASSUME NEW t \in Tasks, CorrelatesLate(t) PROVE DoubtInv'
  <2>1. OthersStay(t)
    BY <1>2, CorrelatesLateMoves DEF Moves
  <2>2. /\ UNCHANGED <<verdict, excuse>> /\ (link' = link \/ link' # "none")
        /\ task[t].pc \notin {"opening", "linking"}
    BY <1>2 DEF CorrelatesLate, Correlated, Names, At
  <2> QED
    BY <2>1, <2>2, DoubtStep
<1>3. ASSUME NEW t \in Tasks,
             \/ FindsNoMatch(t) \/ Preflight(t) \/ Enriches(t) \/ AutoCreates(t) \/ AutoMarks(t)
             \/ Refuses(t) \/ Accepts(t) \/ Judges(t) \/ Hashes(t)
      PROVE  DoubtInv'
  <2>1. /\ UNCHANGED <<verdict, link, excuse>>
        /\ task[t].pc \notin {"opening", "linking"}
    BY <1>3 DEF FindsNoMatch, Preflight, Enriches, AutoCreates, AutoMarks, Refuses, Accepts, Judges, Hashes, At
  <2>2. OthersStay(t)
    BY <1>3, AutoMoves, PreflightMoves, EnrichesMoves, RefusesMoves, AcceptsMoves, JudgesMoves DEF Moves
  <2> QED
    BY <2>1, <2>2, DoubtStep
<1>4. ASSUME NEW t \in Tasks, AutoLinks(t) \/ Links(t) PROVE DoubtInv'
  <2>1. link' = "own" /\ excuse' = excuse
    BY <1>4 DEF AutoLinks, Links, Names
  <2>2. OthersStay(t)
    BY <1>4, AutoMoves, StoresMoves DEF Moves, HasStored
  <2> QED
    BY <2>1, <2>2, DoubtStep
<1>5. ASSUME NEW t \in Tasks, Stores(t) PROVE DoubtInv'
  <2>1. excuse' = excuse
    BY <1>5 DEF Stores
  <2>2. OthersStay(t) /\ (verdict' # "doubtful" \/ task'[t].pc = "opening")
    BY <1>5, StoresMoves DEF Moves, HasStored
  <2> QED
    BY <2>1, <2>2, DoubtStep
<1>6. ASSUME NEW t \in Tasks, Opens(t) PROVE DoubtInv'
  <2>1. excuse' = excuse /\ link' = link
    BY <1>6 DEF Opens
  <2>2. OthersStay(t) /\ (link # "none" \/ task'[t].pc = "linking")
    BY <1>6, StoresMoves DEF Moves, HasStored, Unlinked
  <2> QED
    BY <2>1, <2>2, DoubtStep
<1>7. ASSUME NEW t \in Tasks, ReEnriches(t) \/ Reruns(t) PROVE DoubtInv'
  <2>1. /\ UNCHANGED <<verdict, link>> /\ task[t].pc \notin {"opening", "linking"}
        /\ excuse \subseteq excuse'
    BY <1>7 DEF ReEnriches, Reruns, Begins, At
  <2>2. OthersStay(t)
    BY <1>7, BeginsMoves DEF ReEnriches, Reruns, Points, Ways, Jobs
  <2> QED
    BY <2>1, <2>2, DoubtStep
<1>8. ASSUME NEW t \in Tasks, Fails(t) PROVE DoubtInv'
  BY <1>8, FailsMoves DEF DoubtInv
<1>9. CASE UNCHANGED vars
  BY <1>9 DEF vars, DoubtInv
<1> QED
  BY <1>1, <1>2, <1>3, <1>4, <1>5, <1>6, <1>7, <1>8, <1>9 DEF Next, Step

\* Unless a step fails, a doubtful verdict has its investigation when all is at
\* rest, however many triages and correlations crossed.
THEOREM DoubtGetsInvestigation == Spec => []DoubtIsInvestigated
<1>1. DoubtInv => DoubtIsInvestigated
  BY DEF DoubtInv, DoubtIsInvestigated, Active, At
<1> QED
  BY <1>1, InitTypeOK, NextTypeOK, InitDoubtInv, NextDoubtInv, PTL DEF Spec

-----------------------------------------------------------------------------
(* One task at a time, until two overlap *)

Alone == "overlap" \notin excuse => \A s, t \in Tasks : At(s, "idle") \/ At(t, "idle") \/ s = t

LEMMA InitAlone == Init => Alone
  BY InitTasked DEF Alone

\* What the runs asked for from outside begin with.
LEMMA BeginsAlone ==
  ASSUME Tasked, NEW t \in Tasks, ReEnriches(t) \/ Reruns(t)
  PROVE  /\ OthersStay(t) /\ At(t, "idle") /\ excuse \subseteq excuse'
         /\ task'[t].pc \in {"enriching", "judging"} /\ task'[t].snapshot = NoHash
         /\ "overlap" \notin excuse' => \A s \in Tasks : At(s, "idle")
<1>1. /\ Begins(t, "enrich", "enriching") \/ Begins(t, "rerun", "judging")
      /\ excuse' = excuse \cup (IF Active # {} THEN {"overlap"} ELSE {})
  BY DEF ReEnriches, Reruns
<1>2. OthersStay(t) /\ task'[t].pc \in {"enriching", "judging"} /\ task'[t].snapshot = NoHash
  BY <1>1, BeginsMoves DEF Points, Ways, Jobs
<1> QED
  BY <1>1, <1>2 DEF Begins, Active

\* A step of the pipeline is that of a task at work, and excuses nothing.
LEMMA StepWorks ==
  ASSUME Tasked, NEW t \in Tasks, Step(t)
  PROVE  OthersStay(t) /\ ~At(t, "idle") /\ excuse' = excuse
<1> USE DEF At, row, history
<1>1. CASE Correlates(t) \/ CorrelatesLate(t)
  BY <1>1, CorrelatesMoves, CorrelatesLateMoves DEF Correlates, CorrelatesLate, Moves
<1>2. CASE FindsNoMatch(t) \/ AutoCreates(t) \/ AutoLinks(t) \/ AutoMarks(t)
  BY <1>2, AutoMoves DEF FindsNoMatch, AutoCreates, AutoLinks, AutoMarks, Moves
<1>3. CASE Preflight(t) \/ Enriches(t)
  <2>1. OthersStay(t)
    BY <1>3, PreflightMoves, EnrichesMoves DEF Moves
  <2> QED
    BY <1>3, <2>1 DEF Preflight, Enriches
<1>4. CASE Refuses(t) \/ Accepts(t) \/ Judges(t) \/ Hashes(t)
  <2>1. OthersStay(t)
    BY <1>4, RefusesMoves, AcceptsMoves, JudgesMoves DEF Moves
  <2> QED
    BY <1>4, <2>1 DEF Refuses, Accepts, Judges, Hashes
<1>5. CASE Stores(t) \/ Opens(t) \/ Links(t)
  BY <1>5, StoresMoves DEF Stores, Opens, Links, HasStored, Moves
<1> QED
  BY <1>1, <1>2, <1>3, <1>4, <1>5 DEF Step

LEMMA NextAlone == TypeOK /\ Alone /\ [Next]_vars => Alone'
<1> SUFFICES ASSUME TypeOK, Alone, [Next]_vars PROVE Alone'
  OBVIOUS
<1>0. Tasked
  BY TypeParts DEF Typed
<1> USE <1>0 DEF Alone, At, OthersStay
<1>1. ASSUME NEW t \in Tasks, Step(t) PROVE Alone'
  BY <1>1, StepWorks
<1>2. ASSUME NEW t \in Tasks, ReEnriches(t) \/ Reruns(t) PROVE Alone'
  BY <1>2, BeginsAlone
<1>3. ASSUME NEW t \in Tasks, Fails(t) PROVE Alone'
  BY <1>3, FailsMoves DEF Moves
<1>4. CASE UNCHANGED vars
  BY <1>4 DEF vars, history
<1> QED
  BY <1>1, <1>2, <1>3, <1>4 DEF Next

-----------------------------------------------------------------------------
(* Orphans *)

\* Before anything overlaps or fails, a task about to link an investigation still
\* finds the alert as it was read, and only a correlation has taken one away.
OrphanInv ==
    excuse = {} =>
        /\ orphans > 0 => related
        /\ \A t \in Tasks : task[t].pc \in {"autolinking", "linking"} => link = "none"

LEMMA InitOrphanInv == Init => OrphanInv
<1> SUFFICES ASSUME Init PROVE OrphanInv
  OBVIOUS
<1>1. \A t \in Tasks : task[t].pc \notin {"autolinking", "linking"}
  BY InitTasked DEF At
<1> QED
  BY <1>1 DEF Init, OrphanInv

\* A step of a task at work, the only one.
LEMMA OrphanStep ==
  ASSUME OrphanInv, Alone, NEW t \in Tasks, ~At(t, "idle"), OthersStay(t), excuse' = excuse,
         excuse = {} => related' \/ (orphans' = orphans /\ (related => related')),
         excuse = {} /\ task'[t].pc \in {"autolinking", "linking"} => link' = "none"
  PROVE  OrphanInv'
<1> SUFFICES ASSUME excuse = {} PROVE OrphanInv'
  BY DEF OrphanInv
<1>1. \A s \in Tasks \ {t} : task'[s].pc = "idle"
  BY DEF Alone, At, OthersStay
<1> QED
  BY <1>1 DEF OrphanInv

LEMMA NextOrphanInv == TypeOK /\ Alone /\ OrphanInv /\ [Next]_vars => OrphanInv'
<1> SUFFICES ASSUME TypeOK, Alone, OrphanInv, [Next]_vars PROVE OrphanInv'
  OBVIOUS
<1>0. Tasked /\ orphans \in Nat
  BY TypeParts DEF Typed
<1> USE <1>0 DEF row, history
<1>1. ASSUME NEW t \in Tasks, Correlates(t) PROVE OrphanInv'
  BY <1>1, CorrelatesMoves, StepWorks, OrphanStep DEF Step, Correlates, Correlated, Moves
<1>2. ASSUME NEW t \in Tasks, CorrelatesLate(t) PROVE OrphanInv'
  <2>1. related' \/ (orphans' = orphans /\ related' = related)
    BY <1>2 DEF CorrelatesLate, Correlated
  <2> QED
    BY <1>2, <2>1, CorrelatesLateMoves, StepWorks, OrphanStep DEF Step, Moves
<1>3. ASSUME NEW t \in Tasks, AutoLinks(t) \/ Links(t) PROVE OrphanInv'
  <2>1. excuse = {} => link = "none"
    BY <1>3 DEF AutoLinks, Links, At, OrphanInv
  <2>2. related' = related /\ (excuse = {} => orphans' = orphans)
    BY <1>3, <2>1 DEF AutoLinks, Links, Names
  <2>3. task'[t].pc \notin {"autolinking", "linking"}
    BY <1>3, AutoMoves, StoresMoves DEF Moves, HasStored
  <2> QED
    BY <1>3, <2>2, <2>3, StepWorks, OrphanStep DEF Step
<1>4. ASSUME NEW t \in Tasks, AutoCreates(t) \/ Opens(t) PROVE OrphanInv'
  <2>1. UNCHANGED <<link, orphans, related>>
    BY <1>4 DEF AutoCreates, Opens
  <2>2. task'[t].pc \in {"autolinking", "linking"} => link = "none"
    BY <1>4, AutoMoves, StoresMoves DEF Moves, HasStored, Unlinked
  <2> QED
    BY <1>4, <2>1, <2>2, StepWorks, OrphanStep DEF Step
<1>5. ASSUME NEW t \in Tasks,
             \/ FindsNoMatch(t) \/ Preflight(t) \/ Enriches(t) \/ AutoMarks(t)
             \/ Refuses(t) \/ Accepts(t) \/ Judges(t) \/ Stores(t) \/ Hashes(t)
      PROVE  OrphanInv'
  <2>1. UNCHANGED <<orphans, related>>
    BY <1>5 DEF FindsNoMatch, Preflight, Enriches, AutoMarks, Refuses, Accepts, Judges, Stores, Hashes
  <2>2. task'[t].pc \notin {"autolinking", "linking"}
    BY <1>5, AutoMoves, PreflightMoves, EnrichesMoves, RefusesMoves, AcceptsMoves, JudgesMoves, StoresMoves
       DEF Moves, HasStored
  <2> QED
    BY <1>5, <2>1, <2>2, StepWorks, OrphanStep DEF Step
<1>6. ASSUME NEW t \in Tasks, ReEnriches(t) \/ Reruns(t) PROVE OrphanInv'
  <2>1. UNCHANGED <<link, orphans, related>>
    BY <1>6 DEF ReEnriches, Reruns
  <2> QED
    BY <1>6, <2>1, BeginsAlone DEF OrphanInv, OthersStay
<1>7. ASSUME NEW t \in Tasks, Fails(t) PROVE OrphanInv'
  BY <1>7, FailsMoves DEF OrphanInv
<1>8. CASE UNCHANGED vars
  BY <1>8 DEF vars, OrphanInv
<1> QED
  BY <1>1, <1>2, <1>3, <1>4, <1>5, <1>6, <1>7, <1>8 DEF Next, Step

\* An investigation opened for the alert is left behind only if two tasks
\* overlapped, the alert was correlated with another, or a step failed.
THEOREM OrphansHaveReasons == Spec => []OrphanNeedsReason
<1>1. TypeOK /\ OrphanInv => OrphanNeedsReason
  BY TypeParts DEF Typed, OrphanInv, OrphanNeedsReason
<1> QED
  BY <1>1, InitTypeOK, NextTypeOK, InitAlone, NextAlone, InitOrphanInv, NextOrphanInv, PTL DEF Spec

-----------------------------------------------------------------------------
(* One triage per snapshot *)

Following == {"storing", "opening", "linking", "hashing"}
Follows(t) == task[t].pc \in Following /\ task[t].snapshot # NoHash

\* The hash in the row is that of the last snapshot judged, or the task that
\* judged it is still at work and will write it.
HashFollows ==
    \/ \A s \in Snapshots : judged[s] = 0
    \/ hash \in Snapshots /\ judged[hash] > 0
    \/ \E t \in Tasks : Follows(t)

\* A task keeps a snapshot that is not the one in the row, up to the judgement,
\* and one that has been judged after it.
SnapshotOf(t) ==
    /\ At(t, "judging") => hash # task[t].snapshot \/ task[t].snapshot = NoHash
    /\ Follows(t) => judged[task[t].snapshot] > 0
    /\ At(t, "hashing") => task[t].snapshot # NoHash

JudgedInv ==
    /\ \A t \in Tasks : task[t].pc \in {"correlating", "preflight"} => task[t].snapshot = NoHash
    /\ excuse = {} => HashFollows /\ \A t \in Tasks : SnapshotOf(t)
    /\ JudgedOncePerSnapshot

LEMMA InitJudgedInv == Init => JudgedInv
<1> SUFFICES ASSUME Init PROVE JudgedInv
  OBVIOUS
<1>1. \A t \in Tasks : task[t].pc \in {"correlating", "preflight"} => task[t].snapshot = NoHash
  BY InitTasked DEF At, Idle
<1>2. \A t \in Tasks : task[t].pc \in {"correlating", "idle"}
  BY InitTasked DEF At
<1>3. \A s \in Snapshots : judged[s] = 0
  BY DEF Init
<1> QED
  BY <1>1, <1>2, <1>3 DEF JudgedInv, HashFollows, SnapshotOf, Follows, Following, JudgedOncePerSnapshot, At

\* A step of a task at work, the only one.
LEMMA WorkedStep ==
  ASSUME JudgedInv, Alone, NEW t \in Tasks, ~At(t, "idle"), OthersStay(t), excuse' = excuse,
         task'[t].pc \in {"correlating", "preflight"} => task'[t].snapshot = NoHash,
         excuse = {} => HashFollows' /\ SnapshotOf(t)',
         JudgedOncePerSnapshot'
  PROVE  JudgedInv'
<1>1. ASSUME excuse = {}, NEW s \in Tasks \ {t} PROVE SnapshotOf(s)'
  <2>1. task'[s].pc = "idle"
    BY <1>1 DEF Alone, At, OthersStay
  <2> QED
    BY <2>1 DEF SnapshotOf, At, Follows, Following
<1> QED
  BY <1>1 DEF JudgedInv, OthersStay

\* One that neither judges nor writes the hash.
LEMMA QuietStep ==
  ASSUME JudgedInv, Alone, Tasked, NEW t \in Tasks, ~At(t, "idle"), OthersStay(t), excuse' = excuse,
         judged' = judged, hash' = hash, Follows(t) => Follows(t)',
         task'[t].pc \in {"correlating", "preflight"} => task'[t].snapshot = NoHash,
         excuse = {} => SnapshotOf(t)'
  PROVE  JudgedInv'
<1>1. HashFollows => HashFollows'
  BY DEF HashFollows, Follows, OthersStay
<1>2. JudgedOncePerSnapshot'
  BY DEF JudgedInv, JudgedOncePerSnapshot
<1> QED
  BY <1>1, <1>2, WorkedStep DEF JudgedInv

\* A verdict is followed by the hash of what it was about, or by nothing.
LEMMA FollowedStep ==
  ASSUME JudgedInv, Alone, Tasked, NEW t \in Tasks, task[t].pc \in {"storing", "opening", "linking"},
         excuse' = excuse, judged' = judged, hash' = hash,
         Moves(t, {"opening", "linking"}) \/ HasStored(t)
  PROVE  JudgedInv'
<1>1. /\ OthersStay(t) /\ ~At(t, "idle") /\ task'[t].pc \notin {"correlating", "preflight", "judging"}
      /\ task'[t].pc = "hashing" => task'[t].snapshot # NoHash
      /\ Follows(t) => Follows(t)'
      /\ Follows(t)' => Follows(t) /\ task'[t].snapshot = task[t].snapshot
  BY DEF Moves, HasStored, Follows, Following, Keeping, At
<1>2. excuse = {} => SnapshotOf(t)'
  BY <1>1 DEF JudgedInv, SnapshotOf, At
<1> QED
  BY <1>1, <1>2, QuietStep

LEMMA JudgesStep ==
  ASSUME TypeOK, JudgedInv, Alone, Tasked, NEW t \in Tasks, Judges(t)
  PROVE  JudgedInv'
<1> DEFINE s0 == task[t].snapshot
<1>1. /\ At(t, "judging") /\ excuse' = excuse /\ hash' = hash
      /\ judged' = [s \in Snapshots |-> IF s = s0 /\ judged[s] < 2 THEN judged[s] + 1 ELSE judged[s]]
  BY DEF Judges, row
<1>2. /\ OthersStay(t) /\ task'[t].pc = "storing" /\ task'[t].snapshot = s0
  BY JudgesMoves DEF Moves, Keeping
<1>3. judged \in [Snapshots -> 0..2] /\ s0 \in Snapshots \cup {NoHash} /\ NoHash \notin Snapshots
  BY TypeParts, IntakeAssumption DEF Typed, Tasked, Task, Snapshot
<1>4. /\ \A s \in Snapshots : judged[s] > 0 => judged'[s] > 0
      /\ \A s \in Snapshots \ {s0} : judged'[s] = judged[s]
      /\ s0 \in Snapshots => judged'[s0] > 0 /\ (judged'[s0] > 1 => judged[s0] > 0)
  <2> HIDE DEF s0
  <2>1. \A s \in Snapshots : judged[s] \in 0..2
    BY <1>3
  <2> QED
    BY <1>1, <2>1
<1>5. excuse = {} => SnapshotOf(t)'
  BY <1>2, <1>3, <1>4 DEF SnapshotOf, Follows, Following, At
<1>6. excuse = {} => HashFollows'
  <2>1. CASE s0 \in Snapshots
    BY <1>2, <1>3, <2>1 DEF HashFollows, Follows, Following
  <2>2. CASE s0 = NoHash
    <3>1. ~Follows(t)
      BY <1>1 DEF Follows, Following, At
    <3>2. \A s \in Snapshots : judged'[s] = judged[s]
      BY <1>3, <1>4, <2>2
    <3> QED
      BY <1>1, <1>2, <3>1, <3>2 DEF JudgedInv, HashFollows, Follows, OthersStay
  <2> QED
    BY <1>3, <2>1, <2>2
<1>7. JudgedOncePerSnapshot'
  <2> SUFFICES ASSUME NEW s \in Snapshots, judged'[s] > 1, excuse \cap {"overlap", "fault"} = {}
               PROVE  \E r \in Snapshots \ {s} : judged'[r] > 0
    BY <1>1 DEF JudgedOncePerSnapshot
  <2>1. CASE s # s0
    BY <1>4, <2>1 DEF JudgedInv, JudgedOncePerSnapshot
  <2>2. CASE s = s0
    <3>1. excuse = {}
      BY TypeParts DEF Typed
    <3>2. \A u \in Tasks : ~Follows(u)
      BY <1>1, <3>1 DEF Alone, At, Follows, Following
    <3>3. judged[s] > 0
      BY <1>4, <2>2
    <3>4. hash \in Snapshots /\ judged[hash] > 0
      BY <3>1, <3>2, <3>3 DEF JudgedInv, HashFollows
    <3>5. hash # s
      BY <1>1, <1>3, <2>2, <3>1 DEF JudgedInv, SnapshotOf
    <3> QED
      BY <1>4, <3>4, <3>5
  <2> QED
    BY <2>1, <2>2
<1>8. ~At(t, "idle")
  BY <1>1 DEF At
<1> QED
  BY <1>1, <1>2, <1>5, <1>6, <1>7, <1>8, WorkedStep

LEMMA NextJudgedInv == TypeOK /\ Alone /\ JudgedInv /\ [Next]_vars => JudgedInv'
<1> SUFFICES ASSUME TypeOK, Alone, JudgedInv, [Next]_vars PROVE JudgedInv'
  OBVIOUS
<1>0. Tasked
  BY TypeParts DEF Typed
<1> USE <1>0 DEF row, history
<1>1. ASSUME NEW t \in Tasks,
             \/ Correlates(t) \/ CorrelatesLate(t) \/ FindsNoMatch(t) \/ Enriches(t)
             \/ AutoCreates(t) \/ AutoLinks(t) \/ AutoMarks(t) \/ Refuses(t)
      PROVE  JudgedInv'
  <2>1. UNCHANGED <<judged, hash>> /\ task[t].pc \notin Following
    BY <1>1 DEF Correlates, CorrelatesLate, FindsNoMatch, Enriches, AutoCreates, AutoLinks, AutoMarks,
                Refuses, At, Following
  <2>2. /\ task'[t].pc \notin Following \cup {"correlating", "judging"}
        /\ task'[t].pc = "preflight" => task[t].pc = "correlating" /\ task'[t].snapshot = task[t].snapshot
    BY <1>1, CorrelatesMoves, CorrelatesLateMoves, AutoMoves, EnrichesMoves, RefusesMoves
       DEF Moves, Following, Keeping, FindsNoMatch, At
  <2> QED
    BY <1>1, <2>1, <2>2, StepWorks, QuietStep DEF Step, SnapshotOf, Follows, At, JudgedInv, Following
<1>2. ASSUME NEW t \in Tasks, Preflight(t) PROVE JudgedInv'
  <2>1. UNCHANGED <<judged, hash>> /\ task[t].pc = "preflight" /\ task[t].snapshot = NoHash
    BY <1>2 DEF Preflight, At, JudgedInv
  <2>2. task'[t].pc = "enriching" \/ (task'[t].pc = "storing" /\ task'[t].snapshot = task[t].snapshot)
    BY <1>2, PreflightMoves DEF Moves, Keeping
  <2> QED
    BY <1>2, <2>1, <2>2, StepWorks, QuietStep DEF Step, SnapshotOf, Follows, Following, At
<1>3. ASSUME NEW t \in Tasks, Accepts(t) PROVE JudgedInv'
  <2>1. UNCHANGED <<judged, hash>> /\ task[t].pc = "sealing"
    BY <1>3 DEF Accepts, At
  <2>2. \/ task'[t].pc \in {"idle", "late"}
        \/ task'[t].pc = "judging" /\ task'[t].snapshot = task[t].snapshot /\ hash # task[t].snapshot
    BY <1>3, AcceptsMoves DEF Moves, Keeping
  <2> QED
    BY <1>3, <2>1, <2>2, StepWorks, QuietStep DEF Step, SnapshotOf, Follows, Following, At
<1>4. ASSUME NEW t \in Tasks, Judges(t) PROVE JudgedInv'
  BY <1>4, JudgesStep
<1>5. ASSUME NEW t \in Tasks, Stores(t) \/ Opens(t) \/ Links(t) PROVE JudgedInv'
  <2>1. UNCHANGED <<judged, hash, excuse>> /\ task[t].pc \in {"storing", "opening", "linking"}
    BY <1>5 DEF Stores, Opens, Links, At
  <2>2. Moves(t, {"opening", "linking"}) \/ HasStored(t)
    BY <1>5, StoresMoves DEF Moves
  <2> QED
    BY <2>1, <2>2, FollowedStep
<1>6. ASSUME NEW t \in Tasks, Hashes(t) PROVE JudgedInv'
  <2>1. judged' = judged /\ hash' = task[t].snapshot /\ At(t, "hashing")
    BY <1>6 DEF Hashes
  <2>2. task'[t].pc \notin Following \cup {"correlating", "preflight", "judging"}
    BY <1>6, RefusesMoves DEF Moves, Following
  <2>3. task[t].snapshot \in Snapshots \cup {NoHash}
    BY DEF Tasked, Task, Snapshot
  <2>4. excuse = {} => HashFollows'
    BY <2>1, <2>3 DEF JudgedInv, SnapshotOf, Follows, Following, HashFollows, At
  <2>5. JudgedOncePerSnapshot'
    BY <1>6, <2>1, StepWorks DEF Step, JudgedInv, JudgedOncePerSnapshot
  <2> QED
    BY <1>6, <2>1, <2>2, <2>4, <2>5, StepWorks, WorkedStep DEF Step, SnapshotOf, Follows, At, Following
<1>7. ASSUME NEW t \in Tasks, ReEnriches(t) \/ Reruns(t) PROVE JudgedInv'
  <2>1. UNCHANGED <<judged, hash>>
    BY <1>7 DEF ReEnriches, Reruns
  <2>2. /\ OthersStay(t) /\ At(t, "idle") /\ excuse \subseteq excuse'
        /\ task'[t].pc \in {"enriching", "judging"} /\ task'[t].snapshot = NoHash
    BY <1>7, BeginsAlone
  <2>3. JudgedOncePerSnapshot'
    BY <2>1, <2>2 DEF JudgedInv, JudgedOncePerSnapshot
  <2>4. HashFollows => HashFollows'
    BY <2>1, <2>2 DEF HashFollows, Follows, Following, OthersStay, At
  <2> QED
    BY <2>1, <2>2, <2>3, <2>4 DEF JudgedInv, SnapshotOf, Follows, Following, OthersStay, At
<1>8. ASSUME NEW t \in Tasks, Fails(t) PROVE JudgedInv'
  <2>1. judged' = judged
    BY <1>8 DEF Fails, PreflightRaises, EnrichRaises, TriageRaises, LinkRaises, Crashes
  <2> QED
    BY <1>8, <2>1, FailsMoves DEF Moves, JudgedInv, JudgedOncePerSnapshot, OthersStay
<1>9. CASE UNCHANGED vars
  BY <1>9 DEF vars, JudgedInv, HashFollows, SnapshotOf, Follows, At, JudgedOncePerSnapshot
<1> QED
  BY <1>1, <1>2, <1>3, <1>4, <1>5, <1>6, <1>7, <1>8, <1>9 DEF Next, Step

\* T1 sees one snapshot twice only if tasks overlapped, a step failed, or another
\* snapshot came in between: the hash in the row, compared before a triage and
\* written after it, keeps the inner and the outer triage apart.
THEOREM SnapshotsJudgedOnce == Spec => []JudgedOncePerSnapshot
<1>1. JudgedInv => JudgedOncePerSnapshot
  BY DEF JudgedInv
<1> QED
  BY <1>1, InitTypeOK, NextTypeOK, InitAlone, NextAlone, InitJudgedInv, NextJudgedInv, PTL DEF Spec

=============================================================================
