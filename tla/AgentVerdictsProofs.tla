------------------------- MODULE AgentVerdictsProofs -------------------------
(***************************************************************************)
(* What the agents' guards around an alert's verdict keep, for any number  *)
(* of tasks, runs, triages, reviews and failures.                          *)
(***************************************************************************)
EXTENDS AgentVerdicts, TLAPS

-----------------------------------------------------------------------------
(* What the operators on tasks do *)

Task == [pc : Points, verdict : Verdicts \cup {"none"}, triage : BOOLEAN]
Tasked == task \in [Tasks -> Task]
OthersStay(t) == \A s \in Tasks \ {t} : task'[s] = task[s]

LEMMA BoundsAreNumbers ==
    MaxManual \in Nat /\ MaxOutside \in Nat /\ MaxFaults \in Nat /\ MaxEvents \in Nat
  BY VerdictsAssumption

LEMMA IdleIsTask == Idle \in Task
  BY DEF Idle, Task, Points

LEMMA GoesChanges ==
  ASSUME Tasked, NEW t \in Tasks, NEW point \in Points, Goes(t, point)
  PROVE  /\ Tasked' /\ OthersStay(t)
         /\ task'[t].pc = point
         /\ task'[t].verdict = task[t].verdict /\ task'[t].triage = task[t].triage
<1>1. task[t] \in Task
  BY DEF Tasked
<1>2. task'[t] = [task[t] EXCEPT !.pc = point]
  BY DEF Goes, Tasked
<1>3. task'[t] \in Task
  BY <1>1, <1>2 DEF Task
<1>4. Tasked' /\ OthersStay(t)
  BY <1>3 DEF Goes, Tasked, OthersStay
<1> QED
  BY <1>1, <1>2, <1>4 DEF Task

LEMMA FindsChanges ==
  ASSUME Tasked, NEW t \in Tasks, NEW point \in Points, NEW v \in Verdicts, Finds(t, point, v)
  PROVE  /\ Tasked' /\ OthersStay(t)
         /\ task'[t].pc = point /\ task'[t].verdict = v /\ task'[t].triage = task[t].triage
<1>1. task[t] \in Task
  BY DEF Tasked
<1>2. task'[t] = [[task[t] EXCEPT !.pc = point] EXCEPT !.verdict = v]
  BY DEF Finds, Tasked
<1>3. task'[t] \in Task
  BY <1>1, <1>2 DEF Task
<1>4. Tasked' /\ OthersStay(t)
  BY <1>3 DEF Finds, Tasked, OthersStay
<1> QED
  BY <1>1, <1>2, <1>4 DEF Task

LEMMA EndsChanges ==
  ASSUME Tasked, NEW t \in Tasks, Ends(t)
  PROVE  Tasked' /\ OthersStay(t) /\ task'[t] = Idle
  BY IdleIsTask DEF Ends, Tasked, OthersStay

\* Whoever begins while another task is at work records the overlap.
LEMMA BeginsChanges ==
  ASSUME Tasked, NEW t \in Tasks, NEW point \in Points, NEW triage \in BOOLEAN,
         Begins(t, point, triage)
  PROVE  /\ Tasked' /\ OthersStay(t)
         /\ task'[t].pc = point /\ task'[t].triage = triage
         /\ excuse' \subseteq excuse \cup {"overlap"} /\ excuse \subseteq excuse'
         /\ "overlap" \notin excuse' => \A s \in Tasks : At(s, "idle")
<1>1. task'[t] = [[Idle EXCEPT !.pc = point] EXCEPT !.triage = triage]
  BY DEF Begins, Tasked
<1>2. task'[t] \in Task /\ task'[t].pc = point /\ task'[t].triage = triage
  BY <1>1, IdleIsTask DEF Task, Idle
<1>3. Tasked' /\ OthersStay(t)
  BY <1>2 DEF Begins, Tasked, OthersStay
<1> QED
  BY <1>2, <1>3 DEF Begins, Active

-----------------------------------------------------------------------------
(* Type correctness *)

Flags == policy \in BOOLEAN /\ queued \in BOOLEAN /\ due \in BOOLEAN

Typed ==
    /\ verdict \in Verdicts \cup {"none"} /\ status \in Statuses
    /\ link \in {"none", "own", "other"} /\ opened \in Nat
    /\ pending \in Nat /\ sweep \in {"idle", "enqueueing", "marking"}
    /\ Tasked
    /\ used \in [manual : 0..MaxManual, outside : 0..MaxOutside, faults : 0..MaxFaults]
    /\ excuse \subseteq {"overlap", "fault"}

LEMMA TypeParts == (TypeOK <=> Flags /\ Typed) /\ (TypeOK' <=> Flags' /\ Typed')
<1>1. TypeOK <=> Flags /\ Typed
  BY DEF TypeOK, Flags, Typed, Tasked, Task
<1>2. TypeOK' <=> Flags' /\ Typed'
  BY DEF TypeOK, Flags, Typed, Tasked, Task
<1> QED
  BY <1>1, <1>2

LEMMA UsesChanges ==
  ASSUME Typed,
         \/ Uses("manual", MaxManual) \/ Uses("outside", MaxOutside) \/ Uses("faults", MaxFaults)
  PROVE  used' \in [manual : 0..MaxManual, outside : 0..MaxOutside, faults : 0..MaxFaults]
  BY BoundsAreNumbers DEF Typed, Uses

LEMMA InitTypeOK == Init => TypeOK
<1> SUFFICES ASSUME Init PROVE TypeOK
  OBVIOUS
<1>1. Tasked
  BY IdleIsTask DEF Init, Tasked
<1>2. Typed
  BY <1>1, BoundsAreNumbers DEF Init, Typed, Verdicts, Statuses
<1>3. Flags
  BY DEF Init, Flags
<1> QED
  BY <1>2, <1>3, TypeParts

LEMMA NextFlags == TypeOK /\ [Next]_vars => Flags'
<1> SUFFICES ASSUME TypeOK, [Next]_vars PROVE Flags'
  OBVIOUS
<1> USE DEF TypeOK, Flags, queue
<1>1. ASSUME \/ Selects \/ Enqueues \/ MarksQueued \/ TimePasses \/ QueuesByHand
             \/ Correlates \/ ReviewCloses \/ SweepFails
      PROVE  Flags'
  BY <1>1 DEF Selects, Enqueues, MarksQueued, TimePasses, QueuesByHand, Correlates, ReviewCloses, SweepFails
<1>2. ASSUME NEW t \in Tasks,
             Takes(t) \/ Skips(t) \/ RunsByHand(t) \/ Triages(t) \/ TaskFails(t)
      PROVE  Flags'
  BY <1>2 DEF Takes, Skips, RunsByHand, Triages, TaskFails
<1>3. ASSUME NEW t \in Tasks, Works(t) PROVE Flags'
  BY <1>3 DEF Works, ClassifiesBenign, ClassifiesMalicious, ClassifiesNothing, Attaches, AutoCloses,
     FindsBenign, Overwrites, FindsThreat, Seeks, Opens, Links, FindsLittle, AdvisesInVain,
     AdvisesMalicious, AdvisesDoubt, Downgrades, StoresClosing, Stores, Attends
<1>4. CASE UNCHANGED vars
  BY <1>4 DEF vars
<1> QED
  BY <1>1, <1>2, <1>3, <1>4 DEF Next, Sweeps

LEMMA NextTyped == TypeOK /\ [Next]_vars => Typed'
<1> SUFFICES ASSUME TypeOK, [Next]_vars PROVE Typed'
  OBVIOUS
<1>0. Typed
  BY TypeParts
<1> USE <1>0 DEF row
<1>1. ASSUME Selects \/ Enqueues \/ MarksQueued \/ TimePasses PROVE Typed'
  <2>1. UNCHANGED <<verdict, status, link, opened, task, used, excuse>>
    BY <1>1 DEF Selects, Enqueues, MarksQueued, TimePasses
  <2>2. pending' \in {pending, pending + 1} /\ sweep' \in {sweep, "idle", "enqueueing", "marking"}
    BY <1>1 DEF Selects, Enqueues, MarksQueued, TimePasses
  <2> QED
    BY <2>1, <2>2 DEF Tasked, Typed
<1>2. ASSUME QueuesByHand \/ Correlates \/ ReviewCloses PROVE Typed'
  <2>1. CASE QueuesByHand
    BY <2>1, UsesChanges DEF QueuesByHand, Tasked, Typed
  <2>2. CASE Correlates
    BY <2>2, UsesChanges DEF Correlates, Tasked, Typed, queue, Statuses
  <2>3. CASE ReviewCloses
    BY <2>3, UsesChanges DEF ReviewCloses, Tasked, Typed, queue, Statuses, Closed, Verdicts
  <2> QED
    BY <1>2, <2>1, <2>2, <2>3
<1>3. ASSUME SweepFails PROVE Typed'
  BY <1>3, UsesChanges DEF SweepFails, Faulted, Tasked, Typed
<1>4. ASSUME NEW t \in Tasks, Takes(t) PROVE Typed'
  <2>1. Tasked' /\ excuse' \subseteq excuse \cup {"overlap"}
    <3>1. Begins(t, "classifying", FALSE) /\ "classifying" \in Points
      BY <1>4 DEF Takes, Points
    <3> QED
      BY <3>1, BeginsChanges, Zenon DEF Typed
  <2> QED
    BY <1>4, <2>1 DEF Takes, Typed
<1>5. ASSUME NEW t \in Tasks, Skips(t) PROVE Typed'
  BY <1>5 DEF Skips, Typed, Tasked
<1>6. ASSUME NEW t \in Tasks, RunsByHand(t) PROVE Typed'
  BY <1>6, BeginsChanges, UsesChanges DEF RunsByHand, Typed, Points, queue
<1>7. ASSUME NEW t \in Tasks, Triages(t) PROVE Typed'
  BY <1>7, BeginsChanges, UsesChanges DEF Triages, Typed, Points, queue
<1>8. ASSUME NEW t \in Tasks, TaskFails(t) PROVE Typed'
  BY <1>8, EndsChanges, UsesChanges DEF TaskFails, Faulted, Typed
<1>9. ASSUME NEW t \in Tasks, ClassifiesBenign(t) \/ AutoCloses(t) \/ Overwrites(t) PROVE Typed'
  BY <1>9, EndsChanges DEF ClassifiesBenign, AutoCloses, Overwrites, Typed, queue, Verdicts, Statuses, Closed
<1>10. ASSUME NEW t \in Tasks,
              ClassifiesMalicious(t) \/ ClassifiesNothing(t) \/ Attaches(t) \/ FindsBenign(t)
       PROVE  Typed'
  BY <1>10, EndsChanges, GoesChanges
     DEF ClassifiesMalicious, ClassifiesNothing, Attaches, FindsBenign, Typed, queue, Verdicts, Findings, Points
<1>11. ASSUME NEW t \in Tasks, FindsThreat(t) PROVE Typed'
  BY <1>11, EndsChanges, FindsChanges DEF FindsThreat, Typed, queue, Verdicts, Points
<1>12. ASSUME NEW t \in Tasks, Seeks(t) \/ Opens(t) PROVE Typed'
  <2>1. CASE Seeks(t)
    <3>1. Goes(t, "linking") \/ Goes(t, "opening")
      BY <2>1 DEF Seeks
    <3> QED
      BY <2>1, <3>1, GoesChanges DEF Seeks, Typed, queue, Points
  <2>2. CASE Opens(t)
    BY <2>2, GoesChanges DEF Opens, Typed, queue, Points
  <2> QED
    BY <1>12, <2>1, <2>2
<1>13. ASSUME NEW t \in Tasks, Links(t) PROVE Typed'
  <2>1. task[t].verdict \in Verdicts \cup {"none"}
    BY DEF Typed, Tasked, Task
  <2> QED
    BY <1>13, <2>1, EndsChanges DEF Links, Typed, queue, Statuses
<1>14. ASSUME NEW t \in Tasks, FindsLittle(t) \/ Downgrades(t) \/ AdvisesInVain(t) PROVE Typed'
  BY <1>14, EndsChanges
     DEF FindsLittle, Downgrades, AdvisesInVain, TriagedUnlessClosed, Typed, queue, Verdicts, Findings, Statuses
<1>15. ASSUME NEW t \in Tasks, AdvisesMalicious(t) \/ AdvisesDoubt(t) PROVE Typed'
  BY <1>15, EndsChanges, GoesChanges DEF AdvisesMalicious, AdvisesDoubt, Typed, queue, Verdicts, Findings, Points
<1>16. ASSUME NEW t \in Tasks, StoresClosing(t) \/ Attends(t) PROVE Typed'
  BY <1>16, EndsChanges, GoesChanges DEF StoresClosing, Attends, Typed, queue, Verdicts, Statuses, Closed, Points
<1>17. ASSUME NEW t \in Tasks, Stores(t) PROVE Typed'
  BY <1>17, EndsChanges, FindsChanges DEF Stores, Typed, queue, Statuses, Points
<1>18. CASE UNCHANGED vars
  BY <1>18 DEF vars, Typed, Tasked, queue
<1> QED
  BY <1>1, <1>2, <1>3, <1>4, <1>5, <1>6, <1>7, <1>8, <1>9, <1>10, <1>11, <1>12, <1>13, <1>14, <1>15,
     <1>16, <1>17, <1>18 DEF Next, Sweeps, Works

LEMMA NextTypeOK == TypeOK /\ [Next]_vars => TypeOK'
  BY NextFlags, NextTyped, TypeParts

\* The alert's row, its queue and the tasks stay in their types.
THEOREM TypeCorrect == Spec => []TypeOK
  BY InitTypeOK, NextTypeOK, PTL DEF Spec

-----------------------------------------------------------------------------
(* The invariant *)

\* One task at a time, until two overlap.
Alone == "overlap" \notin excuse => \A s, t \in Tasks : At(s, "idle") \/ At(t, "idle") \/ s = t

\* Where a task is about to overwrite the verdict, what its guard read still holds.
Unsure == "overlap" \notin excuse =>
              \A t \in Tasks : task[t].pc \in {"classifying", "overwriting"} => ~Kept

\* A task that leads to an investigation carries a finding, or is a triage.
Carried ==
    \A t \in Tasks :
        /\ task[t].pc \in {"storing", "attending"} => task[t].triage
        /\ task[t].pc \in {"seeking", "opening", "linking"}
              => task[t].triage \/ task[t].verdict \in Findings

\* Before anything overlaps or fails, what is open is linked or about to be, and
\* a task that goes on to open an investigation is the first.
FirstOne ==
    excuse = {} =>
        /\ opened <= 1
        /\ \A t \in Tasks : At(t, "opening") => opened = 0
        /\ opened > 0 => Linked \/ \E t \in Tasks : At(t, "linking")

IInv == Alone /\ Unsure /\ Carried /\ FirstOne

LEMMA InitIInv == Init => IInv
  BY DEF Init, IInv, Alone, Unsure, Carried, FirstOne, Idle, At

\* A step that leaves the tasks alone.
LEMMA TasksStay ==
  ASSUME IInv, task' = task, opened' = opened, excuse \subseteq excuse',
         verdict' = verdict \/ verdict' = "benign", link' = link \/ link' # "none"
  PROVE  IInv'
<1> USE DEF IInv, Kept, At, Linked
<1>1. Alone'
  BY DEF Alone
<1>2. Unsure'
  BY DEF Unsure
<1>3. Carried'
  BY DEF Carried
<1>4. FirstOne'
  BY DEF FirstOne
<1> QED
  BY <1>1, <1>2, <1>3, <1>4

\* A step of a task already at work: before any overlap the others are idle.
LEMMA OwnStep ==
  ASSUME IInv, Tasked, NEW t \in Tasks, ~At(t, "idle"), OthersStay(t), excuse' = excuse,
         task'[t].pc \in {"classifying", "overwriting"} => verdict' # "sure",
         task'[t].pc \in {"storing", "attending"} => task'[t].triage,
         task'[t].pc \in {"seeking", "opening", "linking"}
             => task'[t].triage \/ task'[t].verdict \in Findings,
         excuse = {} => /\ opened' <= 1
                        /\ At(t, "opening")' => opened' = 0
                        /\ opened' > 0 => link' # "none" \/ At(t, "linking")'
  PROVE  IInv'
<1> USE DEF IInv, At, OthersStay
<1>1. Alone'
  BY DEF Alone
<1>2. Unsure'
  BY DEF Unsure, Alone, Kept
<1>3. Carried'
  BY DEF Carried
<1>4. FirstOne'
  <2> SUFFICES ASSUME excuse = {} PROVE FirstOne'
    BY DEF FirstOne
  <2>1. \A s \in Tasks \ {t} : task'[s].pc = "idle"
    BY DEF Alone
  <2> QED
    BY <2>1 DEF FirstOne, Linked
<1> QED
  BY <1>1, <1>2, <1>3, <1>4

\* A task begins.
LEMMA FirstStep ==
  ASSUME IInv, TypeOK, NEW t \in Tasks, NEW point \in Points, NEW triage \in BOOLEAN,
         Begins(t, point, triage), point \notin {"attending", "seeking", "opening", "linking", "overwriting"},
         point = "storing" => triage, point = "classifying" => ~Kept, UNCHANGED row
  PROVE  IInv'
<1>1. Tasked
  BY TypeParts DEF Typed
<1>2. /\ OthersStay(t) /\ task'[t].pc = point
      /\ excuse \subseteq excuse'
      /\ "overlap" \notin excuse' => \A s \in Tasks : At(s, "idle")
  BY <1>1, BeginsChanges
<1>3. UNCHANGED <<verdict, link, opened>>
  BY DEF row
<1> USE <1>2, <1>3 DEF IInv, At, OthersStay
<1>4. Alone'
  BY DEF Alone
<1>5. Unsure'
  BY DEF Unsure, Kept
<1>6. Carried'
  <2>1. point = "storing" => task'[t].triage
    BY <1>1, BeginsChanges, Zenon
  <2> QED
    BY <2>1 DEF Carried
<1>7. FirstOne'
  BY DEF FirstOne, Linked
<1> QED
  BY <1>4, <1>5, <1>6, <1>7

LEMMA NextIInv == TypeOK /\ IInv /\ [Next]_vars => IInv'
<1> SUFFICES ASSUME TypeOK, IInv, [Next]_vars PROVE IInv'
  OBVIOUS
<1>0. Tasked
  BY TypeParts DEF Typed
<1> USE <1>0 DEF row
<1>1. ASSUME Selects \/ Enqueues \/ MarksQueued \/ TimePasses \/ QueuesByHand PROVE IInv'
  BY <1>1, TasksStay DEF Selects, Enqueues, MarksQueued, TimePasses, QueuesByHand
<1>2. ASSUME Correlates \/ ReviewCloses \/ SweepFails PROVE IInv'
  BY <1>2, TasksStay DEF Correlates, ReviewCloses, SweepFails, Faulted
<1>3. ASSUME NEW t \in Tasks, Takes(t) PROVE IInv'
  <2>1. Begins(t, "classifying", FALSE) /\ ~Kept /\ UNCHANGED row
    BY <1>3 DEF Takes
  <2> QED
    BY <2>1, FirstStep, "classifying" \in Points, Zenon DEF Points
<1>4. ASSUME NEW t \in Tasks, Skips(t) PROVE IInv'
  BY <1>4, TasksStay DEF Skips
<1>5. ASSUME NEW t \in Tasks, RunsByHand(t) \/ Triages(t) PROVE IInv'
  <2>1. CASE RunsByHand(t)
    <3>1. PICK point \in {"asking", "advising"} : Begins(t, point, FALSE) /\ UNCHANGED row
      BY <2>1 DEF RunsByHand
    <3>2. point \in Points
      BY DEF Points
    <3> QED
      BY <3>1, <3>2, FirstStep, Zenon
  <2>2. CASE Triages(t)
    <3>1. Begins(t, "storing", TRUE) /\ UNCHANGED row /\ "storing" \in Points
      BY <2>2 DEF Triages, Points
    <3> QED
      BY <3>1, FirstStep, Zenon
  <2> QED
    BY <1>5, <2>1, <2>2
<1>6. ASSUME NEW t \in Tasks, TaskFails(t) PROVE IInv'
  <2>1. /\ OthersStay(t) /\ task'[t] = Idle /\ excuse' = excuse \cup {"fault"} 
        /\ verdict' = verdict
    BY <1>6, EndsChanges DEF TaskFails, Faulted
  <2> QED
    BY <2>1 DEF IInv, Alone, Unsure, Carried, FirstOne, Idle, At, OthersStay, Kept
<1>7. ASSUME NEW t \in Tasks, ClassifiesBenign(t) \/ AutoCloses(t) \/ Overwrites(t) PROVE IInv'
  <2>1. OthersStay(t) /\ task'[t] = Idle /\ excuse' = excuse /\ link' = link /\ opened' = opened
    BY <1>7, EndsChanges DEF ClassifiesBenign, AutoCloses, Overwrites, queue
  <2>2. ~At(t, "idle") /\ ~At(t, "opening") /\ ~At(t, "linking")
    BY <1>7 DEF ClassifiesBenign, AutoCloses, Overwrites, At
  <2> QED
    BY <2>1, <2>2, OwnStep DEF Idle, At, IInv, FirstOne, Alone, Linked
<1>8. ASSUME NEW t \in Tasks, ClassifiesMalicious(t) \/ ClassifiesNothing(t) \/ Attaches(t) \/ FindsBenign(t)
      PROVE  IInv'
  <2>1. /\ OthersStay(t) /\ excuse' = excuse /\ link' = link /\ opened' = opened
        /\ task'[t].pc \in {"idle", "attaching", "asking", "overwriting"}
        /\ task'[t].pc = "overwriting" => verdict' # "sure"
    BY <1>8, EndsChanges, GoesChanges
       DEF ClassifiesMalicious, ClassifiesNothing, Attaches, FindsBenign, queue, Idle, Kept, Points
  <2>2. ~At(t, "idle") /\ ~At(t, "opening") /\ ~At(t, "linking")
    BY <1>8 DEF ClassifiesMalicious, ClassifiesNothing, Attaches, FindsBenign, At
  <2> QED
    BY <2>1, <2>2, OwnStep DEF At, IInv, FirstOne, Alone, Linked
<1>9. ASSUME NEW t \in Tasks, FindsThreat(t) PROVE IInv'
  <2>1. /\ OthersStay(t) /\ excuse' = excuse /\ link' = link /\ opened' = opened
        /\ task'[t].pc \in {"idle", "seeking"}
        /\ task'[t].pc = "seeking" => task'[t].verdict \in Findings
    <3>1. excuse' = excuse /\ link' = link /\ opened' = opened
      BY <1>9 DEF FindsThreat
    <3>2. Ends(t) \/ \E v \in Findings : Finds(t, "seeking", v)
      BY <1>9 DEF FindsThreat
    <3>3. Findings \subseteq Verdicts /\ "seeking" \in Points
      BY DEF Verdicts, Points
    <3>4. CASE Ends(t)
      BY <3>1, <3>4, EndsChanges DEF Idle
    <3>5. ASSUME NEW v \in Findings, Finds(t, "seeking", v)
          PROVE  OthersStay(t) /\ task'[t].pc = "seeking" /\ task'[t].verdict \in Findings
      BY <3>3, <3>5, FindsChanges
    <3> QED
      BY <3>1, <3>2, <3>4, <3>5
  <2>2. ~At(t, "idle") /\ ~At(t, "opening") /\ ~At(t, "linking")
    BY <1>9 DEF FindsThreat, At
  <2> QED
    BY <2>1, <2>2, OwnStep DEF At, IInv, FirstOne, Alone, Linked
<1>10. ASSUME NEW t \in Tasks, Seeks(t) PROVE IInv'
  <2>1. At(t, "seeking") /\ excuse' = excuse /\ link' = link /\ opened' = opened
    BY <1>10 DEF Seeks, queue
  <2>2. \/ opened > 0 /\ Goes(t, "linking")
        \/ ~(opened > 0) /\ Goes(t, "opening")
    BY <1>10 DEF Seeks
  <2>3. /\ OthersStay(t)
        /\ task'[t].verdict = task[t].verdict /\ task'[t].triage = task[t].triage
        /\ \/ opened > 0 /\ task'[t].pc = "linking"
           \/ ~(opened > 0) /\ task'[t].pc = "opening"
    BY <2>2, GoesChanges DEF Points
  <2>4. opened \in Nat
    BY DEF TypeOK
  <2> QED
    BY <2>1, <2>3, <2>4, OwnStep DEF At, IInv, FirstOne, Alone, Linked, Carried
<1>11. ASSUME NEW t \in Tasks, Opens(t) PROVE IInv'
  <2>1. /\ At(t, "opening") /\ excuse' = excuse /\ opened' = opened + 1
        /\ OthersStay(t) /\ task'[t].pc = "linking"
        /\ task'[t].verdict = task[t].verdict /\ task'[t].triage = task[t].triage
    BY <1>11, GoesChanges DEF Opens, Points, queue
  <2> QED
    BY <2>1, OwnStep DEF At, IInv, FirstOne, Carried
<1>12. ASSUME NEW t \in Tasks, Links(t) PROVE IInv'
  <2>1. /\ At(t, "linking") /\ excuse' = excuse /\ opened' = opened /\ link' = "own"
        /\ OthersStay(t) /\ task'[t] = Idle
    BY <1>12, EndsChanges DEF Links, queue
  <2> QED
    BY <2>1, OwnStep DEF At, IInv, FirstOne, Idle
<1>13. ASSUME NEW t \in Tasks,
              FindsLittle(t) \/ AdvisesInVain(t) \/ AdvisesMalicious(t) \/ Downgrades(t) \/ StoresClosing(t)
       PROVE  IInv'
  <2>1. OthersStay(t) /\ task'[t] = Idle /\ excuse' = excuse /\ link' = link /\ opened' = opened
    BY <1>13, EndsChanges DEF FindsLittle, AdvisesInVain, AdvisesMalicious, Downgrades, StoresClosing, queue
  <2>2. ~At(t, "idle") /\ ~At(t, "opening") /\ ~At(t, "linking")
    BY <1>13 DEF FindsLittle, AdvisesInVain, AdvisesMalicious, Downgrades, StoresClosing, At
  <2> QED
    BY <2>1, <2>2, OwnStep DEF Idle, At, IInv, FirstOne, Alone, Linked
<1>14. ASSUME NEW t \in Tasks, AdvisesDoubt(t) \/ Stores(t) PROVE IInv'
  <2>1. At(t, "storing") \/ At(t, "advising")
    BY <1>14 DEF AdvisesDoubt, Stores
  <2>2. CASE AdvisesDoubt(t)
    <3>1. /\ OthersStay(t) /\ excuse' = excuse /\ link' = link /\ opened' = opened
          /\ task'[t].pc \in {"idle", "downgrading"}
      BY <2>2, EndsChanges, GoesChanges DEF AdvisesDoubt, queue, Idle, Points
    <3> QED
      BY <2>1, <3>1, OwnStep DEF At, IInv, FirstOne, Alone, Linked
  <2>3. CASE Stores(t)
    <3>1. /\ OthersStay(t) /\ excuse' = excuse /\ link' = link /\ opened' = opened
          /\ task'[t].pc \in {"idle", "attending"}
          /\ task'[t].pc = "attending" => task'[t].triage = task[t].triage
      BY <2>3, EndsChanges, FindsChanges DEF Stores, queue, Idle, Points
    <3> QED
      BY <2>1, <2>3, <3>1, OwnStep DEF Stores, At, IInv, FirstOne, Alone, Linked, Carried
  <2> QED
    BY <1>14, <2>2, <2>3
<1>15. ASSUME NEW t \in Tasks, Attends(t) PROVE IInv'
  <2>1. /\ At(t, "attending") /\ OthersStay(t) /\ excuse' = excuse /\ link' = link /\ opened' = opened
        /\ \/ task'[t].pc = "idle"
           \/ task'[t].pc = "opening" /\ ~Linked /\ task'[t].triage = task[t].triage
    BY <1>15, EndsChanges, GoesChanges DEF Attends, Unattended, queue, Idle, Points
  <2>2. opened \in Nat
    BY DEF TypeOK
  <2> QED
    BY <2>1, <2>2, OwnStep DEF At, IInv, FirstOne, Alone, Linked, Carried
<1>16. CASE UNCHANGED vars
  BY <1>16, TasksStay DEF vars
<1> QED
  BY <1>1, <1>2, <1>3, <1>4, <1>5, <1>6, <1>7, <1>8, <1>9, <1>10, <1>11, <1>12, <1>13, <1>14, <1>15, <1>16
     DEF Next, Sweeps, Works

\* A second investigation of one alert takes an overlap of two tasks or a failed
\* step, whichever of the two handlers and the triage open it.
THEOREM SecondNeedsExcuse == Spec => []OpenedOnce
<1>1. TypeOK /\ IInv => OpenedOnce
  BY DEF TypeOK, IInv, FirstOne, OpenedOnce
<1> QED
  BY <1>1, InitTypeOK, NextTypeOK, InitIInv, NextIInv, PTL DEF Spec

-----------------------------------------------------------------------------
(* The verdicts the agents keep *)

BuryingStep ==
    verdict = "sure" /\ verdict' = "benign" =>
        \/ policy \/ "overlap" \in excuse \/ used'.outside > used.outside
        \/ \E t \in Tasks : At(t, "storing") /\ ~At(t, "storing")'

LEMMA NextBurying == TypeOK /\ IInv /\ [Next]_vars => [BuryingStep]_vars
<1> SUFFICES ASSUME TypeOK, IInv, Next, verdict = "sure", verdict' = "benign",
                    ~policy, "overlap" \notin excuse
             PROVE  \/ used'.outside > used.outside
                    \/ \E t \in Tasks : At(t, "storing") /\ ~At(t, "storing")'
  BY DEF BuryingStep
<1> USE VerdictsAssumption DEF TypeOK, row, queue, Verdicts, Findings, Idle, At, Goes, Ends, Finds, Kept, Unsure, Carried, IInv
<1>1. ASSUME Selects \/ Enqueues \/ MarksQueued \/ TimePasses \/ QueuesByHand \/ Correlates \/ SweepFails
      PROVE  FALSE
  BY <1>1 DEF Selects, Enqueues, MarksQueued, TimePasses, QueuesByHand, Correlates, SweepFails
<1>2. ASSUME ReviewCloses PROVE used'.outside > used.outside
  BY <1>2 DEF ReviewCloses, Uses
<1>3. ASSUME NEW t \in Tasks, Takes(t) \/ Skips(t) \/ RunsByHand(t) \/ Triages(t) \/ TaskFails(t)
      PROVE  FALSE
  BY <1>3 DEF Takes, Skips, RunsByHand, Triages, TaskFails
<1>4. ASSUME NEW t \in Tasks,
             \/ ClassifiesBenign(t) \/ ClassifiesMalicious(t) \/ ClassifiesNothing(t)
             \/ Attaches(t) \/ AutoCloses(t) \/ FindsBenign(t) \/ Overwrites(t)
      PROVE  FALSE
  BY <1>4 DEF ClassifiesBenign, ClassifiesMalicious, ClassifiesNothing, Attaches, AutoCloses,
              FindsBenign, Overwrites
<1>5. ASSUME NEW t \in Tasks, FindsThreat(t) \/ Seeks(t) \/ Opens(t) \/ Links(t) \/ FindsLittle(t)
      PROVE  FALSE
  BY <1>5 DEF FindsThreat, Seeks, Opens, Links, FindsLittle
<1>6. ASSUME NEW t \in Tasks,
             \/ AdvisesInVain(t) \/ AdvisesMalicious(t) \/ AdvisesDoubt(t) \/ Downgrades(t) \/ Attends(t)
      PROVE  FALSE
  BY <1>6 DEF AdvisesInVain, AdvisesMalicious, AdvisesDoubt, Downgrades, Attends
<1>7. ASSUME NEW t \in Tasks, StoresClosing(t) \/ Stores(t)
      PROVE  At(t, "storing") /\ ~At(t, "storing")'
  BY <1>7 DEF StoresClosing, Stores
<1> QED
  BY <1>1, <1>2, <1>3, <1>4, <1>5, <1>6, <1>7 DEF Next, Sweeps, Works

\* One task at a time, the agents whose guardrails do not let them close an alert
\* leave a confident finding alone.
THEOREM GuardsKeepFindings == Spec => AgentsNeverBury
<1>1. Spec => [][BuryingStep]_vars
  BY InitTypeOK, NextTypeOK, InitIInv, NextIInv, NextBurying, PTL DEF Spec
<1> QED
  BY <1>1 DEF AgentsNeverBury, BuryingStep, At

=============================================================================
