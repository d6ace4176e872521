---------------------------- MODULE RetryingQueue ----------------------------
(***************************************************************************)
(* What the job queue promises whoever puts a job into it, with nothing of *)
(* how: rows, locks and worker loops are JobQueue's.  A waiting job is     *)
(* taken by one worker at a time; the worker hands it back done, to wait   *)
(* for another try, or, when its tries are used up, to be buried; what is  *)
(* done stays done; and a job whose worker vanishes is lost.               *)
(***************************************************************************)
EXTENDS Naturals

CONSTANTS Jobs, Workers, MaxTries

VARIABLES
    place,    \* where each job is
    tries,    \* how often it has been taken since it was put in
    keepers   \* the workers that have it

vars == <<place, tries, keepers>>

Places == {"outside", "waiting", "taken", "done", "buried", "lost", "gone"}

Init ==
    /\ place = [j \in Jobs |-> "outside"]
    /\ tries = [j \in Jobs |-> 0]
    /\ keepers = [j \in Jobs |-> {}]

Moves(j, from, to) ==
    /\ place[j] \in from
    /\ place' = [place EXCEPT ![j] = to]

Submit(j) ==
    /\ Moves(j, {"outside"}, "waiting")
    /\ UNCHANGED <<tries, keepers>>

Take(w, j) ==
    /\ tries[j] < MaxTries
    /\ keepers[j] = {}
    /\ Moves(j, {"waiting"}, "taken")
    /\ tries' = [tries EXCEPT ![j] = @ + 1]
    /\ keepers' = [keepers EXCEPT ![j] = {w}]

\* Handed back by its one keeper.
Returns(w, j, to) ==
    /\ keepers[j] = {w}
    /\ Moves(j, {"taken"}, to)
    /\ keepers' = [keepers EXCEPT ![j] = {}]
    /\ UNCHANGED tries

\* Done, and cleared away already if the worker was slow to hear of it.
Finish(w, j) == \E to \in {"done", "gone"} : Returns(w, j, to)

TryAgain(w, j) == tries[j] < MaxTries /\ Returns(w, j, "waiting")

Bury(w, j) == tries[j] = MaxTries /\ Returns(w, j, "buried")

Lose(w, j) == Returns(w, j, "lost")

Revive(j) ==
    /\ Moves(j, {"buried"}, "waiting")
    /\ tries' = [tries EXCEPT ![j] = 0]
    /\ UNCHANGED keepers

ClearAway(j) ==
    /\ Moves(j, {"done", "buried"}, "gone")
    /\ UNCHANGED <<tries, keepers>>

Next ==
    \E j \in Jobs :
        \/ Submit(j) \/ Revive(j) \/ ClearAway(j)
        \/ \E w \in Workers :
              Take(w, j) \/ Finish(w, j) \/ TryAgain(w, j) \/ Bury(w, j) \/ Lose(w, j)

Spec == Init /\ [][Next]_vars
=============================================================================
