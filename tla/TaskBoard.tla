------------------------------ MODULE TaskBoard ------------------------------
(***************************************************************************)
(* What a task queue promises about each task, with no word about files,   *)
(* locks, reapers or leases: a posted task waits, goes out to one taker at *)
(* a time, comes back or is closed, stays closed, and goes out no more     *)
(* often than its budget allows until a person renews the budget.  Tasks   *)
(* move independently and several may move in one step.                    *)
(***************************************************************************)
EXTENDS Naturals

CONSTANTS Tasks, MaxHandouts

VARIABLES phase, budget

vars == <<phase, budget>>

Init ==
    /\ phase = [t \in Tasks |-> "unposted"]
    /\ budget = [t \in Tasks |-> MaxHandouts]

Moves(t, from, to) == phase[t] \in from /\ phase'[t] = to

Post(t) == Moves(t, {"unposted"}, "waiting") /\ budget'[t] = budget[t]

HandOut(t) ==
    /\ Moves(t, {"waiting"}, "out")
    /\ budget[t] > 0
    /\ budget'[t] = budget[t] - 1

ComeBack(t) == Moves(t, {"out"}, "waiting") /\ budget'[t] = budget[t]

Renew(t) == Moves(t, {"waiting"}, "waiting") /\ budget'[t] = MaxHandouts

Close(t) ==
    /\ \/ Moves(t, {"waiting", "out"}, "done")
       \/ Moves(t, {"waiting", "out"}, "cancelled")
    /\ budget'[t] = budget[t]

Forget(t) == Moves(t, {"done", "cancelled"}, "forgotten") /\ budget'[t] = budget[t]

Rests(t) == phase'[t] = phase[t] /\ budget'[t] = budget[t]

TaskStep(t) ==
    Post(t) \/ HandOut(t) \/ ComeBack(t) \/ Renew(t) \/ Close(t) \/ Forget(t) \/ Rests(t)

Next ==
    /\ \A t \in Tasks : TaskStep(t)
    /\ DOMAIN phase' = Tasks /\ DOMAIN budget' = Tasks

Spec == Init /\ [][Next]_vars

=============================================================================
