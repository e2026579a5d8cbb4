----------------------------- MODULE MCTaskQueue -----------------------------
(* Small instances of TaskQueue: Claude processes on a far machine, or on    *)
(* the hub's own with tasks for narrower addresses.                          *)
EXTENDS TaskQueue, TLC

CONSTANTS t1, t2, hub, far, p1, p2, v, th1, th2

Anywhere(machine) == [machine |-> machine, workspace |-> None, folder |-> None]
NoPlace == [workspace |-> None, folder |-> None]
PlaceAnywhere == [p \in Takers |-> NoPlace]

\* Two alike processes on a machine the hub may fail to reach.
FarScope == {Anywhere(far)}
AllFar == [p \in Takers |-> far]
AskFar == [p \in Takers |-> {far}]
Alike == Permutations({p1, p2}) \cup Permutations({th1, th2})

\* Tasks narrowed to a workspace or a folder.  Folders are paths; <<>> is "/".
Work == <<"srv", "work">>
Inner == <<"srv", "work", "api">>
NarrowScopes ==
    {Anywhere(hub),
     [machine |-> hub, workspace |-> "ws", folder |-> None],
     [machine |-> hub, workspace |-> None, folder |-> Inner]}
PlaceNarrow == [p \in Takers |-> [workspace |-> "ws", folder |-> Work]]
AllHub == [p \in Takers |-> hub]
AskHub == [p \in Takers |-> {hub}]

=============================================================================
