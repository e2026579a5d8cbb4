-------------------------------- MODULE MCFleet --------------------------------
(* The control hub's machine with two profiles of one tmux session, another   *)
(* machine that a workspace names, and a tmux session with a longer name.     *)
EXTENDS FleetUpdate

CONSTANTS m1, m2, here, far, lan, s, t, th1, th2, k1

Profile(name, host, session) == [name |-> name, host |-> host, session |-> session]

TwoProfilesHere == <<Profile(m1, here, s), Profile(m2, here, s)>>

LongerNames == {<<t, s>>}

=============================================================================
