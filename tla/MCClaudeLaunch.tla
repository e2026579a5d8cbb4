---------------------------- MODULE MCClaudeLaunch ----------------------------
(* An agent, two tmux sessions, the name of one beginning with the other's,   *)
(* and two requests for Claude in the one with the shorter name.              *)
EXTENDS ClaudeLaunch, TLC

CONSTANTS a1, s1, s2, r1, r2

LongerNames == {<<s2, s1>>}

Alike == Permutations({r1, r2})

=============================================================================
