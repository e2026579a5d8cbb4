-------------------------- MODULE MCServiceRegistry --------------------------
(* Two sandboxes and one rr-notes that share a few ports, two requests at a  *)
(* time.                                                                     *)
EXTENDS ServiceRegistry, TLC

CONSTANTS c1, c2, q1, th1, th2

Alike == Permutations({c1, c2}) \cup Permutations({th1, th2})

=============================================================================
