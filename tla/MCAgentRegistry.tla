--------------------------- MODULE MCAgentRegistry ---------------------------
(* Two agents and three places; the name of s2 begins with the name of s1.   *)
EXTENDS AgentRegistry, TLC

CONSTANTS a1, a2, s1, s2, s3

LongerNames == {<<s2, s1>>}

=============================================================================
