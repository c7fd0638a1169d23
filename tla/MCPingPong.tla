----------------------------- MODULE MCPingPong -----------------------------
(* PingPong with tags that both badges share, one does, and neither does. *)
EXTENDS PingPong

\* The primary has tags 0 and 1, the secondary tag 0 and the last: the secondary
\* may skip the others, and both badges send an empty FIELD for some tag.
MCCard == [b \in Sides |-> IF b = "pri" THEN {0, 1} ELSE {0, Rounds - 1}]

=============================================================================
