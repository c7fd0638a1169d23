--------------------------- MODULE MCBoopProtocol ---------------------------
(* Rooms for BoopProtocol: badges are small UIDs, the lowest leads. *)
EXTENDS BoopProtocol

\* Badge 1 shares every tag but the second, the others every tag but the first.
MCCard == [b \in Badges |-> IF b = 1 THEN Tags \ {1} ELSE Tags \ {0}]

=============================================================================
