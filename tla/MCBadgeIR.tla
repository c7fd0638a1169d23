----------------------------- MODULE MCBadgeIR ------------------------------
(* Queues of one and two, and one burst more than any queue holds. *)
EXTENDS BadgeIR, TLC

=============================================================================
