------------------------------ MODULE MCNecTx -------------------------------
(* No carrier of one's own, the default one asked for, and two others. *)
EXTENDS NecTx

=============================================================================
