------------------------------ MODULE MCJournal ------------------------------
(* A journal with room for one row fewer than there are peers. *)
EXTENDS Journal, TLC

Symmetric == Permutations(Uids \ {Self}) \cup Permutations(Names)

=============================================================================
