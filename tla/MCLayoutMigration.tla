------------------------- MODULE MCLayoutMigration -------------------------
(* LayoutMigration with a bounded number of resets. *)
EXTENDS LayoutMigration

=============================================================================
