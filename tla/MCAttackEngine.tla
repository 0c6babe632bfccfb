--------------------------- MODULE MCAttackEngine ---------------------------
(* Instances of AttackEngine for TLC. *)
EXTENDS AttackEngine

=============================================================================
