-------------------------- MODULE MCTaosStatement --------------------------
(* TLC instance of TaosStatement: the kinds of parameter each run binds. *)
EXTENDS TaosStatement

KindsAll == AllKinds
KindsTyped == {"value"}
=============================================================================
