------------------------- MODULE MCTaosConnection -------------------------
(* TLC instance of TaosConnection. *)
EXTENDS TaosConnection

CONSTANTS c1, c2, s1

MCConns == {c1, c2}
MCStmts == {s1}
MCCodes == {"2603"}

=============================================================================
