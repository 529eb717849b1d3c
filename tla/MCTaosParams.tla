---------------------------- MODULE MCTaosParams ----------------------------
(* TLC instance of TaosParams: the oldest and the newest copy, integers of one
   and two bits, error numbers of two, a double that is a float and one that is
   rounded to it. *)
EXTENDS TaosParams

MCBuilds == {70000, 80100}
MCHalf == [t \in Integral |->
             IF t \in {"BIGINT", "UBIGINT", "INT", "UINT"} THEN 2 ELSE 1]
MCDoubles == {1, 2}
MCAsFloat == [d \in MCDoubles |-> 1]
MCTexts == {1}
MCErrnos == {-1, 1}

=============================================================================
