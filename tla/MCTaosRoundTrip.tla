--------------------------- MODULE MCTaosRoundTrip ---------------------------
(* TLC instance of TaosRoundTrip: the oldest, the last legacy and the newest
   copy, one parameter, integers of one and two bits, doubles of which two are
   one float, half way between two last places of a FLOAT. *)
EXTENDS TaosRoundTrip

MCBuilds == {70000, 80100}
MCHalf == [t \in Integral |->
             IF t \in {"BIGINT", "UBIGINT", "INT", "UINT"} THEN 2 ELSE 1]
MCDoubles == {3, 10000, 10001}
MCAsFloat == [d \in MCDoubles |-> IF d = 10001 THEN 10000 ELSE d]
MCTexts == {1}
MCErrnos == {-1}
MCLengths == {1}
MCZones == {}

=============================================================================
