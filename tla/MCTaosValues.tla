---------------------------- MODULE MCTaosValues ----------------------------
(* TLC instance of TaosValues: narrow integers, instants around whole seconds
   of each precision, fractions around halves of the last printed places. *)
EXTENDS TaosValues

MCBuilds == {70000, 70299, 70300, 79999, 80000, 80099, 80100}
MCHalf == [t \in Integral |->
             CASE t \in {"TINYINT", "UTINYINT"}   -> 2
               [] t \in {"SMALLINT", "USMALLINT"} -> 4
               [] OTHER                           -> 5]
MCStamps == UNION {{-k - 1, -k, -k + 1, k - 1, k, k + 1} : k \in {1000, 1000000, 1000000000}}
            \cup {-1, 0, 1}
MCFloats == {k * g + d : k \in {-3, -1, 0, 1, 3}, g \in {1, 10000}, d \in {-1, 0, 1}}
            \cup {200, 20000}
MCLengths == {1, 3, 8}
MCZones == {"UTC", "Asia/Shanghai"}

=============================================================================
