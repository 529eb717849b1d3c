---------------------------- MODULE MCTaosQuoter ----------------------------
(* TLC instance of TaosQuoter: every text of up to five characters, counted by
   an int of three bits. *)
EXTENDS TaosQuoter

MCBuilds == {70000, 70300, 80000, 80099, 80100}
MCTexts == UNION {[1 .. n -> Chars] : n \in 0 .. 5}

=============================================================================
