------------------------- MODULE MCEpisodeExecution -------------------------
(* EpisodeExecution on small instances.                                     *)
EXTENDS EpisodeExecution, TLC

CONSTANTS e1, e2, w1, w2, c1

EqualClocks == [w \in Workers |-> 0]
SkewedClocks == [w \in Workers |-> IF w = w1 THEN 0 ELSE 1]

\* Only for equal clocks.
Symmetry == Permutations(Episodes) \cup Permutations(Workers)
=============================================================================
