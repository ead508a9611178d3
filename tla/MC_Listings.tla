----------------------------- MODULE MC_Listings -----------------------------
(* Listings of at most three items out of four. *)
EXTENDS Listings, TLC
CONSTANTS a, b
\* Three changes by two writers among readers, or four by one without.
MCLoads == {[writers |-> Writers, readers |-> Readers, work |-> 3]}
           \cup {[writers |-> {w}, readers |-> {}, work |-> 4] : w \in Writers}
MCSorts == 1 .. 2
MCDumps == {<<[item |-> a, sort |-> 2]>>, <<[item |-> b, sort |-> 2], [item |-> a, sort |-> 1]>>}
Symmetry == Permutations(Writers) \cup Permutations(Items \ {a, b})
=============================================================================
