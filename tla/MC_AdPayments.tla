---------------------------- MODULE MC_AdPayments ----------------------------
(* The runs of AdPayments: two payments, one of a provider that can refund.    *)
EXTENDS AdPayments, TLC

\* Two requests at once, and longer histories of one at a time.
MCLoads == {[atonce |-> 2, inall |-> 3], [atonce |-> 1, inall |-> 4]}

Symmetry == Permutations(Requests)
=============================================================================
