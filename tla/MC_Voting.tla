------------------------------ MODULE MC_Voting ------------------------------
(* The runs of Voting: the author and one other voter, a few votes.           *)
EXTENDS Voting, TLC

Two(votes, deaths) ==
    [kind |-> "link", staff |-> Consumers, prefetch |-> 1,
     faults |-> {"raise", "kill"}, votes |-> votes, deaths |-> deaths]

One(k, c) ==
    [kind |-> k, staff |-> {c}, prefetch |-> 2, faults |-> {"raise"},
     votes |-> IF k = "link" THEN 3 ELSE 4, deaths |-> 2]

\* Links with two consumers, and links or comments with either one of them.
MCQueues == {Two(3, 1), Two(2, 2)}
            \cup {One(k, c) : k \in {"link", "comment"}, c \in Consumers}

\* One consumer that never fails.
Undisturbed == {[One("link", c) EXCEPT !.prefetch = 1, !.faults = {}, !.deaths = 0] :
                   c \in Consumers}

Symmetry == Permutations(Consumers)
=============================================================================
