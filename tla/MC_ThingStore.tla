---------------------------- MODULE MC_ThingStore ----------------------------
(* The runs of ThingStore: two processes on one thing with one or two plain  *)
(* properties; which faults may happen is the run's choice.                  *)
EXTENDS ThingStore, TLC

NewlyMade == [q \in Props |-> FALSE]

\* The properties are alike too.
SymmetryOfProcs == Permutations(Procs)
SymmetryOfBoth == SymmetryOfProcs \cup Permutations(Props)

\* DriftIsKnown says nothing of what follows once `amiss` is set, which it stays:
\* the run does not go on from there.
NotYetAmiss == ~amiss
=============================================================================
