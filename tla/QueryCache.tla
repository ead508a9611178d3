----------------------------- MODULE QueryCache -----------------------------
(***************************************************************************)
(* One cached query of r2/models/query_cache.py: a row of Cassandra with a *)
(* column per item, which holds the item's sort value and the timestamp it *)
(* was written with.  Requests insert and delete items without a lock, one *)
(* batch each; an insertion may be followed by a pruning, which reads the  *)
(* row and sends another batch.  What a batch does is the Mutator's doing, *)
(* r2/lib/db/cassandra_compat.py.                                          *)
(***************************************************************************)
EXTENDS Integers, FiniteSets, FiniteSetsExt

CONSTANTS
    Writers,    \* requests
    Items,
    Sorts,      \* sort values, in their order
    MaxCached,  \* MAX_CACHED_ITEMS
    PruneSize,  \* items a slow pruning removes at most
    None,       \* no column
    MaxWork     \* bound: batches of changes


VARIABLES
    row,        \* row[i]: the column of item i, or None
    writer,     \* writer[w]: where w is, and the row it read
    work        \* batches sent, which is also the time

vars == <<row, writer, work>>

Column == [sort : Sorts, stamp : 1 .. MaxWork]
Empty == [i \in Items |-> None]
Idle == [pc |-> "idle", read |-> Empty]

Init ==
    /\ row = Empty
    /\ writer = [w \in Writers |-> Idle]
    /\ work = 0

-----------------------------------------------------------------------------
\* CachedQueryMutator.insert, delete and send.

Begin(w) ==
    /\ writer[w] = Idle /\ work < MaxWork
    /\ work' = work + 1

\* An upsert; PRUNE_CHANCE decides whether the query is pruned after it.
Insert(w, i, s) ==
    /\ Begin(w)
    /\ row' = [row EXCEPT ![i] = [sort |-> s, stamp |-> work + 1]]
    /\ \/ writer' = [writer EXCEPT ![w].pc = "fetching"]
       \/ UNCHANGED writer

Delete(w, i) ==
    /\ Begin(w)
    /\ row' = [row EXCEPT ![i] = None]
    /\ UNCHANGED writer

-----------------------------------------------------------------------------
\* CachedQuery._prune_multi

Fetch(w) ==
    /\ writer[w].pc = "fetching"
    /\ writer' = [writer EXCEPT ![w] = [pc |-> "pruning", read |-> row]]
    /\ UNCHANGED <<row, work>>

Listed(columns) == {i \in Items : columns[i] # None}
Ahead(columns, best, others) ==
    \A i \in best, j \in others : columns[i].sort >= columns[j].sort

\* The first MAX_CACHED_ITEMS of what was read, and what follows them.
Keeps(columns, best) ==
    /\ best \subseteq Listed(columns) /\ Cardinality(best) = MaxCached
    /\ Ahead(columns, best, Listed(columns) \ best)

\* Excess items that were all written before everything that is kept.
FastPrunable(columns, best) ==
    {i \in Listed(columns) \ best :
        columns[i].stamp < Min({columns[k].stamp : k \in best})}

IsFast(columns, best) ==
    LET excess == Cardinality(Listed(columns)) - MaxCached
        fast == Cardinality(FastPrunable(columns, best))
    IN  2 * fast > excess /\ 2 * (excess - fast) < MaxCached

\* remove_older_than: the batch deletes the row, and has no use for the timestamp.
PruneFast(best, columns) ==
    /\ IsFast(columns, best)
    /\ row' = Empty

\* remove_if_unchanged: the last items, whether they have changed or not.
PruneSlow(best, columns) ==
    LET excess == Listed(columns) \ best
        number == IF Cardinality(excess) < PruneSize THEN Cardinality(excess) ELSE PruneSize
    IN  /\ ~IsFast(columns, best)
        /\ \E last \in kSubset(number, excess) :
              /\ Ahead(columns, excess \ last, last)
              /\ row' = [i \in Items |-> IF i \in last THEN None ELSE row[i]]

Prune(w) ==
    LET columns == writer[w].read
    IN  /\ writer[w].pc = "pruning"
        /\ writer' = [writer EXCEPT ![w] = Idle]
        /\ IF Cardinality(Listed(columns)) <= MaxCached
           THEN UNCHANGED row
           ELSE \E best \in SUBSET Items :
                   Keeps(columns, best)
                   /\ (PruneFast(best, columns) \/ PruneSlow(best, columns))
        /\ UNCHANGED work

Next == \E w \in Writers :
    \/ \E i \in Items : Delete(w, i) \/ \E s \in Sorts : Insert(w, i, s)
    \/ Fetch(w) \/ Prune(w)

Spec == Init /\ [][Next]_vars

-----------------------------------------------------------------------------

\* A pruning removes "excess items from the end of the listing"
\* (query_cache.py:142-143): what is left has at least as many items as a listing
\* shows, none of them behind one that was removed.
PruneKeepsTheBest == [][\A w \in Writers :
    writer[w].pc = "pruning" /\ row' # row /\ work' = work =>
        LET removed == Listed(row) \ Listed(row')
        IN  /\ Cardinality(Listed(row')) >= MaxCached
            /\ Ahead(row, Listed(row'), removed)]_vars
=============================================================================
