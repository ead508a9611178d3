------------------------------ MODULE Listings ------------------------------
(***************************************************************************)
(* One precomputed listing: CachedResults of r2/lib/db/queries.py, kept in *)
(* the Permacache of r2/lib/cache.py, which is a row of Cassandra with     *)
(* memcached in front.                                                     *)
(*                                                                         *)
(* A listing without a time filter is changed by inserting and deleting    *)
(* items; one with a time filter is written outright by mr_top, and items  *)
(* are only deleted from it.  Insertions, deletions and mr_top's writes of *)
(* listings without a filter are mutations, under a lock taken here to be  *)
(* a mutex (see MemcacheLock); mr_top's others and every reader take none. *)
(* A list is a sequence of items with their sort values, best first.       *)
(***************************************************************************)
EXTENDS Integers, Sequences, FiniteSets

CONSTANTS
    Writers,    \* processes that change the listing
    Readers,    \* requests that read it
    Items,
    Sorts,      \* sort values, in their order
    Limit,      \* precompute_limit
    Dumps,      \* lists mr_top may write
    None,       \* no value in memcached, no item
    Loads       \* bounds that alternate: which writers and readers, how many changes

ASSUME ListingAssumption ==
    /\ Sorts \subseteq Nat \ {0} /\ Limit \in Nat \ {0} /\ None \notin Items
    /\ Loads \subseteq [writers : SUBSET Writers, readers : SUBSET Readers, work : Nat]

VARIABLES
    timed,      \* the listing has a time filter
    load,       \* which of the Loads this is
    row,        \* the list in Cassandra
    mc,         \* the list in memcached, or None
    writer,     \* writer[w]: where w is, its change, the list it has in hand
    reader,     \* reader[r]: where r is, and the list it has read
    work,
    expected,   \* history: the list, had each change been made at once
    newest,     \* history: the sort value an item was last inserted with, or 0
    narrowed,   \* history: an item was deleted or given a lower value, or the list replaced
    spoilt      \* history: how memcached has come to hold an old list

vars == <<timed, load, row, mc, writer, reader, work, expected, newest, narrowed, spoilt>>
ghosts == <<expected, newest, narrowed>>

Sorted(list) == \A i, j \in 1 .. Len(list) : i < j => list[i].sort >= list[j].sort
Names(list) == {list[i].item : i \in 1 .. Len(list)}
IsListing(list) ==
    /\ Sorted(list) /\ Len(list) <= Limit
    /\ Cardinality(Names(list)) = Len(list)

\* mr_top sorts what it writes and cuts it at the same limit; it sees each item once.
ASSUME DumpsAssumption ==
    \A list \in Dumps : list \in Seq([item : Items, sort : Sorts]) /\ IsListing(list)

NoChange == [op |-> "none", item |-> None, sort |-> 0, list |-> <<>>]
Idle == [pc |-> "idle", change |-> NoChange, value |-> <<>>]

Init ==
    /\ timed \in BOOLEAN /\ load \in Loads
    /\ row = <<>> /\ mc = None
    /\ writer = [w \in Writers |-> Idle]
    /\ reader = [r \in Readers |-> [pc |-> "idle", value |-> <<>>]]
    /\ work = 0
    /\ expected = <<>>
    /\ newest = [i \in Items |-> 0]
    /\ narrowed = FALSE
    /\ spoilt = {}

-----------------------------------------------------------------------------
\* The changes.

\* What the comprehension keeps, in its order: the n-th of the entries kept.
Without(list, item) ==
    LET kept == {k \in 1 .. Len(list) : list[k].item # item}
        rank(k) == Cardinality({j \in kept : j <= k})
    IN  [n \in 1 .. Cardinality(kept) |-> list[CHOOSE k \in kept : rank(k) = n]]

\* Python's sort keeps equal elements in their order, and the new one is last.
Place(list, entry) ==
    LET n == Cardinality({i \in 1 .. Len(list) : list[i].sort >= entry.sort})
    IN  SubSeq(list, 1, n) \o <<entry>> \o SubSeq(list, n + 1, Len(list))

Truncated(list) == SubSeq(list, 1, IF Len(list) > Limit THEN Limit ELSE Len(list))

\* Mutant: the item's old entry stays.
Inserted_Twice(list, entry) == Truncated(Place(list, entry))

\* Mutant: a list counts as full one item too early.
Inserted_Early(list, entry) ==
    LET full == Cardinality(Names(list) \cup {entry.item}) >= Limit - 1
        refused == /\ full /\ list # <<>> /\ entry.item \notin Names(list)
                   /\ entry.sort < list[Len(list)].sort
    IN  IF refused THEN list ELSE Truncated(Place(Without(list, entry.item), entry))

\* CachedResults._insert_tuples: a list that is about to be full takes a new item
\* only if the item is not worse than the last of the list.
Inserted(list, entry) ==
    LET full == Cardinality(Names(list) \cup {entry.item}) >= Limit
        refused == /\ full /\ list # <<>> /\ entry.item \notin Names(list)
                   /\ entry.sort < list[Len(list)].sort
    IN  IF refused THEN list ELSE Truncated(Place(Without(list, entry.item), entry))

Changed(change, list) ==
    CASE change.op = "insert" ->
            Inserted(list, [item |-> change.item, sort |-> change.sort])
      [] change.op = "delete" -> Without(list, change.item)
      [] OTHER -> change.list

Changes ==
    [op : {"insert"}, item : IF timed THEN {} ELSE Items, sort : Sorts, list : {<<>>}]
    \cup [op : {"delete"}, item : Items, sort : {0}, list : {<<>>}]
    \cup [op : {"replace"}, item : {None}, sort : {0}, list : Dumps]

\* The list a change makes becomes the row's; what should have become of it.
Record(change) ==
    /\ expected' = Changed(change, expected)
    /\ newest' = IF change.op = "insert"
                 THEN [newest EXCEPT ![change.item] = change.sort] ELSE newest
    /\ narrowed' = (narrowed \/ change.op # "insert" \/ change.sort < newest[change.item])

-----------------------------------------------------------------------------
\* Permacache.mutate

Locked == {"looking", "fetching", "storing", "caching"}
InLock == {w \in Writers : writer[w].pc \in Locked}

Goto(w, pc) == writer' = [writer EXCEPT ![w].pc = pc]
Has(w, pc, value) == writer' = [writer EXCEPT ![w].pc = pc, ![w].value = value]

\* Mutant: mutations take no lock.
Start_Unlocked(w) ==
    /\ w \in load.writers /\ writer[w] = Idle /\ work < load.work
    /\ \E change \in Changes : writer' = [writer EXCEPT ![w] =
          [pc |-> IF change.op # "replace" THEN "looking"
                  ELSE IF timed THEN "replacing" ELSE "storing",
           change |-> change, value |-> <<>>]]
    /\ work' = work + 1
    /\ UNCHANGED <<timed, load, row, mc, reader, ghosts, spoilt>>

\* A replacement does not read (willread), and that of a listing with a time
\* filter takes no lock.
Start(w) ==
    /\ w \in load.writers /\ writer[w] = Idle /\ work < load.work
    /\ \E change \in Changes :
          LET replaces == change.op = "replace"
          IN  /\ (replaces /\ timed) \/ InLock = {}
              /\ writer' = [writer EXCEPT ![w] =
                    [pc |-> IF ~replaces THEN "looking"
                            ELSE IF timed THEN "replacing" ELSE "storing",
                     change |-> change, value |-> <<>>]]
    /\ work' = work + 1
    /\ UNCHANGED <<timed, load, row, mc, reader, ghosts, spoilt>>

\* A replacement has written the row and not yet dropped memcached's copy.
Dropping == {w \in Writers : writer[w].pc = "dropping"}

Look(w) ==
    /\ writer[w].pc = "looking"
    /\ IF mc = None THEN Goto(w, "fetching") ELSE Has(w, "storing", mc)
    /\ spoilt' = spoilt \cup IF mc \notin {None, row} /\ Dropping # {} THEN {"unlocked"} ELSE {}
    /\ UNCHANGED <<timed, load, row, mc, reader, work, ghosts>>

Fetch(w) ==
    /\ writer[w].pc = "fetching"
    /\ Has(w, "storing", row)
    /\ UNCHANGED <<timed, load, row, mc, reader, work, ghosts, spoilt>>

\* The row is written only if the list has changed.
Store(w) ==
    LET change == writer[w].change
        new == Changed(change, writer[w].value)
    IN  /\ writer[w].pc = "storing"
        /\ row' = IF change.op = "replace" \/ new # writer[w].value THEN new ELSE row
        /\ Has(w, "caching", new)
        /\ Record(change)
        /\ UNCHANGED <<timed, load, mc, reader, work, spoilt>>

Cache(w) ==
    /\ writer[w].pc = "caching"
    /\ mc' = writer[w].value
    /\ writer' = [writer EXCEPT ![w] = Idle]
    /\ UNCHANGED <<timed, load, row, reader, work, ghosts, spoilt>>

\* Permacache.pessimistically_set
Replace(w) ==
    /\ writer[w].pc = "replacing"
    /\ row' = writer[w].change.list
    /\ Goto(w, "dropping")
    /\ Record(writer[w].change)
    /\ spoilt' = spoilt \cup
           IF \E v \in Writers : writer[v].pc \in {"storing", "caching"}
           THEN {"unlocked"} ELSE {}
    /\ UNCHANGED <<timed, load, mc, reader, work>>

Drop(w) ==
    /\ writer[w].pc = "dropping"
    /\ mc' = None
    /\ writer' = [writer EXCEPT ![w] = Idle]
    /\ UNCHANGED <<timed, load, row, reader, work, ghosts, spoilt>>

\* A process dies, or memcached does not take its last call: what it holds then
\* is old unless it holds nothing.
Die(w) ==
    /\ writer[w].pc # "idle"
    /\ writer' = [writer EXCEPT ![w] = Idle]
    /\ spoilt' = spoilt \cup
           IF writer[w].pc \in {"caching", "dropping"} /\ mc \notin {None, row}
           THEN {"died"} ELSE {}
    /\ UNCHANGED <<timed, load, row, mc, reader, work, ghosts>>

-----------------------------------------------------------------------------
\* Readers: Permacache.simple_get_multi reads the rows of all the keys it was
\* asked for if memcached lacks any of them, and sets them all.

Miss(r) ==
    /\ r \in load.readers /\ reader[r].pc = "idle"
    /\ reader' = [reader EXCEPT ![r] = [pc |-> "filling", value |-> row]]
    /\ UNCHANGED <<timed, load, row, mc, writer, work, ghosts, spoilt>>

\* An old list in memcached is set right again by a writer that is about to
\* set it.
Fill(r) ==
    LET list == reader[r].value
        repaired == \E w \in Writers : writer[w].pc \in {"caching", "dropping"}
    IN  /\ reader[r].pc = "filling"
        /\ mc' = list
        /\ reader' = [reader EXCEPT ![r].pc = "idle", ![r].value = <<>>]
        /\ spoilt' = spoilt \cup IF list # row /\ ~repaired THEN {"filled"} ELSE {}
        /\ UNCHANGED <<timed, load, row, writer, work, ghosts>>

\* memcached drops what it likes.
Evict ==
    /\ mc # None
    /\ mc' = None
    /\ UNCHANGED <<timed, load, row, writer, reader, work, ghosts, spoilt>>

Next ==
    \/ \E w \in Writers : \/ Start(w) \/ Look(w) \/ Fetch(w) \/ Store(w) \/ Cache(w)
                          \/ Replace(w) \/ Drop(w) \/ Die(w)
    \/ \E r \in Readers : Miss(r) \/ Fill(r)
    \/ Evict

Spec == Init /\ [][Next]_vars

-----------------------------------------------------------------------------
\* Properties.

Quiet == \A w \in Writers : writer[w].pc = "idle"

\* Whatever is stored or held is a listing: sorted, no item twice, no longer than
\* precompute_limit (the next insertion trusts the last element to be the worst).
TypeOK ==
    /\ timed \in BOOLEAN /\ load \in Loads /\ work \in 0 .. load.work
    /\ IsListing(row) /\ (mc # None => IsListing(mc))
    /\ \A w \in Writers : /\ writer[w].pc \in Locked \cup {"idle", "replacing", "dropping"}
                          /\ IsListing(writer[w].value)
    /\ \A r \in Readers : reader[r].pc \in {"idle", "filling"} /\ IsListing(reader[r].value)
    /\ Cardinality(InLock) <= 1
    /\ spoilt \subseteq {"unlocked", "died", "filled"}

\* No update is lost ("Mutate a Cassandra key as atomically as possible",
\* cache.py:987): the row is what the changes make of it one after the other, and
\* when no writer is at work memcached has that or nothing, unless a reader has
\* filled memcached with a list read before a change, a writer died before
\* memcached had its list, or mr_top wrote in the middle of a mutation.  Evictions
\* and readers that miss do no harm otherwise.
UpdatesLand == spoilt = {} =>
    /\ row = expected
    /\ Quiet => mc \in {None, row}

\* The best items are listed: while nothing was deleted or lost rank, an item that
\* was inserted is in the listing under its last sort value, or all the others but
\* one that fit are no worse.
BestAreListed == spoilt = {} /\ ~narrowed =>
    \A i \in Items : newest[i] > 0 =>
        \/ \E k \in 1 .. Len(row) : row[k] = [item |-> i, sort |-> newest[i]]
        \/ Cardinality({k \in 1 .. Len(row) : row[k].sort >= newest[i]}) >= Limit - 1
=============================================================================
