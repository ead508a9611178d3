----------------------------- MODULE CommentTree -----------------------------
(***************************************************************************)
(* The comment tree of one link: r2/models/comment_tree.py on the          *)
(* permacache of r2/lib/cache.py, filled by run_commentstree of            *)
(* r2/lib/db/queries.py.                                                   *)
(*                                                                         *)
(* The tree is one value in Cassandra, with memcached and a cache local to *)
(* the process in front.  A consumer takes a batch of comments, scores     *)
(* them (which loads the tree, without the lock), loads the tree under the *)
(* lock, adds what is not in it and writes it back to all three.  A page   *)
(* loads the tree, and puts it into memcached if it is not there, with no  *)
(* lock.  A tree is modelled by how often it lists each comment: who is    *)
(* whose child follows from Parent.                                        *)
(***************************************************************************)
EXTENDS Naturals, FiniteSets

CONSTANTS
    Consumers,      \* consumers of the queue the link's comments go to
    Readers,        \* web workers that show the link
    N,              \* bound: comments on the link; a comment is its id, 1 .. N
    Parent,         \* Parent[c]: the comment c answers, 0 for none
    Responses,      \* comments by the link's own author
    Limit,          \* comments in a batch
    Missing,        \* no value in a cache; no lock holder
    Orphan,         \* the lock's owner is dead
    Faults,         \* what may go wrong, a subset of FaultNames
    MaxDeaths       \* bound: consumers that die while they work

\* raise, kill: how a consumer dies; evict: memcached drops the tree; stranded:
\* even between a row that was written and the end of a later write, if the
\* row's writer died before it wrote memcached; late: a fill of memcached may
\* arrive after a write of the row that began later is over, or after its writer
\* died.
FaultNames == {"raise", "kill", "evict", "stranded", "late"}

Comments == 1 .. N

ASSUME TreeAssumption ==
    /\ N \in Nat /\ MaxDeaths \in Nat /\ Limit \in Nat \ {0}
    /\ Parent \in [Comments -> 0 .. N] /\ Responses \subseteq Comments
    /\ Consumers \cap Readers = {} /\ Faults \subseteq FaultNames
    /\ {Missing, Orphan} \cap (Consumers \cup Readers) = {} /\ Missing # Orphan
    /\ Missing \notin [Comments -> Nat]

VARIABLES
    posted,     \* comments whose message was published
    ready,      \* comments in the queue
    batch,      \* batch[p]: comments p took and has not acknowledged
    row,        \* the tree in Cassandra
    mem,        \* the tree in memcached
    local,      \* local[p]: the tree in the cache of the process
    seen,       \* seen[p]: the row p has read, on its way to the caches
    lock,       \* who holds make_lock("comment_tree", ...)
    pc,         \* where p is
    deaths      \* consumers that died while they worked

queue == <<posted, ready, batch>>
caches == <<mem, local, seen>>
vars == <<queue, row, caches, lock, pc, deaths>>

Procs == Consumers \cup Readers
Tree == [Comments -> Nat]
Empty == [c \in Comments |-> 0]

\* CommentTree.on_new_link has written the empty tree.
Init ==
    /\ posted = {} /\ ready = {}
    /\ batch = [p \in Consumers |-> {}]
    /\ row = Empty /\ mem = Empty
    /\ local = [p \in Procs |-> Missing]
    /\ seen = [p \in Procs |-> Missing]
    /\ lock = Missing
    /\ pc = [p \in Procs |-> "idle"]
    /\ deaths = 0

Goto(p, from, to) == pc[p] = from /\ pc' = [pc EXCEPT ![p] = to]

\* A comment is submitted.  Web workers publish from a thread of their own, so
\* an answer may be in the queue before the comment it answers, and the queue
\* is modelled without an order.
Post(c) ==
    /\ c \notin posted
    /\ posted' = posted \cup {c}
    /\ ready' = ready \cup {c}
    /\ UNCHANGED <<batch, row, caches, lock, pc, deaths>>

-----------------------------------------------------------------------------
\* Permacache.get: the process's cache, memcached, then Cassandra.

Loads == {"scoring", "loading", "reading"}

\* Where a process goes on with the tree loaded.
After(p) == CASE pc[p] = "scoring" -> "waiting"
              [] pc[p] = "loading" -> "adding"
              [] pc[p] = "reading" -> "idle"

\* A web request ends with its load, and its cache with it.
Kept(p, t) == [local EXCEPT ![p] = IF p \in Readers THEN Missing ELSE t]

LoadCached(p) ==
    /\ pc[p] \in Loads /\ seen[p] = Missing
    /\ \/ local[p] # Missing /\ local' = Kept(p, local[p])
       \/ local[p] = Missing /\ mem # Missing /\ local' = Kept(p, mem)
    /\ pc' = [pc EXCEPT ![p] = After(p)]
    /\ UNCHANGED <<queue, row, mem, seen, lock, deaths>>

\* Mutant: what no cache has is an empty tree.
ReadRow_Empty(p) ==
    /\ pc[p] \in Loads /\ seen[p] = Missing /\ local[p] = Missing /\ mem = Missing
    /\ seen' = [seen EXCEPT ![p] = Empty]
    /\ UNCHANGED <<queue, row, mem, local, lock, pc, deaths>>

ReadRow(p) ==
    /\ pc[p] \in Loads /\ seen[p] = Missing /\ local[p] = Missing /\ mem = Missing
    /\ seen' = [seen EXCEPT ![p] = row]
    /\ UNCHANGED <<queue, row, mem, local, lock, pc, deaths>>

\* The row goes to the caches, whatever they hold by now; an empty tree does
\* not (`if val`).
Fill(p) ==
    /\ pc[p] \in Loads /\ seen[p] # Missing
    /\ IF seen[p] = Empty THEN local' = Kept(p, Missing) /\ UNCHANGED mem
       ELSE local' = Kept(p, seen[p]) /\ mem' = seen[p]
    /\ seen' = [seen EXCEPT ![p] = Missing]
    /\ pc' = [pc EXCEPT ![p] = After(p)]
    /\ UNCHANGED <<queue, row, lock, deaths>>

\* A request shows the link.
OpenPage(p) ==
    /\ p \in Readers
    /\ Goto(p, "idle", "reading")
    /\ UNCHANGED <<queue, row, caches, lock, deaths>>

-----------------------------------------------------------------------------
\* The consumer.

\* Mutant: one comment too many in a batch.
GetBatch_OneMore(p) ==
    /\ p \in Consumers /\ Goto(p, "idle", "scoring")
    /\ \E b \in SUBSET ready \ {{}} :
          /\ Cardinality(b) <= Limit + 1
          /\ batch' = [batch EXCEPT ![p] = b]
          /\ ready' = ready \ b
    /\ local' = [local EXCEPT ![p] = Missing]
    /\ UNCHANGED <<posted, row, mem, seen, lock, deaths>>

\* handle_items: the local caches are emptied, and what is in the queue is
\* taken, up to the limit.
GetBatch(p) ==
    /\ p \in Consumers /\ Goto(p, "idle", "scoring")
    /\ \E b \in SUBSET ready \ {{}} :
          /\ Cardinality(b) <= Limit
          /\ batch' = [batch EXCEPT ![p] = b]
          /\ ready' = ready \ b
    /\ local' = [local EXCEPT ![p] = Missing]
    /\ UNCHANGED <<posted, row, mem, seen, lock, deaths>>

\* _calculate_qa_comment_scores extends the list it is given with the parents
\* of the author's responses.
Work(p) == batch[p] \cup ({Parent[c] : c \in batch[p] \cap Responses} \ {0})

TakeLock(p) ==
    /\ lock = Missing
    /\ Goto(p, "waiting", "loading")
    /\ lock' = p
    /\ UNCHANGED <<queue, row, caches, deaths>>

\* `tree or {}`
Loaded(p) == IF local[p] = Missing THEN Empty ELSE local[p]

\* Mutant: comments that are in the tree are added again.
New_All(p) == Work(p)

\* What the loaded tree does not list yet.
New(p) == {c \in Work(p) : Loaded(p)[c] = 0}

Unlock(p) == lock' = IF lock = p THEN Missing ELSE lock

\* Nothing to add: the tree is not written.
AddNothing(p) ==
    /\ New(p) = {}
    /\ Goto(p, "adding", "acking")
    /\ Unlock(p)
    /\ UNCHANGED <<queue, row, caches, deaths>>

\* The tree loaded, extended in place, goes to Cassandra,
WriteRow(p) ==
    /\ New(p) # {}
    /\ Goto(p, "adding", "caching")
    /\ row' = [c \in Comments |-> Loaded(p)[c] + (IF c \in New(p) THEN 1 ELSE 0)]
    /\ local' = [local EXCEPT ![p] = row']
    /\ UNCHANGED <<queue, mem, seen, lock, deaths>>

\* Without "late", what others read of the row before p wrote it is in the
\* caches by now.
FillsInTime(p) == "late" \in Faults \/ \A q \in Procs \ {p} : seen[q] \in {Missing, row}

\* Mutant: only the process's own cache is written.
WriteCaches_Local(p) ==
    /\ FillsInTime(p)
    /\ Goto(p, "caching", "acking")
    /\ Unlock(p)
    /\ UNCHANGED <<queue, row, caches, deaths>>

\* and then to the caches; the lock's block is over.
WriteCaches(p) ==
    /\ FillsInTime(p)
    /\ Goto(p, "caching", "acking")
    /\ mem' = local[p]
    /\ Unlock(p)
    /\ UNCHANGED <<queue, row, local, seen, deaths>>

Ack(p) ==
    /\ Goto(p, "acking", "idle")
    /\ batch' = [batch EXCEPT ![p] = {}]
    /\ UNCHANGED <<posted, ready, row, caches, lock, deaths>>

-----------------------------------------------------------------------------
\* What may go wrong.

\* Mutant: rejected without requeue = True.
GiveBack_Dropped(p) ==
    /\ batch' = [batch EXCEPT ![p] = {}]
    /\ local' = [local EXCEPT ![p] = Missing]
    /\ seen' = [seen EXCEPT ![p] = Missing]
    /\ pc' = [pc EXCEPT ![p] = "idle"]
    /\ UNCHANGED <<posted, ready, row, mem>>

\* The process ends, its batch goes back to the queue, and another starts.
GiveBack(p) ==
    /\ ready' = ready \cup batch[p]
    /\ batch' = [batch EXCEPT ![p] = {}]
    /\ local' = [local EXCEPT ![p] = Missing]
    /\ seen' = [seen EXCEPT ![p] = Missing]
    /\ pc' = [pc EXCEPT ![p] = "idle"]
    /\ UNCHANGED <<posted, row, mem>>

\* TimeoutExpired out of the lock.
TimeOut(p) ==
    /\ pc[p] = "waiting" /\ lock # Missing
    /\ GiveBack(p)
    /\ UNCHANGED <<lock, deaths>>

Dies(p) ==
    /\ p \in Consumers /\ pc[p] # "idle" /\ deaths < MaxDeaths
    /\ pc[p] = "caching" => "late" \in Faults \/ \A q \in Procs \ {p} : seen[q] = Missing
    /\ deaths' = deaths + 1
    /\ GiveBack(p)

\* An exception, of a store that fails for instance: the lock's block is left
\* and the batch rejected.
Raise(p) == "raise" \in Faults /\ Dies(p) /\ Unlock(p)

Kill(p) ==
    /\ "kill" \in Faults
    /\ Dies(p)
    /\ lock' = IF lock = p THEN Orphan ELSE lock

LockExpires ==
    /\ lock = Orphan
    /\ lock' = Missing
    /\ UNCHANGED <<queue, row, caches, pc, deaths>>

Evict ==
    /\ "evict" \in Faults
    /\ mem = row \/ "stranded" \in Faults \/ \E p \in Consumers : pc[p] = "caching"
    /\ mem' = Missing
    /\ UNCHANGED <<queue, row, local, seen, lock, pc, deaths>>

-----------------------------------------------------------------------------

Load(p) == LoadCached(p) \/ ReadRow(p) \/ Fill(p)

Add(p) == TakeLock(p) \/ AddNothing(p) \/ WriteRow(p) \/ WriteCaches(p) \/ Ack(p)

Next ==
    \/ \E c \in Comments : Post(c)
    \/ \E p \in Procs : Load(p) \/ OpenPage(p)
    \/ \E p \in Consumers : GetBatch(p) \/ Add(p) \/ TimeOut(p) \/ Raise(p) \/ Kill(p)
    \/ LockExpires \/ Evict

Spec == Init /\ [][Next]_vars

\* The supervisor keeps the consumers running, requests end, memcached keeps
\* the lock's TTL.  Weak fairness is enough for one consumer.
Fairness ==
    /\ \A p \in Procs : WF_vars(Load(p))
    /\ \A p \in Consumers : WF_vars(GetBatch(p)) /\ WF_vars(Add(p))
    /\ WF_vars(LockExpires)

FairSpec == Spec /\ Fairness

-----------------------------------------------------------------------------

TypeOK ==
    /\ posted \subseteq Comments /\ ready \subseteq posted
    /\ batch \in [Consumers -> SUBSET posted]
    /\ \A p \in Consumers : Cardinality(batch[p]) <= Limit
    /\ row \in Tree /\ mem \in Tree \cup {Missing}
    /\ local \in [Procs -> Tree \cup {Missing}]
    /\ seen \in [Procs -> Tree \cup {Missing}]
    /\ lock \in Consumers \cup {Missing, Orphan}
    /\ pc \in [Procs -> Loads \cup {"idle", "waiting", "adding", "caching", "acking"}]
    /\ deaths \in 0 .. MaxDeaths

Acked == posted \ (ready \cup UNION {batch[p] : p \in Consumers})

\* "adding comments requires read-modify-write, so get the lock"
\* (comment_tree.py:118): a comment whose message was acknowledged is in the
\* tree and stays there, whatever is added, given back and added again later.
AckedAreListed == \A c \in Acked : row[c] > 0

\* "skip any comments that are already in the stored tree" (comment_tree.py:
\* 122): no comment is shown twice, although messages are delivered again,
\* parents are added along with their answers and trees are loaded from caches.
ListedOnce == \A c \in Comments : row[c] <= 1 /\ (mem # Missing => mem[c] <= 1)

\* Once the queue is empty and no load is under way, pages show the stored tree.
PagesAreCurrent ==
    ready = {} /\ (\A p \in Consumers : batch[p] = {}) /\ (\A p \in Procs : seen[p] = Missing)
        => mem \in {Missing, row}

\* Every comment is listed in the end, though consumers raise and are killed.
AllListed == \A c \in Comments : c \in posted ~> row[c] > 0
=============================================================================
