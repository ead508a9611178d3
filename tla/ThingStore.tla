----------------------------- MODULE ThingStore -----------------------------
(***************************************************************************)
(* One thing of the object store: r2/lib/db/thing.py on r2/lib/db/tdb_sql. *)
(*                                                                         *)
(* PostgreSQL holds the canonical thing, memcached a copy of the whole     *)
(* object; each process changes a copy of its own and writes it back under *)
(* the thing's lock.  The thing has plain base properties (_spam, _deleted *)
(* ...), a base counter (_ups) and a data counter (a link karma), whose    *)
(* row may be missing from the data table, in which case the class default *)
(* 0 is read.  `done` is a history variable: what _incr has returned for.  *)
(***************************************************************************)
EXTENDS Integers, FiniteSets

CONSTANTS
    Procs,      \* web workers and queue consumers
    Props,      \* plain base properties of the thing
    Vals,       \* their values
    NoThing,    \* not in the cache, not in the database, no object in hand
    NoRow,      \* the data table has no row for the counter
    Unasked,    \* the caller has not set the property
    NoOwner,    \* the lock is free
    Orphan,     \* the lock's owner is dead
    Fresh,      \* plain properties of the thing as it is created
    Faults,     \* what may go wrong, see FaultNames
    MaxIncrs    \* bound: increments and decrements started

FaultNames == {"evict",   \* memcached evicts the object or its TTL ends
               "early",   \* a thing is looked up before its creator has cached it
               "cache",   \* memcached fails a write of the object, done or not
               "fill",    \* or the add after a miss
               "sql",     \* a statement fails and the transaction is rolled back
               "commit",  \* COMMIT is answered with an error, applied or not
               "crash",   \* a process dies
               "expire"}  \* a critical section outlasts the lock's TTL

ASSUME StoreAssumption ==
    /\ Fresh \in [Props -> Vals]
    /\ Faults \subseteq FaultNames
    /\ MaxIncrs \in Nat
    /\ NoRow \notin Int /\ Unasked \notin Vals
    /\ NoOwner \notin Procs /\ Orphan \notin Procs /\ Orphan # NoOwner

VARIABLES
    db,       \* the committed rows of the thing
    cache,    \* the object in memcached
    lock,     \* who holds g.make_lock("thing_commit", ...)
    self,     \* self[p]: the object p works on
    dirty,    \* dirty[p]: properties in self._dirties
    asked,    \* history: asked[p][q] is what p's caller set since the last commit
    op,       \* op[p]: what p took the lock for
    pc,       \* where p is
    incrs,    \* number of increments started
    done,     \* history: done[c] is the sum of the increments that returned
    ahead,    \* history: increments of ups that memcached has and the database lost
    behind,   \* history: properties whose new value the database has and memcached
              \* missed
    amiss     \* history: something happened that the cache does not withstand

drift == <<ahead, behind, amiss>>
vars == <<db, cache, lock, self, dirty, asked, op, pc, incrs, done, drift>>

Counters == {"ups", "karma"}

Thing == [vals : [Props -> Vals], ups : Int, karma : Int \cup {NoRow}]
ASSUME ThingAssumption == NoThing \notin Thing

Commit == [on |-> "vals", amt |-> 0]
Ops == {Commit} \cup [on : Counters, amt : {-1, 1}]

Nothing == [q \in Props |-> Unasked]

Created == [vals |-> Fresh, ups |-> 0, karma |-> NoRow]

\* DataThing.__getattr__: a data property without a row reads as its default.
Read(thing, c) == IF thing[c] = NoRow THEN 0 ELSE thing[c]

Init ==
    /\ db \in {NoThing, Created}
    /\ cache = NoThing
    /\ lock = NoOwner
    /\ self = [p \in Procs |-> NoThing]
    /\ dirty = [p \in Procs |-> {}]
    /\ asked = [p \in Procs |-> Nothing]
    /\ op = [p \in Procs |-> Commit]
    /\ pc = [p \in Procs |-> "idle"]
    /\ incrs = 0
    /\ done = [c \in Counters |-> 0]
    /\ ahead = 0 /\ behind = {} /\ amiss = FALSE

Goto(p, from, to) == pc[p] = from /\ pc' = [pc EXCEPT ![p] = to]

-----------------------------------------------------------------------------
\* Creating the thing: one transaction, then a cache write without the lock.

Create(p) ==
    /\ db = NoThing
    /\ Goto(p, "idle", "created")
    /\ db' = Created
    /\ self' = [self EXCEPT ![p] = Created]
    /\ UNCHANGED <<cache, lock, dirty, asked, op, incrs, done, drift>>

PublishNew(p) ==
    /\ Goto(p, "created", "have")
    /\ cache' = self[p]
    /\ UNCHANGED <<db, lock, self, dirty, asked, op, incrs, done, drift>>

-----------------------------------------------------------------------------
\* _byID: the cache, or else two queries and an add.

Visible == db # NoThing /\ ("early" \in Faults \/ \A p \in Procs : pc[p] # "created")

LookUpCached(p) ==
    /\ Visible /\ cache # NoThing
    /\ Goto(p, "idle", "have")
    /\ self' = [self EXCEPT ![p] = cache]
    /\ UNCHANGED <<db, cache, lock, dirty, asked, op, incrs, done, drift>>

\* get_things_from_db, first query: the thing table.
ReadBase(p) ==
    /\ Visible /\ cache = NoThing
    /\ Goto(p, "idle", "base_read")
    /\ self' = [self EXCEPT ![p] = [db EXCEPT !.karma = NoRow]]
    /\ amiss' = (amiss \/ \E r \in Procs : pc[r] = "created")
    /\ UNCHANGED <<db, cache, lock, dirty, asked, op, incrs, done, ahead, behind>>

\* Second query, on a connection of its own: the data table.
ReadData(p) ==
    /\ Goto(p, "base_read", "data_read")
    /\ self' = [self EXCEPT ![p].karma = db.karma]
    /\ UNCHANGED <<db, cache, lock, dirty, asked, op, incrs, done, drift>>

\* Mutant: the fill after a miss overwrites what is in the cache.
FillCache_BySet(p) ==
    /\ Goto(p, "data_read", "have")
    /\ cache' = self[p]
    /\ UNCHANGED <<db, lock, self, dirty, asked, op, incrs, done, drift>>

\* write_things_to_cache: an add, whose errors are logged and forgotten.
FillCache(p) ==
    /\ Goto(p, "data_read", "have")
    /\ \/ /\ cache' = IF cache = NoThing THEN self[p] ELSE cache
          /\ UNCHANGED amiss
       \/ /\ "fill" \in Faults /\ UNCHANGED cache
          /\ amiss' = (amiss \/ cache = NoThing)
    /\ UNCHANGED <<db, lock, self, dirty, asked, op, incrs, done, ahead, behind>>

-----------------------------------------------------------------------------
\* Working on the object.

\* DataThing.__setattr__: dirty only if the value differs from the one in hand.
SetProp(p, q, v) ==
    /\ pc[p] = "have"
    /\ self[p].vals[q] # v
    /\ self' = [self EXCEPT ![p].vals[q] = v]
    /\ dirty' = [dirty EXCEPT ![p] = @ \cup {q}]
    /\ asked' = [asked EXCEPT ![p][q] = v]
    /\ UNCHANGED <<db, cache, lock, op, pc, incrs, done, drift>>

\* The request is over, or the object is dropped.
Forget(p) ==
    /\ pc' = [pc EXCEPT ![p] = "idle"]
    /\ self' = [self EXCEPT ![p] = NoThing]
    /\ dirty' = [dirty EXCEPT ![p] = {}]
    /\ asked' = [asked EXCEPT ![p] = Nothing]
    /\ op' = [op EXCEPT ![p] = Commit]

\* Requests end, also because the lock's timeout is over.
EndRequest(p) ==
    /\ pc[p] = "have"
    /\ Forget(p)
    /\ UNCHANGED <<db, cache, lock, incrs, done, drift>>

-----------------------------------------------------------------------------
\* _commit and _incr: both under the thing's lock, both start from the cache.

StartCommit(p) ==
    /\ lock = NoOwner /\ lock' = p
    /\ Goto(p, "have", "locked")
    /\ op' = [op EXCEPT ![p] = Commit]
    /\ UNCHANGED <<db, cache, self, dirty, asked, incrs, done, drift>>

\* _incr asserts that nothing is dirty.
StartIncr(p, c, amt) ==
    /\ dirty[p] = {} /\ incrs < MaxIncrs
    /\ lock = NoOwner /\ lock' = p
    /\ Goto(p, "have", "locked")
    /\ op' = [op EXCEPT ![p] = [on |-> c, amt |-> amt]]
    /\ incrs' = incrs + 1
    /\ UNCHANGED <<db, cache, self, dirty, asked, done, drift>>

\* update_from_cache: take the cached object, apply our changes to it again,
\* and forget the ones it already has.  On a miss, go on with what is in hand.
Merged(p) ==
    [cache EXCEPT !.vals = [q \in Props |-> IF q \in dirty[p] THEN self[p].vals[q] ELSE @[q]]]

\* Mutant: the object in hand is not refreshed.
UpdateFromCache_Skipped(p) ==
    /\ Goto(p, "locked", "merged")
    /\ UNCHANGED <<db, cache, lock, self, dirty, asked, op, incrs, done, drift>>

\* Mutant: the changes are not applied again to the cached object.
UpdateFromCache_Drops(p) ==
    /\ Goto(p, "locked", "merged")
    /\ self' = [self EXCEPT ![p] = IF cache = NoThing THEN @ ELSE cache]
    /\ UNCHANGED <<db, cache, lock, dirty, asked, op, incrs, done, drift>>

UpdateFromCache(p) ==
    /\ Goto(p, "locked", "merged")
    /\ IF cache = NoThing
       THEN UNCHANGED <<self, dirty>>
       ELSE /\ self' = [self EXCEPT ![p] = Merged(p)]
            /\ dirty' = [dirty EXCEPT ![p] = {q \in @ : self[p].vals[q] # cache.vals[q]}]
    /\ UNCHANGED <<db, cache, lock, asked, op, incrs, done, drift>>

\* _commit: nothing is dirty any more.
NothingToCommit(p) ==
    /\ op[p] = Commit /\ dirty[p] = {}
    /\ Goto(p, "merged", "leaving")
    /\ UNCHANGED <<db, cache, lock, self, dirty, asked, op, incrs, done, drift>>

\* _commit: one transaction writes the changed properties only.
CommitChanges(p) ==
    /\ op[p] = Commit /\ dirty[p] # {}
    /\ Goto(p, "merged", "written")
    /\ db' = [db EXCEPT !.vals =
                [q \in Props |-> IF q \in dirty[p] THEN self[p].vals[q] ELSE @[q]]]
    /\ dirty' = [dirty EXCEPT ![p] = {}]
    /\ behind' = behind \ dirty[p]
    /\ UNCHANGED <<cache, lock, self, asked, op, incrs, done, ahead, amiss>>

\* Mutant: the base counter is left out of the cached object.
CacheCommitted_Partly(p) ==
    /\ Goto(p, "written", "leaving")
    /\ cache' = [self[p] EXCEPT !.ups = NoRow]
    /\ UNCHANGED <<db, lock, self, dirty, asked, op, incrs, done, drift>>

\* _commit: then the whole object goes to the cache.
CacheCommitted(p) ==
    /\ Goto(p, "written", "leaving")
    /\ cache' = self[p]
    /\ UNCHANGED <<db, lock, self, dirty, asked, op, incrs, done, drift>>

\* _incr: the object in hand is incremented, the SQL statement is executed but
\* not committed (nobody sees it yet), and the object goes to the cache.
Incremented(p) == [self[p] EXCEPT ![op[p].on] = Read(self[p], op[p].on) + op[p].amt]

CacheIncremented(p) ==
    /\ op[p] # Commit
    /\ Goto(p, "merged", "cached")
    /\ self' = [self EXCEPT ![p] = Incremented(p)]
    /\ cache' = Incremented(p)
    /\ UNCHANGED <<db, lock, dirty, asked, op, incrs, done, drift>>

\* Mutant: a data counter is always incremented in SQL.
CounterAfter_NoDefault(p) ==
    LET c == op[p].on IN IF db[c] = NoRow THEN NoRow ELSE db[c] + op[p].amt

\* The value after the increment in SQL: a base counter is incremented; a data
\* counter is set if the object in hand had the default, otherwise its row is
\* incremented, if there is one.
CounterAfter(p) ==
    LET c == op[p].on
        amt == op[p].amt
    IN  IF c = "karma" /\ self[p].karma - amt = 0 THEN self[p].karma
        ELSE IF db[c] = NoRow THEN NoRow ELSE db[c] + amt

\* _incr: COMMIT.
CommitIncrement(p) ==
    /\ Goto(p, "cached", "leaving")
    /\ db' = [db EXCEPT ![op[p].on] = CounterAfter(p)]
    /\ done' = [done EXCEPT ![op[p].on] = @ + op[p].amt]
    /\ UNCHANGED <<cache, lock, self, dirty, asked, op, incrs, drift>>

\* The `with` block of the lock is over.
Release(p) ==
    /\ Goto(p, "leaving", "have")
    /\ lock' = IF lock = p THEN NoOwner ELSE lock
    /\ asked' = [asked EXCEPT ![p] = Nothing]
    /\ UNCHANGED <<db, cache, self, dirty, op, incrs, done, drift>>

-----------------------------------------------------------------------------
\* What may go wrong.  An exception leaves the `with` block and ends the request.

Raise(p) ==
    /\ lock' = IF lock = p THEN NoOwner ELSE lock
    /\ Forget(p)

\* A statement of _commit or _incr fails: nothing was written.
StatementFails(p) ==
    /\ "sql" \in Faults /\ pc[p] = "merged" /\ (op[p] # Commit \/ dirty[p] # {})
    /\ Raise(p)
    /\ UNCHANGED <<db, cache, incrs, done, drift>>

\* p's increment of ups, if that is what it is at.
UpsBy(p) == IF op[p].on = "ups" THEN op[p].amt ELSE 0

Asked(p) == {q \in Props : asked[p][q] # Unasked}

\* COMMIT is answered with an error, though PostgreSQL may have applied it.  A
\* creation or _commit that was applied is in the database already ("created",
\* "written") and does not get as far as the cache; _incr has written the cache.
CommitFails(p) ==
    /\ "commit" \in Faults
    /\ \/ /\ pc[p] = "merged" /\ op[p] = Commit /\ dirty[p] # {}
          /\ UNCHANGED <<db, ahead, behind>>
       \/ /\ pc[p] \in {"created", "written"}
          /\ behind' = behind \cup Asked(p)
          /\ UNCHANGED <<db, ahead>>
       \/ /\ pc[p] = "cached"
          /\ \/ ahead' = ahead + UpsBy(p) /\ UNCHANGED db
             \/ db' = [db EXCEPT ![op[p].on] = CounterAfter(p)] /\ UNCHANGED ahead
          /\ UNCHANGED behind
    /\ Raise(p)
    /\ UNCHANGED <<cache, incrs, done, amiss>>

\* A write of the whole object fails, though memcached may have done it.  In
\* _incr the transaction is rolled back.
CacheWriteFails(p) ==
    /\ "cache" \in Faults
    /\ \/ /\ pc[p] \in {"created", "written"}
          /\ \/ UNCHANGED cache /\ behind' = behind \cup Asked(p)
             \/ cache' = self[p] /\ UNCHANGED behind
          /\ UNCHANGED ahead
       \/ /\ pc[p] = "merged" /\ op[p] # Commit
          /\ \/ UNCHANGED <<cache, ahead>>
             \/ cache' = Incremented(p) /\ ahead' = ahead + UpsBy(p)
          /\ UNCHANGED behind
    /\ Raise(p)
    /\ UNCHANGED <<db, incrs, done, amiss>>

\* The next lookup reads the database, and the drift is over; but whoever has
\* the object in hand goes on with it.
Evict ==
    /\ "evict" \in Faults /\ cache # NoThing
    /\ cache' = NoThing
    /\ ahead' = 0 /\ behind' = {}
    /\ amiss' = (amiss \/ \E p \in Procs : pc[p] # "idle")
    /\ UNCHANGED <<db, lock, self, dirty, asked, op, pc, incrs, done>>

\* A process dies and another one takes its place; its transaction is rolled back.
Crash(p) ==
    /\ "crash" \in Faults /\ pc[p] # "idle"
    /\ lock' = IF lock = p THEN Orphan ELSE lock
    /\ ahead' = IF pc[p] = "cached" THEN ahead + UpsBy(p) ELSE ahead
    /\ behind' = IF pc[p] = "written" THEN behind \cup Asked(p) ELSE behind
    /\ Forget(p)
    /\ UNCHANGED <<db, cache, incrs, done, amiss>>

\* The TTL of the lock ends.
LockExpires ==
    /\ lock = Orphan \/ ("expire" \in Faults /\ lock \in Procs)
    /\ lock' = NoOwner
    /\ amiss' = (amiss \/ lock # Orphan)
    /\ UNCHANGED <<db, cache, self, dirty, asked, op, pc, incrs, done, ahead, behind>>

-----------------------------------------------------------------------------

LookUp(p) == LookUpCached(p) \/ ReadBase(p) \/ ReadData(p) \/ FillCache(p)

Write(p) ==
    \/ Create(p) \/ PublishNew(p)
    \/ \E q \in Props, v \in Vals : SetProp(p, q, v)
    \/ StartCommit(p) \/ \E c \in Counters, amt \in {-1, 1} : StartIncr(p, c, amt)
    \/ UpdateFromCache(p) \/ NothingToCommit(p) \/ CommitChanges(p) \/ CacheCommitted(p)
    \/ CacheIncremented(p) \/ CommitIncrement(p) \/ Release(p) \/ EndRequest(p)

Fault(p) == StatementFails(p) \/ CommitFails(p) \/ CacheWriteFails(p) \/ Crash(p)

Next == Evict \/ LockExpires \/ \E p \in Procs : LookUp(p) \/ Write(p) \/ Fault(p)

Spec == Init /\ [][Next]_vars

-----------------------------------------------------------------------------

TypeOK ==
    /\ db \in Thing \cup {NoThing}
    /\ cache \in Thing \cup {NoThing}
    /\ lock \in Procs \cup {NoOwner, Orphan}
    /\ self \in [Procs -> Thing \cup {NoThing}]
    /\ dirty \in [Procs -> SUBSET Props]
    /\ asked \in [Procs -> [Props -> Vals \cup {Unasked}]]
    /\ op \in [Procs -> Ops]
    /\ pc \in [Procs -> {"idle", "created", "base_read", "data_read", "have",
                         "locked", "merged", "written", "cached", "leaving"}]
    /\ incrs \in Nat
    /\ done \in [Counters -> Int]
    /\ ahead \in Int /\ behind \subseteq Props /\ amiss \in BOOLEAN

\* "We want to keep a perfectly consistent copy of the thing in cache"
\* (thing.py:288): while nobody is between the database write and the cache
\* write, the cached object, if there is one, is what the database holds.
CacheCoherent ==
    (\A p \in Procs : pc[p] \notin {"written", "cached", "created"})
        => cache \in {NoThing, db}

\* When _commit returns, each property its caller set has the caller's value
\* in the database, also the ones it left out because the cached object had
\* them already (thing.py:274 applies the changes again, :336 returns).
CommitLands ==
    \A p \in Procs : pc[p] = "leaving" =>
        \A q \in Props : asked[p][q] \in {Unasked, db.vals[q]}

\* No increment that returned is lost, or counted twice, in the data table,
\* also while the data property has no row yet (thing.py:654-655: "assume the
\* value was never actually set so it's not safe to incr").
KarmaExact == db # NoThing => Read(db, "karma") = done["karma"]

\* Only a failure between the two writes parts the cache from the database, by
\* as much as failed, and what other processes commit afterwards neither adds to
\* the difference nor hides it: ups differs by the increments memcached kept and
\* the database did not, a plain property only if its commit did not get as far as
\* the cache.  An eviction ends it ("to ensure we recover quickly TTLs should be set
\* as low as possible", thing.py:299).
DriftIsKnown ==
    /\ ~amiss /\ cache # NoThing
    /\ \A p \in Procs : pc[p] \notin {"written", "cached", "created"}
    => /\ cache.ups = db.ups + ahead
       /\ \A q \in Props : cache.vals[q] = db.vals[q] \/ q \in behind

\* What a caller can tell of its call: started from the lock to the COMMIT, then
\* answered with the object it has in hand.
CallOf(p) ==
    CASE pc[p] \in {"locked", "merged", "cached"} -> [at |-> "started", op |-> op[p]]
      [] pc[p] \in {"written", "leaving"} ->
            [at |-> "answered", vals |-> self[p].vals,
             count |-> [c \in Counters |-> Read(self[p], c)]]
      [] OTHER -> [at |-> "ready"]

Abstract == INSTANCE AtomicThing WITH
    Initial <- Fresh,
    vals <- (IF db = NoThing THEN Fresh ELSE db.vals),
    count <- [c \in Counters |-> IF db = NoThing THEN 0 ELSE Read(db, c)],
    call <- [p \in Procs |-> CallOf(p)]

\* Each commit and each increment takes effect at once, at one moment under its
\* lock, on the one value in the database: a commit on what its caller set and
\* nothing else, though it writes what differs from a cached copy; and the
\* caller goes on with the thing as it then is.
ImplementsThing == Abstract!AtomicSpec
=============================================================================
