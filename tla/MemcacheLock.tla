---------------------------- MODULE MemcacheLock ----------------------------
(***************************************************************************)
(* The lock every read-modify-write of the site takes: r2/lib/lock.py.     *)
(*                                                                         *)
(* A lock is a memcached entry made with `add` and a TTL; its value is the *)
(* nonce (host, pid, traceback) of the thread that added it.  Web workers  *)
(* and consumers are single-threaded processes, so a nonce names a thread  *)
(* and the model writes the thread itself.  A thread enters and leaves     *)
(* locks in `with` blocks: frames[t] is its stack of MemcacheLock objects, *)
(* the innermost first, and locks[t] the thread-local set of keys that     *)
(* makes a nested acquire of the same key a no-op.                         *)
(***************************************************************************)
EXTENDS Naturals, Sequences

CONSTANTS
    Threads,        \* processes that take locks
    Keys,           \* lock names
    NoOwner,        \* no entry in memcached
    MaxNest,        \* bound: depth of nested `with` blocks
    MayOutlast,     \* TRUE: a critical section may outlast the 30 s TTL
    MayCrash,       \* TRUE: a process may die anywhere
    AddErrors,      \* TRUE: memcached may fail a call made by acquire()
    ReleaseErrors   \* TRUE: memcached may fail a call made by release()

ASSUME ThreadsAssumption == NoOwner \notin Threads

VARIABLES
    store,          \* store[k]: the nonce memcached holds under k
    locks,          \* locks[t]: keys the thread owns (lock.py `locks.locks`)
    frames,         \* frames[t]: MemcacheLock objects entered, innermost first
    want,           \* want[t]: the key an acquire is waiting for
    pc,             \* where the thread is
    failing         \* threads an exception is unwinding

vars == <<store, locks, frames, want, pc, failing>>

NoKey == NoOwner    \* the thread waits for no lock

Frame == [key : Keys, owns : BOOLEAN]

\* The frame of a block that took its key, not one nested in such a block.
OwningFrame(k) == [key |-> k, owns |-> TRUE]

HasOwning(s, k) == \E i \in 1 .. Len(s) : s[i] = OwningFrame(k)

\* The keys t is inside an owning block of.
Owned(t) == {k \in Keys : HasOwning(frames[t], k)}

Init ==
    /\ store = [k \in Keys |-> NoOwner]
    /\ locks = [t \in Threads |-> {}]
    /\ frames = [t \in Threads |-> <<>>]
    /\ want = [t \in Threads |-> NoKey]
    /\ pc = [t \in Threads |-> "running"]
    /\ failing = {}

Push(t, f) == frames' = [frames EXCEPT ![t] = <<f>> \o @]

Pop(t) == frames' = [frames EXCEPT ![t] = Tail(@)]

\* acquire() returns with the lock owned (lock.py:120-125).
Own(t) ==
    /\ pc' = [pc EXCEPT ![t] = "running"]
    /\ locks' = [locks EXCEPT ![t] = @ \cup {want[t]}]
    /\ Push(t, OwningFrame(want[t]))
    /\ want' = [want EXCEPT ![t] = NoKey]

\* raise TimeoutExpired out of acquire(): the frame is never entered.
Raise(t) ==
    /\ pc' = [pc EXCEPT ![t] = "running"]
    /\ failing' = failing \cup {t}
    /\ want' = [want EXCEPT ![t] = NoKey]

-----------------------------------------------------------------------------

\* Mutant: a nested acquire believes it owns the lock.
Reenter_Owning(t, k) ==
    /\ pc[t] = "running" /\ t \notin failing /\ Len(frames[t]) < MaxNest
    /\ k \in locks[t]
    /\ Push(t, OwningFrame(k))
    /\ UNCHANGED <<store, locks, want, pc, failing>>

\* A `with` on a key this thread already owns: have_lock, but not owns_lock.
Reenter(t, k) ==
    /\ pc[t] = "running" /\ t \notin failing /\ Len(frames[t]) < MaxNest
    /\ k \in locks[t]
    /\ Push(t, [key |-> k, owns |-> FALSE])
    /\ UNCHANGED <<store, locks, want, pc, failing>>

\* A `with` on any other key starts the add loop.
StartAcquire(t, k) ==
    /\ pc[t] = "running" /\ t \notin failing /\ Len(frames[t]) < MaxNest
    /\ k \notin locks[t]
    /\ pc' = [pc EXCEPT ![t] = "adding"]
    /\ want' = [want EXCEPT ![t] = k]
    /\ UNCHANGED <<store, locks, frames, failing>>

\* Mutant: key and nonce swapped in the call of add.
AddSucceeds_Swapped(t) ==
    /\ pc[t] = "adding" /\ store[want[t]] = NoOwner
    /\ store' = [store EXCEPT ![want[t]] = want[t]]
    /\ Own(t)
    /\ UNCHANGED failing

AddSucceeds(t) ==
    /\ pc[t] = "adding" /\ store[want[t]] = NoOwner
    /\ store' = [store EXCEPT ![want[t]] = t]
    /\ Own(t)
    /\ UNCHANGED failing

\* Mutant: the timeout is never looked at.
TimeOut_Never(t) == FALSE /\ UNCHANGED vars

\* The add found an entry and the caller's patience is over; while it is not,
\* the thread sleeps and tries again, which changes nothing.
TimeOut(t) ==
    /\ pc[t] = "adding" /\ store[want[t]] # NoOwner
    /\ Raise(t)
    /\ UNCHANGED <<store, locks, frames>>

\* memcached answers the add with an error, whether or not it was applied.
AddErrs(t) ==
    /\ AddErrors /\ pc[t] = "adding"
    /\ pc' = [pc EXCEPT ![t] = "checking"]
    /\ \/ store' = store
       \/ store[want[t]] = NoOwner /\ store' = [store EXCEPT ![want[t]] = t]
    /\ UNCHANGED <<locks, frames, want, failing>>

\* Mutant: an error of the add counts as success, with no read back.
CheckFinds_Unread(t) ==
    /\ pc[t] = "checking"
    /\ Own(t)
    /\ UNCHANGED <<store, failing>>

\* The except branch reads the key back: ours means the add was applied.
CheckFinds(t) ==
    /\ pc[t] = "checking" /\ store[want[t]] = t
    /\ Own(t)
    /\ UNCHANGED <<store, failing>>

CheckFindsOther(t) ==
    /\ pc[t] = "checking" /\ store[want[t]] # t
    /\ pc' = [pc EXCEPT ![t] = "adding"]
    /\ UNCHANGED <<store, locks, frames, want, failing>>

\* Not ours, and no patience left; or the read fails too, and its error leaves
\* acquire() whatever the add has done.
GiveUpAfterError(t) ==
    /\ pc[t] = "checking"
    /\ AddErrors \/ store[want[t]] # t
    /\ Raise(t)
    /\ UNCHANGED <<store, locks, frames>>

-----------------------------------------------------------------------------

Leaving(t) == pc[t] = "running" /\ frames[t] # <<>>

\* Mutant: a nested block releases what the outer one owns.
ExitNested_Releases(t) ==
    /\ Leaving(t) /\ ~Head(frames[t]).owns
    /\ store' = [store EXCEPT ![Head(frames[t]).key] = NoOwner]
    /\ Pop(t)
    /\ UNCHANGED <<locks, want, pc, failing>>

\* The frame of a nested acquire releases nothing.
ExitNested(t) ==
    /\ Leaving(t) /\ ~Head(frames[t]).owns
    /\ Pop(t)
    /\ UNCHANGED <<store, locks, want, pc, failing>>

\* release(), first half: does the entry still hold our nonce?
CheckRelease(t) ==
    /\ Leaving(t) /\ Head(frames[t]).owns
    /\ IF store[Head(frames[t]).key] = t
       THEN /\ pc' = [pc EXCEPT ![t] = "deleting"]
            /\ UNCHANGED <<locks, frames>>
       ELSE /\ locks' = [locks EXCEPT ![t] = @ \ {Head(frames[t]).key}]
            /\ Pop(t)
            /\ UNCHANGED pc
    /\ UNCHANGED <<store, want, failing>>

\* release(), second half: delete the entry, whatever it holds by now.
Delete(t) ==
    /\ pc[t] = "deleting"
    /\ store' = [store EXCEPT ![Head(frames[t]).key] = NoOwner]
    /\ locks' = [locks EXCEPT ![t] = @ \ {Head(frames[t]).key}]
    /\ Pop(t)
    /\ pc' = [pc EXCEPT ![t] = "running"]
    /\ UNCHANGED <<want, failing>>

\* A memcached error in release() (the get or the delete, applied or not)
\* leaves before lock.py:136: the block is over, the thread-local set is not
\* told.
ReleaseErrs(t) ==
    /\ ReleaseErrors
    /\ (Leaving(t) /\ Head(frames[t]).owns) \/ pc[t] = "deleting"
    /\ \/ UNCHANGED store
       \/ /\ pc[t] = "deleting"
          /\ store' = [store EXCEPT ![Head(frames[t]).key] = NoOwner]
    /\ Pop(t)
    /\ Raise(t)
    /\ UNCHANGED locks

\* The exception leaves the outermost block and the request ends.
EndRequest(t) ==
    /\ t \in failing /\ pc[t] = "running" /\ frames[t] = <<>>
    /\ failing' = failing \ {t}
    /\ UNCHANGED <<store, locks, frames, want, pc>>

\* The process dies; its entries stay in memcached until their TTL is over.
Crash(t) ==
    /\ MayCrash /\ pc[t] # "dead"
    /\ pc' = [pc EXCEPT ![t] = "dead"]
    /\ locks' = [locks EXCEPT ![t] = {}]
    /\ frames' = [frames EXCEPT ![t] = <<>>]
    /\ failing' = failing \ {t}
    /\ want' = [want EXCEPT ![t] = NoKey]
    /\ UNCHANGED store

\* The entry of k belongs to a block of t, or t is finding out whether it does.
InUse(t, k) ==
    \/ k \in Owned(t)
    \/ pc[t] = "checking" /\ want[t] = k

\* The TTL of an entry ends.  An entry in use expires only where critical
\* sections may outlast the TTL.
Expire(k) ==
    /\ store[k] # NoOwner
    /\ MayOutlast \/ ~InUse(store[k], k)
    /\ store' = [store EXCEPT ![k] = NoOwner]
    /\ UNCHANGED <<locks, frames, want, pc, failing>>

Exit(t) == ExitNested(t) \/ CheckRelease(t) \/ Delete(t) \/ EndRequest(t)

Acquire(t) == AddSucceeds(t) \/ TimeOut(t) \/ CheckFinds(t) \/ CheckFindsOther(t)

Next ==
    \/ \E t \in Threads :
          \/ \E k \in Keys : Reenter(t, k) \/ StartAcquire(t, k)
          \/ Acquire(t) \/ AddErrs(t) \/ GiveUpAfterError(t)
          \/ Exit(t) \/ ReleaseErrs(t) \/ Crash(t)
    \/ \E k \in Keys : Expire(k)

Spec == Init /\ [][Next]_vars

\* Every live process keeps executing its code, the body of every block ends
\* (strong fairness at each depth: a body may take and leave other locks
\* first), the clock an acquire() looks at keeps running, and memcached keeps
\* its TTLs.  Nobody owes anybody an error or a crash.
Fairness ==
    /\ \A t \in Threads :
          /\ WF_vars(Acquire(t)) /\ SF_vars(GiveUpAfterError(t)) /\ WF_vars(Exit(t))
          /\ \A d \in 1 .. MaxNest : SF_vars(Len(frames[t]) = d /\ Exit(t))
    /\ \A k \in Keys : SF_vars(Expire(k))

FairSpec == Spec /\ Fairness

-----------------------------------------------------------------------------

TypeOK ==
    /\ store \in [Keys -> Threads \cup {NoOwner}]
    /\ locks \in [Threads -> SUBSET Keys]
    /\ frames \in [Threads -> Seq(Frame)]
    /\ want \in [Threads -> Keys \cup {NoKey}]
    /\ pc \in [Threads -> {"running", "adding", "checking", "deleting", "dead"}]
    /\ failing \in SUBSET Threads

\* Two threads are never both inside an owning block of one key.
MutualExclusion == \A t, u \in Threads : t # u => Owned(t) \cap Owned(u) = {}

\* The thread-local set and the stack of blocks agree: a key has at most one
\* owning block on a thread's stack, and it is in the thread's set as long as
\* the block lasts, so that the release finds it (lock.py:136
\* `self.locks.remove`) and a nested acquire stays a no-op (lock.py:79).
OwnersOnStack ==
    \A t \in Threads :
        /\ \A i, j \in 1 .. Len(frames[t]) :
              frames[t][i] = frames[t][j] /\ frames[t][i].owns => i = j
        /\ Owned(t) \subseteq locks[t]

\* release() deletes only the entry the releasing thread made: the comment at
\* lock.py:130, "verify that our lock did not expire before we could release
\* it".
DeletesOwnEntry ==
    [][\A t \in Threads :
          Delete(t) => store[Head(frames[t]).key] \in {t, NoOwner}]_vars

\* Whoever waits for a lock stops waiting, with the lock or with
\* TimeoutExpired: two threads that take two keys in opposite orders do not
\* wait for each other forever.
WaitEnds == \A t \in Threads : pc[t] \in {"adding", "checking"} ~> pc[t] \in {"running", "dead"}

-----------------------------------------------------------------------------

\* The refinement: a key's holder is the thread inside an owning block of it.
HolderOf(k) ==
    IF \E t \in Threads : k \in Owned(t)
    THEN CHOOSE t \in Threads : k \in Owned(t)
    ELSE NoOwner

Abstract == INSTANCE Mutex WITH holder <- [k \in Keys |-> HolderOf(k)]

\* The lock implements the mutex, while no critical section outlasts its TTL.
ImplementsMutex == Abstract!MutexSpec
=============================================================================
