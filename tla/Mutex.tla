------------------------------- MODULE Mutex -------------------------------
(***************************************************************************)
(* What r2/lib/lock.py promises its callers (class docstring, lock.py:47): *)
(* a global lock per key, held by at most one thread at a time.  Nothing   *)
(* is said of memcached, of expiry or of how a thread waits.               *)
(***************************************************************************)
CONSTANTS Threads, Keys, NoOwner

VARIABLE holder    \* holder[k]: the thread that holds k, or NoOwner

MutexTypeOK == holder \in [Keys -> Threads \cup {NoOwner}]

MutexInit == holder = [k \in Keys |-> NoOwner]

\* A free key is taken by one thread.
Take(t, k) ==
    /\ holder[k] = NoOwner
    /\ holder' = [holder EXCEPT ![k] = t]

\* Only its holder lets a key go; a process that dies lets go of all it held.
LetGo(t) ==
    \E K \in SUBSET {k \in Keys : holder[k] = t} :
        holder' = [k \in Keys |-> IF k \in K THEN NoOwner ELSE holder[k]]

MutexNext == \E t \in Threads : LetGo(t) \/ \E k \in Keys : Take(t, k)

MutexSpec == MutexInit /\ [][MutexNext]_holder
=============================================================================
