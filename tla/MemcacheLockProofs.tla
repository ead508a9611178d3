------------------------- MODULE MemcacheLockProofs -------------------------
(***************************************************************************)
(* Proofs about MemcacheLock, for any number of threads and keys, any      *)
(* nesting, crashes and errors of acquire() and release() included.        *)
(*                                                                         *)
(* Mutual exclusion rests on one fact: the key of an owning block is under *)
(* its thread's nonce in memcached.  A step can break it only by removing  *)
(* or overwriting the entry of a block that lasts, which is what expiry    *)
(* would do, or a second owning block of one key on one stack: that there  *)
(* is none is an invariant of its own, and needs no assumption.            *)
(***************************************************************************)
EXTENDS MemcacheLock, SequenceTheorems, TLAPS

\* A release under way is that of a block, and a wait is for a key: enough for
\* the types alone.
DeletingInBlock == \A t \in Threads : pc[t] = "deleting" => frames[t] # <<>>
WaitsForKey == \A t \in Threads : pc[t] \in {"adding", "checking"} => want[t] \in Keys

TypeInv == TypeOK /\ DeletingInBlock /\ WaitsForKey

\* No two owning blocks of one key.
OneOwning(s) == \A i, j \in 1 .. Len(s) : s[i] = s[j] /\ s[i].owns => i = j

\* What holds of each thread, whatever may fail.
ThreadInv(t) ==
    /\ OneOwning(frames[t])
    /\ Owned(t) \subseteq locks[t]
    /\ pc[t] \in {"adding", "checking"} => want[t] \notin locks[t]
    /\ pc[t] = "deleting" => Head(frames[t]).owns

StackInv == \A t \in Threads : ThreadInv(t)

\* The entry of an owning block's key is its thread's.
OwnersEntry == \A t \in Threads : \A k \in Owned(t) : store[k] = t

LockInv == TypeInv /\ StackInv /\ OwnersEntry

-----------------------------------------------------------------------------

\* Entering a block puts its frame in front and moves the others down by one.
LEMMA PushProperties ==
    ASSUME NEW s \in Seq(Frame), NEW f \in Frame
    PROVE  LET p == <<f>> \o s
           IN  /\ p \in Seq(Frame)
               /\ p # <<>>
               /\ Head(p) = f
               /\ Len(p) = Len(s) + 1
               /\ \A i \in 1 .. Len(s) : p[i + 1] = s[i]
               /\ \A i \in 2 .. Len(p) : p[i] = s[i - 1]
<1>1. <<f>> \in Seq(Frame) /\ Len(<<f>>) = 1
  OBVIOUS
<1> QED
  BY <1>1, ConcatProperties

\* Leaving a block removes its frame and moves the others up by one.
LEMMA PopProperties ==
    ASSUME NEW s \in Seq(Frame), s # <<>>
    PROVE  /\ Head(s) \in Frame
           /\ Head(s) = s[1]
           /\ Tail(s) \in Seq(Frame)
           /\ Len(s) \in Nat /\ Len(s) >= 1
           /\ Len(Tail(s)) = Len(s) - 1
           /\ \A i \in 1 .. Len(Tail(s)) : Tail(s)[i] = s[i + 1]
           /\ \A i \in 2 .. Len(s) : Tail(s)[i - 1] = s[i]
  BY HeadTailProperties

\* The owning blocks after entering a block.
LEMMA PushOwning ==
    ASSUME NEW s \in Seq(Frame), NEW f \in Frame
    PROVE  /\ \A k : HasOwning(<<f>> \o s, k) <=> HasOwning(s, k) \/ f = OwningFrame(k)
           /\ OneOwning(s) /\ (f.owns => ~HasOwning(s, f.key)) => OneOwning(<<f>> \o s)
<1> DEFINE p == <<f>> \o s
<1>1. /\ p \in Seq(Frame) /\ Len(p) = Len(s) + 1 /\ p[1] = f
      /\ \A i \in 1 .. Len(s) : p[i + 1] = s[i]
      /\ \A i \in 2 .. Len(p) : p[i] = s[i - 1]
      /\ Len(s) \in Nat
  BY PushProperties, HeadTailProperties
<1> HIDE DEF p
<1>2. ASSUME NEW k PROVE HasOwning(p, k) <=> HasOwning(s, k) \/ f = OwningFrame(k)
  <2>1. ASSUME HasOwning(s, k) PROVE HasOwning(p, k)
    <3>1. PICK i \in 1 .. Len(s) : s[i] = OwningFrame(k)
      BY <2>1 DEF HasOwning
    <3>2. i + 1 \in 1 .. Len(p) /\ p[i + 1] = OwningFrame(k)
      BY <1>1, <3>1
    <3> QED
      BY <3>2 DEF HasOwning
  <2>2. ASSUME f = OwningFrame(k) PROVE HasOwning(p, k)
    <3>1. 1 \in 1 .. Len(p)
      BY <1>1
    <3> QED
      BY <1>1, <2>2, <3>1 DEF HasOwning
  <2>3. ASSUME HasOwning(p, k), f # OwningFrame(k) PROVE HasOwning(s, k)
    <3>1. PICK i \in 1 .. Len(p) : p[i] = OwningFrame(k)
      BY <2>3 DEF HasOwning
    <3>2. i \in 2 .. Len(p)
      BY <1>1, <2>3, <3>1
    <3>3. i - 1 \in 1 .. Len(s) /\ s[i - 1] = OwningFrame(k)
      BY <1>1, <3>1, <3>2
    <3> QED
      BY <3>3 DEF HasOwning
  <2> QED
    BY <2>1, <2>2, <2>3
<1>3. ASSUME OneOwning(s), f.owns => ~HasOwning(s, f.key) PROVE OneOwning(p)
  <2> SUFFICES ASSUME NEW i \in 1 .. Len(p), NEW j \in 1 .. Len(p),
                      p[i] = p[j], p[i].owns, i < j
               PROVE  FALSE
    BY <1>1 DEF OneOwning
  <2>1. j \in 2 .. Len(p) /\ p[j] = s[j - 1] /\ j - 1 \in 1 .. Len(s)
    BY <1>1
  <2>2. CASE i = 1
    <3>1. f = OwningFrame(f.key)
      BY <1>1, <2>2 DEF Frame, OwningFrame
    <3>2. s[j - 1] = f /\ f.owns
      BY <1>1, <2>1, <2>2
    <3> QED
      BY <1>3, <2>1, <3>1, <3>2 DEF HasOwning
  <2>3. CASE i # 1
    <3>1. i - 1 \in 1 .. Len(s) /\ p[i] = s[i - 1] /\ i - 1 # j - 1
      BY <1>1, <2>3
    <3> QED
      BY <1>3, <2>1, <3>1 DEF OneOwning
  <2> QED
    BY <2>2, <2>3
<1> QED
  BY <1>2, <1>3 DEF p

\* The owning blocks after leaving one.
LEMMA PopOwning ==
    ASSUME NEW s \in Seq(Frame), s # <<>>, OneOwning(s)
    PROVE  /\ \A k : HasOwning(Tail(s), k) <=> HasOwning(s, k) /\ Head(s) # OwningFrame(k)
           /\ OneOwning(Tail(s))
<1> DEFINE p == Tail(s)
<1>1. /\ Len(s) \in Nat /\ Len(s) >= 1 /\ Len(p) = Len(s) - 1 /\ Head(s) = s[1]
      /\ \A i \in 1 .. Len(p) : p[i] = s[i + 1]
      /\ \A i \in 2 .. Len(s) : p[i - 1] = s[i]
  BY PopProperties
<1> HIDE DEF p
<1>2. ASSUME NEW k PROVE HasOwning(p, k) <=> HasOwning(s, k) /\ Head(s) # OwningFrame(k)
  <2>1. ASSUME HasOwning(p, k) PROVE HasOwning(s, k) /\ Head(s) # OwningFrame(k)
    <3>1. PICK i \in 1 .. Len(p) : p[i] = OwningFrame(k)
      BY <2>1 DEF HasOwning
    <3>2. i + 1 \in 1 .. Len(s) /\ s[i + 1] = OwningFrame(k) /\ 1 \in 1 .. Len(s) /\ i + 1 # 1
      BY <1>1, <3>1
    <3>3. s[i + 1].owns
      BY <3>2 DEF OwningFrame
    <3>4. s[1] # s[i + 1]
      BY <3>2, <3>3 DEF OneOwning
    <3> QED
      BY <1>1, <3>2, <3>4 DEF HasOwning
  <2>2. ASSUME HasOwning(s, k), Head(s) # OwningFrame(k) PROVE HasOwning(p, k)
    <3>1. PICK i \in 1 .. Len(s) : s[i] = OwningFrame(k)
      BY <2>2 DEF HasOwning
    <3>2. i \in 2 .. Len(s)
      BY <1>1, <2>2, <3>1
    <3>3. i - 1 \in 1 .. Len(p) /\ p[i - 1] = OwningFrame(k)
      BY <1>1, <3>1, <3>2
    <3> QED
      BY <3>3 DEF HasOwning
  <2> QED
    BY <2>1, <2>2
<1>3. OneOwning(p)
  <2> SUFFICES ASSUME NEW i \in 1 .. Len(p), NEW j \in 1 .. Len(p), p[i] = p[j], p[i].owns
               PROVE  i = j
    BY DEF OneOwning
  <2>1. i + 1 \in 1 .. Len(s) /\ j + 1 \in 1 .. Len(s) /\ s[i + 1] = p[i] /\ s[j + 1] = p[j]
    BY <1>1
  <2>2. i + 1 = j + 1
    BY <2>1 DEF OneOwning
  <2> QED
    BY <2>2
<1> QED
  BY <1>2, <1>3 DEF p

\* What entering a block does to the keys owned.
LEMMA PushOwned ==
    ASSUME TypeInv, NEW t \in Threads, NEW f \in Frame, Push(t, f)
    PROVE  /\ \A u \in Threads \ {t} : frames'[u] = frames[u] /\ Owned(u)' = Owned(u)
           /\ Owned(t)' = Owned(t) \cup {k \in Keys : f = OwningFrame(k)}
           /\ OneOwning(frames[t]) /\ (f.owns => f.key \notin Owned(t))
                => OneOwning(frames'[t])
<1>1. /\ frames'[t] = <<f>> \o frames[t] /\ frames[t] \in Seq(Frame)
      /\ \A u \in Threads \ {t} : frames'[u] = frames[u]
  BY DEF TypeInv, TypeOK, Push
<1>2. f.key \in Keys
  BY DEF Frame
<1> QED
  BY <1>1, <1>2, PushOwning DEF Owned

\* What leaving one does.
LEMMA PopOwned ==
    ASSUME TypeInv, NEW t \in Threads, frames[t] # <<>>, OneOwning(frames[t]), Pop(t)
    PROVE  /\ \A u \in Threads \ {t} : frames'[u] = frames[u] /\ Owned(u)' = Owned(u)
           /\ Owned(t)' = {k \in Owned(t) : Head(frames[t]) # OwningFrame(k)}
           /\ OneOwning(frames'[t])
<1>1. /\ frames'[t] = Tail(frames[t]) /\ frames[t] \in Seq(Frame)
      /\ \A u \in Threads \ {t} : frames'[u] = frames[u]
  BY DEF TypeInv, TypeOK, Pop
<1> QED
  BY <1>1, PopOwning DEF Owned

\* The block a thread is leaving, if it owns its key.
LEMMA HeadOwned ==
    ASSUME TypeInv, NEW t \in Threads, frames[t] # <<>>
    PROVE  /\ Head(frames[t]) \in Frame
           /\ Head(frames[t]).owns => /\ Head(frames[t]) = OwningFrame(Head(frames[t]).key)
                                      /\ Head(frames[t]).key \in Owned(t)
<1>1. /\ frames[t] \in Seq(Frame) /\ Head(frames[t]) \in Frame
      /\ Head(frames[t]) = frames[t][1] /\ 1 \in 1 .. Len(frames[t])
  BY PopProperties DEF TypeInv, TypeOK
<1>2. Head(frames[t]).owns => Head(frames[t]) = OwningFrame(Head(frames[t]).key)
  BY <1>1 DEF Frame, OwningFrame
<1>3. Head(frames[t]).key \in Keys
  BY <1>1 DEF Frame
<1> QED
  BY <1>1, <1>2, <1>3 DEF Owned, HasOwning

-----------------------------------------------------------------------------

\* The initial state satisfies the invariant.
LEMMA InitLockInv == Init => LockInv
<1> SUFFICES ASSUME Init PROVE LockInv
  OBVIOUS
<1>1. <<>> \in Seq(Frame) /\ \A k : ~HasOwning(<<>>, k)
  BY DEF HasOwning
<1>2. OneOwning(<<>>)
  BY DEF OneOwning
<1> QED
  BY <1>1, <1>2 DEF Init, LockInv, TypeInv, DeletingInBlock, WaitsForKey, TypeOK, StackInv,
                    ThreadInv, OwnersEntry, Owned

\* Every step keeps every variable in its type, whatever may fail.
LEMMA TypeStep == TypeInv /\ [Next]_vars => TypeInv'
<1> SUFFICES ASSUME TypeInv, [Next]_vars PROVE TypeInv'
  OBVIOUS
<1> USE DEF TypeInv, TypeOK, DeletingInBlock, WaitsForKey
<1>push. ASSUME NEW t \in Threads, NEW f \in Frame, Push(t, f)
         PROVE  /\ frames' \in [Threads -> Seq(Frame)]
                /\ \A u \in Threads : frames[u] # <<>> => frames'[u] # <<>>
  BY <1>push, PushProperties DEF Push
<1>pop. ASSUME NEW t \in Threads, frames[t] # <<>>, Pop(t)
        PROVE  /\ frames' \in [Threads -> Seq(Frame)]
               /\ \A u \in Threads \ {t} : frames'[u] = frames[u]
  BY <1>pop, PopProperties DEF Pop
<1>own. ASSUME NEW t \in Threads, Own(t), pc[t] \in {"adding", "checking"}
        PROVE  /\ frames' \in [Threads -> Seq(Frame)]
               /\ locks' \in [Threads -> SUBSET Keys]
               /\ pc' = [pc EXCEPT ![t] = "running"]
               /\ want' = [want EXCEPT ![t] = NoKey]
               /\ \A u \in Threads : frames[u] # <<>> => frames'[u] # <<>>
  <2>1. want[t] \in Keys /\ OwningFrame(want[t]) \in Frame
    BY <1>own DEF Frame, OwningFrame
  <2>2. Push(t, OwningFrame(want[t]))
    BY <1>own DEF Own
  <2>3. locks' \in [Threads -> SUBSET Keys]
    BY <1>own, <2>1 DEF Own
  <2> QED
    BY <1>own, <1>push, <2>1, <2>2, <2>3 DEF Own
<1>1. ASSUME NEW t \in Threads, NEW k \in Keys, Reenter(t, k) PROVE TypeInv'
  <2>1. [key |-> k, owns |-> FALSE] \in Frame
    BY DEF Frame
  <2> QED
    BY <1>1, <1>push, <2>1 DEF Reenter
<1>2. ASSUME NEW t \in Threads, NEW k \in Keys, StartAcquire(t, k) PROVE TypeInv'
  BY <1>2 DEF StartAcquire
<1>3. ASSUME NEW t \in Threads, AddSucceeds(t) PROVE TypeInv'
  BY <1>3, <1>own DEF AddSucceeds
<1>4. ASSUME NEW t \in Threads, TimeOut(t) PROVE TypeInv'
  BY <1>4 DEF TimeOut, Raise
<1>5. ASSUME NEW t \in Threads, CheckFinds(t) PROVE TypeInv'
  BY <1>5, <1>own DEF CheckFinds
<1>6. ASSUME NEW t \in Threads, CheckFindsOther(t) PROVE TypeInv'
  BY <1>6 DEF CheckFindsOther
<1>7. ASSUME NEW t \in Threads, AddErrs(t) PROVE TypeInv'
  <2>1. store' \in [Keys -> Threads \cup {NoOwner}]
    BY <1>7 DEF AddErrs
  <2> QED
    BY <1>7, <2>1 DEF AddErrs
<1>8. ASSUME NEW t \in Threads, GiveUpAfterError(t) PROVE TypeInv'
  BY <1>8 DEF GiveUpAfterError, Raise
<1>9. ASSUME NEW t \in Threads, ExitNested(t) PROVE TypeInv'
  BY <1>9, <1>pop DEF ExitNested, Leaving
<1>10. ASSUME NEW t \in Threads, CheckRelease(t) PROVE TypeInv'
  <2>1. CASE store[Head(frames[t]).key] = t
    BY <1>10, <2>1 DEF CheckRelease, Leaving
  <2>2. CASE store[Head(frames[t]).key] # t
    <3>1. frames[t] # <<>> /\ Pop(t)
      BY <1>10, <2>2 DEF CheckRelease, Leaving
    <3>2. /\ locks' = [locks EXCEPT ![t] = @ \ {Head(frames[t]).key}]
          /\ pc[t] = "running"
          /\ UNCHANGED <<store, want, pc, failing>>
      BY <1>10, <2>2 DEF CheckRelease, Leaving
    <3>3. locks' \in [Threads -> SUBSET Keys]
      BY <3>2
    <3> QED
      BY <3>1, <3>2, <3>3, <1>pop
  <2> QED
    BY <2>1, <2>2
<1>11. ASSUME NEW t \in Threads, Delete(t) PROVE TypeInv'
  BY <1>11, <1>pop DEF Delete
<1>12. ASSUME NEW t \in Threads, EndRequest(t) PROVE TypeInv'
  BY <1>12 DEF EndRequest
<1>13. ASSUME NEW t \in Threads, ReleaseErrs(t) PROVE TypeInv'
  <2>1. store' \in [Keys -> Threads \cup {NoOwner}]
    BY <1>13 DEF ReleaseErrs
  <2>2. frames[t] # <<>>
    BY <1>13 DEF ReleaseErrs, Leaving
  <2> QED
    BY <1>13, <2>1, <2>2, <1>pop DEF ReleaseErrs, Raise
<1>14. ASSUME NEW t \in Threads, Crash(t) PROVE TypeInv'
  <2>1. <<>> \in Seq(Frame)
    OBVIOUS
  <2> QED
    BY <1>14, <2>1 DEF Crash
<1>15. ASSUME NEW k \in Keys, Expire(k) PROVE TypeInv'
  BY <1>15 DEF Expire
<1>16. CASE UNCHANGED vars
  BY <1>16 DEF vars
<1> QED
  BY <1>1, <1>2, <1>3, <1>4, <1>5, <1>6, <1>7, <1>8, <1>9, <1>10, <1>11, <1>12,
     <1>13, <1>14, <1>15, <1>16 DEF Next, Acquire, Exit

\* Every variable stays in its type, with every fault allowed.
THEOREM TypeCorrect == Spec => []TypeOK
<1>1. Init => TypeInv
  BY InitLockInv DEF LockInv
<1> QED
  BY <1>1, TypeStep, PTL DEF Spec, TypeInv

-----------------------------------------------------------------------------

\* What a thread's step leaves of the other threads.
OthersKept(t) ==
    \A u \in Threads \ {t} :
        /\ frames'[u] = frames[u] /\ locks'[u] = locks[u]
        /\ want'[u] = want[u] /\ pc'[u] = pc[u]

LEMMA StepsAreLocal ==
    ASSUME TypeInv, NEW t \in Threads,
           \/ \E k \in Keys : Reenter(t, k) \/ StartAcquire(t, k)
           \/ Acquire(t) \/ AddErrs(t) \/ GiveUpAfterError(t)
           \/ Exit(t) \/ ReleaseErrs(t) \/ Crash(t)
    PROVE  OthersKept(t)
<1> USE DEF TypeInv, TypeOK, OthersKept, Push, Pop
<1>1. CASE \E k \in Keys : Reenter(t, k) \/ StartAcquire(t, k)
  BY <1>1 DEF Reenter, StartAcquire
<1>2. CASE Acquire(t)
  BY <1>2 DEF Acquire, AddSucceeds, TimeOut, CheckFinds, CheckFindsOther, Own, Raise
<1>3. CASE AddErrs(t) \/ GiveUpAfterError(t)
  BY <1>3 DEF AddErrs, GiveUpAfterError, Raise
<1>4. CASE Exit(t)
  BY <1>4 DEF Exit, ExitNested, CheckRelease, Delete, EndRequest
<1>5. CASE ReleaseErrs(t) \/ Crash(t)
  BY <1>5 DEF ReleaseErrs, Crash, Raise
<1> QED
  BY <1>1, <1>2, <1>3, <1>4, <1>5

\* A step of t keeps the invariant if it keeps t's part.
LEMMA LocalStep ==
    ASSUME StackInv, NEW t \in Threads, OthersKept(t), ThreadInv(t)'
    PROVE  StackInv'
<1> SUFFICES ASSUME NEW u \in Threads, u # t PROVE ThreadInv(u)'
  BY DEF StackInv
<1>1. /\ frames'[u] = frames[u] /\ locks'[u] = locks[u]
      /\ want'[u] = want[u] /\ pc'[u] = pc[u]
  BY DEF OthersKept
<1>2. Owned(u)' = Owned(u)
  BY <1>1 DEF Owned
<1> QED
  BY <1>1, <1>2 DEF StackInv, ThreadInv

\* Entering a block that takes its key: no other block of t owns the key.
LEMMA OwnProperties ==
    ASSUME TypeInv, NEW t \in Threads, ThreadInv(t), Own(t),
           pc[t] \in {"adding", "checking"}
    PROVE  /\ Owned(t)' = Owned(t) \cup {want[t]}
           /\ want[t] \in Keys /\ want[t] \notin Owned(t)
           /\ \A u \in Threads \ {t} : Owned(u)' = Owned(u)
           /\ ThreadInv(t)'
<1>1. want[t] \in Keys /\ OwningFrame(want[t]) \in Frame
  BY DEF TypeInv, WaitsForKey, Frame, OwningFrame
<1>2. want[t] \notin Owned(t)
  BY DEF ThreadInv
<1>3. Push(t, OwningFrame(want[t]))
  BY DEF Own
<1>4. /\ Owned(t)' = Owned(t) \cup {k \in Keys : OwningFrame(want[t]) = OwningFrame(k)}
      /\ \A u \in Threads \ {t} : Owned(u)' = Owned(u)
      /\ OneOwning(frames[t]) /\ (OwningFrame(want[t]).owns => OwningFrame(want[t]).key \notin Owned(t))
             => OneOwning(frames'[t])
  BY <1>1, <1>3, PushOwned
<1>5. {k \in Keys : OwningFrame(want[t]) = OwningFrame(k)} = {want[t]}
  BY <1>1 DEF OwningFrame
<1>6. OwningFrame(want[t]).key = want[t]
  BY DEF OwningFrame
<1>7. OneOwning(frames'[t])
  BY <1>2, <1>4, <1>6 DEF ThreadInv
<1>8. locks'[t] = locks[t] \cup {want[t]} /\ pc'[t] = "running"
  BY DEF Own, TypeInv, TypeOK
<1> QED
  BY <1>1, <1>2, <1>4, <1>5, <1>7, <1>8 DEF ThreadInv

\* Leaving a block that owns its key, with the key taken out of the set or not.
LEMMA LeaveProperties ==
    ASSUME TypeInv, NEW t \in Threads, ThreadInv(t), frames[t] # <<>>,
           Head(frames[t]).owns, Pop(t), pc'[t] = "running",
           locks'[t] \in {locks[t], locks[t] \ {Head(frames[t]).key}}
    PROVE  /\ Owned(t)' = Owned(t) \ {Head(frames[t]).key}
           /\ Head(frames[t]).key \in Owned(t)
           /\ \A u \in Threads \ {t} : Owned(u)' = Owned(u)
           /\ ThreadInv(t)'
<1>1. /\ Head(frames[t]) \in Frame
      /\ Head(frames[t]) = OwningFrame(Head(frames[t]).key)
      /\ Head(frames[t]).key \in Owned(t)
  BY HeadOwned
<1>2. \A k : Head(frames[t]) = OwningFrame(k) <=> k = Head(frames[t]).key
  <2> DEFINE h == Head(frames[t]).key
  <2>1. Head(frames[t]) = OwningFrame(h)
    BY <1>1
  <2> HIDE DEF h
  <2>2. \A k : OwningFrame(h) = OwningFrame(k) <=> k = h
    BY DEF OwningFrame
  <2> QED
    BY <2>1, <2>2 DEF h
<1>3. /\ \A u \in Threads \ {t} : Owned(u)' = Owned(u)
      /\ Owned(t)' = {k \in Owned(t) : Head(frames[t]) # OwningFrame(k)}
      /\ OneOwning(frames'[t])
  BY PopOwned DEF ThreadInv
<1>4. Owned(t)' = Owned(t) \ {Head(frames[t]).key}
  BY <1>2, <1>3
<1> QED
  BY <1>1, <1>3, <1>4 DEF ThreadInv

\* Whatever may fail, a thread's set and its stack stay in agreement.
LEMMA StackStep == TypeInv /\ StackInv /\ [Next]_vars => StackInv'
<1> SUFFICES ASSUME TypeInv, StackInv, [Next]_vars PROVE StackInv'
  OBVIOUS
<1>same. ASSUME UNCHANGED <<locks, frames, want, pc>> PROVE StackInv'
  BY <1>same DEF StackInv, ThreadInv, Owned
<1>t. \A t \in Threads : ThreadInv(t)
  BY DEF StackInv
<1>1. ASSUME NEW t \in Threads, NEW k \in Keys, Reenter(t, k) PROVE StackInv'
  <2>1. OthersKept(t)
    BY <1>1, StepsAreLocal
  <2>2. [key |-> k, owns |-> FALSE] \in Frame /\ Push(t, [key |-> k, owns |-> FALSE])
    BY <1>1 DEF Frame, Reenter
  <2>3. \A j : [key |-> k, owns |-> FALSE] # OwningFrame(j)
    BY DEF OwningFrame
  <2>4. Owned(t)' = Owned(t) /\ OneOwning(frames'[t])
    BY <1>t, <2>2, <2>3, PushOwned DEF ThreadInv
  <2>5. ThreadInv(t)'
    BY <1>t, <1>1, <2>4 DEF ThreadInv, Reenter
  <2> QED
    BY <2>1, <2>5, LocalStep
<1>2. ASSUME NEW t \in Threads, NEW k \in Keys, StartAcquire(t, k) PROVE StackInv'
  <2>1. OthersKept(t)
    BY <1>2, StepsAreLocal
  <2>2. ThreadInv(t)'
    BY <1>t, <1>2 DEF ThreadInv, StartAcquire, Owned, TypeInv, TypeOK
  <2> QED
    BY <2>1, <2>2, LocalStep
<1>3. ASSUME NEW t \in Threads, AddSucceeds(t) \/ CheckFinds(t) PROVE StackInv'
  <2>1. OthersKept(t)
    BY <1>3, StepsAreLocal DEF Acquire
  <2>2. Own(t) /\ pc[t] \in {"adding", "checking"}
    BY <1>3 DEF AddSucceeds, CheckFinds
  <2>3. ThreadInv(t)'
    BY <1>t, <2>2, OwnProperties
  <2> QED
    BY <2>1, <2>3, LocalStep
<1>4. ASSUME NEW t \in Threads, TimeOut(t) \/ GiveUpAfterError(t) PROVE StackInv'
  <2>1. OthersKept(t)
    BY <1>4, StepsAreLocal DEF Acquire
  <2>2. pc'[t] = "running" /\ UNCHANGED <<locks, frames>>
    BY <1>4 DEF TimeOut, GiveUpAfterError, Raise, TypeInv, TypeOK
  <2>3. ThreadInv(t)'
    BY <1>t, <2>2 DEF ThreadInv, Owned
  <2> QED
    BY <2>1, <2>3, LocalStep
<1>5. ASSUME NEW t \in Threads, CheckFindsOther(t) \/ AddErrs(t) PROVE StackInv'
  <2>1. OthersKept(t)
    BY <1>5, StepsAreLocal DEF Acquire
  <2>2. /\ pc[t] \in {"adding", "checking"} /\ pc'[t] \in {"adding", "checking"}
        /\ UNCHANGED <<locks, frames, want>>
    BY <1>5 DEF CheckFindsOther, AddErrs, TypeInv, TypeOK
  <2>3. ThreadInv(t)'
    BY <1>t, <2>2 DEF ThreadInv, Owned
  <2> QED
    BY <2>1, <2>3, LocalStep
<1>6. ASSUME NEW t \in Threads, ExitNested(t) PROVE StackInv'
  <2>1. OthersKept(t)
    BY <1>6, StepsAreLocal DEF Exit
  <2>2. /\ frames[t] # <<>> /\ Pop(t) /\ ~Head(frames[t]).owns /\ pc[t] = "running"
        /\ UNCHANGED <<locks, want, pc>>
    BY <1>6 DEF ExitNested, Leaving
  <2>3. Owned(t)' \subseteq Owned(t) /\ OneOwning(frames'[t])
    BY <1>t, <2>2, PopOwned DEF ThreadInv
  <2>4. ThreadInv(t)'
    BY <1>t, <2>2, <2>3 DEF ThreadInv
  <2> QED
    BY <2>1, <2>4, LocalStep
<1>7. ASSUME NEW t \in Threads, CheckRelease(t) PROVE StackInv'
  <2>1. OthersKept(t)
    BY <1>7, StepsAreLocal DEF Exit
  <2>2. CASE store[Head(frames[t]).key] = t
    <3>1. UNCHANGED <<locks, frames>> /\ Head(frames[t]).owns /\ pc'[t] = "deleting"
      BY <1>7, <2>2 DEF CheckRelease, Leaving, TypeInv, TypeOK
    <3>2. ThreadInv(t)'
      BY <1>t, <3>1 DEF ThreadInv, Owned
    <3> QED
      BY <2>1, <3>2, LocalStep
  <2>3. CASE store[Head(frames[t]).key] # t
    <3>1. /\ frames[t] # <<>> /\ Head(frames[t]).owns /\ Pop(t) /\ pc'[t] = "running"
          /\ locks'[t] = locks[t] \ {Head(frames[t]).key}
      BY <1>7, <2>3 DEF CheckRelease, Leaving, TypeInv, TypeOK
    <3>2. ThreadInv(t)'
      BY <1>t, <3>1, LeaveProperties
    <3> QED
      BY <2>1, <3>2, LocalStep
  <2> QED
    BY <2>2, <2>3
<1>8. ASSUME NEW t \in Threads, Delete(t) PROVE StackInv'
  <2>1. OthersKept(t)
    BY <1>8, StepsAreLocal DEF Exit
  <2>2. /\ frames[t] # <<>> /\ Head(frames[t]).owns /\ Pop(t) /\ pc'[t] = "running"
        /\ locks'[t] = locks[t] \ {Head(frames[t]).key}
    BY <1>t, <1>8 DEF Delete, ThreadInv, TypeInv, TypeOK, DeletingInBlock
  <2>3. ThreadInv(t)'
    BY <1>t, <2>2, LeaveProperties
  <2> QED
    BY <2>1, <2>3, LocalStep
<1>9. ASSUME NEW t \in Threads, EndRequest(t) PROVE StackInv'
  BY <1>9, <1>same DEF EndRequest
<1>10. ASSUME NEW t \in Threads, ReleaseErrs(t) PROVE StackInv'
  <2>1. OthersKept(t)
    BY <1>10, StepsAreLocal
  <2>2. /\ frames[t] # <<>> /\ Head(frames[t]).owns /\ Pop(t) /\ pc'[t] = "running"
        /\ locks'[t] = locks[t]
    BY <1>t, <1>10 DEF ReleaseErrs, Raise, Leaving, ThreadInv, TypeInv, TypeOK, DeletingInBlock
  <2>3. ThreadInv(t)'
    BY <1>t, <2>2, LeaveProperties
  <2> QED
    BY <2>1, <2>3, LocalStep
<1>11. ASSUME NEW t \in Threads, Crash(t) PROVE StackInv'
  <2>1. OthersKept(t)
    BY <1>11, StepsAreLocal
  <2>2. frames'[t] = <<>> /\ pc'[t] = "dead"
    BY <1>11 DEF Crash, TypeInv, TypeOK
  <2>3. OneOwning(frames'[t]) /\ Owned(t)' = {}
    BY <2>2 DEF OneOwning, Owned, HasOwning
  <2>4. ThreadInv(t)'
    BY <2>2, <2>3 DEF ThreadInv
  <2> QED
    BY <2>1, <2>4, LocalStep
<1>12. ASSUME NEW k \in Keys, Expire(k) PROVE StackInv'
  BY <1>12, <1>same DEF Expire
<1>13. CASE UNCHANGED vars
  BY <1>13, <1>same DEF vars
<1> QED
  BY <1>1, <1>2, <1>3, <1>4, <1>5, <1>6, <1>7, <1>8, <1>9, <1>10, <1>11, <1>12,
     <1>13 DEF Next, Acquire, Exit

\* The thread-local set and the stack of blocks agree, with every fault allowed.
THEOREM BlocksMatchSet == Spec => []OwnersOnStack
<1>1. Init => TypeInv /\ StackInv
  BY InitLockInv DEF LockInv
<1>2. StackInv => OwnersOnStack
  BY DEF StackInv, ThreadInv, OneOwning, OwnersOnStack
<1> QED
  BY <1>1, <1>2, TypeStep, StackStep, PTL DEF Spec

-----------------------------------------------------------------------------

\* With no expiry under an owner, every step keeps the entries of the keys
\* that stay owned.
LEMMA EntryStep ==
    ASSUME MayOutlast = FALSE
    PROVE  LockInv /\ [Next]_vars => OwnersEntry'
<1> SUFFICES ASSUME LockInv, [Next]_vars PROVE OwnersEntry'
  OBVIOUS
<1>type. TypeInv /\ StackInv /\ TypeInv' /\ \A t \in Threads : ThreadInv(t)
  BY TypeStep DEF LockInv, StackInv
<1>own. /\ \A t \in Threads : Owned(t) \subseteq Keys
        /\ \A t \in Threads : \A k \in Owned(t) : store[k] = t /\ store[k] # NoOwner
  BY ThreadsAssumption DEF LockInv, OwnersEntry, Owned
\* No key becomes owned, and the entries of those still owned are kept.
<1>keep. ASSUME \A t \in Threads : Owned(t)' \subseteq Owned(t),
                \A t \in Threads : \A k \in Owned(t)' : store'[k] = store[k]
         PROVE  OwnersEntry'
  BY <1>own, <1>keep DEF OwnersEntry
\* A step that leaves the stacks alone and makes or keeps entries only.
<1>stay. ASSUME UNCHANGED frames,
                \A k \in Keys : store[k] # NoOwner => store'[k] = store[k]
         PROVE  OwnersEntry'
  <2>1. \A t \in Threads : Owned(t)' = Owned(t)
    BY <1>stay DEF Owned
  <2> QED
    BY <1>own, <1>stay, <2>1 DEF OwnersEntry
\* A thread leaves a block that owns its key: the entry is now anyone's.
<1>leave. ASSUME NEW t \in Threads, frames[t] # <<>>, Head(frames[t]).owns, Pop(t),
                 pc'[t] = "running",
                 locks'[t] \in {locks[t], locks[t] \ {Head(frames[t]).key}},
                 store' \in {store, [store EXCEPT ![Head(frames[t]).key] = NoOwner]}
          PROVE  OwnersEntry'
  <2>1. /\ Owned(t)' = Owned(t) \ {Head(frames[t]).key}
        /\ Head(frames[t]).key \in Owned(t)
        /\ \A u \in Threads \ {t} : Owned(u)' = Owned(u)
    BY <1>type, <1>leave, LeaveProperties
  <2>2. \A k \in Keys : k # Head(frames[t]).key => store'[k] = store[k]
    BY <1>type, <1>leave DEF TypeInv, TypeOK
  <2>3. \A u \in Threads \ {t} : Head(frames[t]).key \notin Owned(u)
    BY <1>own, <2>1
  <2> QED
    BY <1>own, <1>keep, <2>1, <2>2, <2>3
<1>1. ASSUME NEW t \in Threads, NEW k \in Keys, Reenter(t, k) PROVE OwnersEntry'
  <2>1. /\ [key |-> k, owns |-> FALSE] \in Frame /\ Push(t, [key |-> k, owns |-> FALSE])
        /\ UNCHANGED store
    BY <1>1 DEF Frame, Reenter
  <2>2. \A j : [key |-> k, owns |-> FALSE] # OwningFrame(j)
    BY DEF OwningFrame
  <2>3. \A u \in Threads : Owned(u)' = Owned(u)
    BY <1>type, <2>1, <2>2, PushOwned
  <2> QED
    BY <1>keep, <2>1, <2>3
<1>2. ASSUME NEW t \in Threads, NEW k \in Keys, StartAcquire(t, k) PROVE OwnersEntry'
  BY <1>2, <1>stay DEF StartAcquire
<1>3. ASSUME NEW t \in Threads, AddSucceeds(t) \/ CheckFinds(t) PROVE OwnersEntry'
  <2>1. Own(t) /\ pc[t] \in {"adding", "checking"}
    BY <1>3 DEF AddSucceeds, CheckFinds
  <2>2. /\ Owned(t)' = Owned(t) \cup {want[t]} /\ want[t] \in Keys
        /\ \A u \in Threads \ {t} : Owned(u)' = Owned(u)
    BY <1>type, <2>1, OwnProperties
  <2>3. /\ store'[want[t]] = t
        /\ \A k \in Keys : store[k] # NoOwner => store'[k] = store[k]
    BY <1>3, <1>type, <2>2 DEF AddSucceeds, CheckFinds, TypeInv, TypeOK
  <2> QED
    BY <1>own, <2>2, <2>3 DEF OwnersEntry
<1>4. ASSUME NEW t \in Threads, TimeOut(t) \/ GiveUpAfterError(t) PROVE OwnersEntry'
  BY <1>4, <1>stay DEF TimeOut, GiveUpAfterError
<1>5. ASSUME NEW t \in Threads, CheckFindsOther(t) \/ AddErrs(t) PROVE OwnersEntry'
  <2>1. UNCHANGED frames /\ \A k \in Keys : store[k] # NoOwner => store'[k] = store[k]
    BY <1>5, <1>type DEF CheckFindsOther, AddErrs, TypeInv, TypeOK
  <2> QED
    BY <1>stay, <2>1
<1>6. ASSUME NEW t \in Threads, ExitNested(t) PROVE OwnersEntry'
  <2>1. frames[t] # <<>> /\ Pop(t) /\ UNCHANGED store
    BY <1>6 DEF ExitNested, Leaving
  <2>2. \A u \in Threads : Owned(u)' \subseteq Owned(u)
    BY <1>type, <2>1, PopOwned DEF ThreadInv
  <2> QED
    BY <1>keep, <2>1, <2>2
<1>7. ASSUME NEW t \in Threads, CheckRelease(t) PROVE OwnersEntry'
  <2>1. CASE store[Head(frames[t]).key] = t
    BY <1>7, <1>stay, <2>1 DEF CheckRelease
  <2>2. CASE store[Head(frames[t]).key] # t
    <3>1. /\ frames[t] # <<>> /\ Head(frames[t]).owns /\ Pop(t) /\ pc'[t] = "running"
          /\ locks'[t] = locks[t] \ {Head(frames[t]).key} /\ store' = store
      BY <1>7, <1>type, <2>2 DEF CheckRelease, Leaving, TypeInv, TypeOK
    <3> QED
      BY <3>1, <1>leave
  <2> QED
    BY <2>1, <2>2
<1>8. ASSUME NEW t \in Threads, Delete(t) PROVE OwnersEntry'
  <2>1. /\ frames[t] # <<>> /\ Head(frames[t]).owns /\ Pop(t) /\ pc'[t] = "running"
        /\ locks'[t] = locks[t] \ {Head(frames[t]).key}
        /\ store' = [store EXCEPT ![Head(frames[t]).key] = NoOwner]
    BY <1>8, <1>type DEF Delete, ThreadInv, TypeInv, TypeOK, DeletingInBlock
  <2> QED
    BY <2>1, <1>leave
<1>9. ASSUME NEW t \in Threads, EndRequest(t) PROVE OwnersEntry'
  BY <1>9, <1>stay DEF EndRequest
<1>10. ASSUME NEW t \in Threads, ReleaseErrs(t) PROVE OwnersEntry'
  <2>1. /\ frames[t] # <<>> /\ Head(frames[t]).owns /\ Pop(t) /\ pc'[t] = "running"
        /\ locks'[t] = locks[t]
    BY <1>10, <1>type DEF ReleaseErrs, Raise, Leaving, ThreadInv, TypeInv, TypeOK,
                          DeletingInBlock
  <2>2. store' \in {store, [store EXCEPT ![Head(frames[t]).key] = NoOwner]}
    BY <1>10 DEF ReleaseErrs
  <2> QED
    BY <2>1, <2>2, <1>leave
<1>11. ASSUME NEW t \in Threads, Crash(t) PROVE OwnersEntry'
  <2>1. OthersKept(t)
    BY <1>11, <1>type, StepsAreLocal
  <2>2. frames'[t] = <<>> /\ store' = store
    BY <1>11, <1>type DEF Crash, TypeInv, TypeOK
  <2>3. Owned(t)' = {} /\ \A u \in Threads \ {t} : Owned(u)' = Owned(u)
    BY <2>1, <2>2 DEF OthersKept, Owned, HasOwning
  <2> QED
    BY <1>keep, <2>2, <2>3
\* The entry that expires is not in use, so its key is not an owned one.
<1>12. ASSUME NEW k \in Keys, Expire(k) PROVE OwnersEntry'
  <2>1. /\ ~InUse(store[k], k)
        /\ store' = [store EXCEPT ![k] = NoOwner] /\ UNCHANGED frames
    BY <1>12 DEF Expire
  <2>2. \A t \in Threads : k \notin Owned(t) /\ Owned(t)' = Owned(t)
    BY <1>own, <2>1 DEF InUse, Owned
  <2>3. \A j \in Keys : j # k => store'[j] = store[j]
    BY <1>type, <2>1 DEF TypeInv, TypeOK
  <2> QED
    BY <1>own, <1>keep, <2>2, <2>3
<1>13. CASE UNCHANGED vars
  BY <1>13, <1>stay DEF vars
<1> QED
  BY <1>1, <1>2, <1>3, <1>4, <1>5, <1>6, <1>7, <1>8, <1>9, <1>10, <1>11, <1>12,
     <1>13 DEF Next, Acquire, Exit

LEMMA LockStep == ASSUME MayOutlast = FALSE PROVE LockInv /\ [Next]_vars => LockInv'
  BY TypeStep, StackStep, EntryStep DEF LockInv

\* Two owners of one key would both be the nonce of its entry.
LEMMA InvImpliesMutex == LockInv => MutualExclusion
  BY DEF LockInv, OwnersEntry, MutualExclusion, Owned

\* MutualExclusion holds in every reachable state, for any number of threads
\* and keys, with crashes and with memcached errors in acquire() and release():
\* the fault it does not survive is the assumption.
THEOREM MutexHolds ==
    ASSUME MayOutlast = FALSE
    PROVE  Spec => []MutualExclusion
  BY InitLockInv, LockStep, InvImpliesMutex, PTL DEF Spec

\* A release deletes no entry but its own (lock.py:130).
THEOREM DeletesOwn ==
    ASSUME MayOutlast = FALSE
    PROVE  Spec => DeletesOwnEntry
<1>1. LockInv => [\A t \in Threads :
          Delete(t) => store[Head(frames[t]).key] \in {t, NoOwner}]_vars
  <2> SUFFICES ASSUME LockInv, NEW t \in Threads, Delete(t)
               PROVE  store[Head(frames[t]).key] = t
    OBVIOUS
  <2>1. frames[t] # <<>> /\ Head(frames[t]).owns
    BY DEF Delete, LockInv, TypeInv, DeletingInBlock, StackInv, ThreadInv
  <2> QED
    BY <2>1, HeadOwned DEF LockInv, OwnersEntry
<1> QED
  BY <1>1, InitLockInv, LockStep, PTL DEF Spec, DeletesOwnEntry

-----------------------------------------------------------------------------

\* The mapped variable names the one owner, if there is one.
HolderNamesOwner ==
    \A k \in Keys :
        /\ \A t \in Threads : k \in Owned(t) <=> HolderOf(k) = t
        /\ (\A t \in Threads : k \notin Owned(t)) <=> HolderOf(k) = NoOwner

LEMMA HolderIsOwner == LockInv => HolderNamesOwner
<1> SUFFICES ASSUME LockInv, NEW k \in Keys
             PROVE  /\ \A t \in Threads : k \in Owned(t) <=> HolderOf(k) = t
                    /\ (\A t \in Threads : k \notin Owned(t)) <=> HolderOf(k) = NoOwner
  BY DEF HolderNamesOwner
<1>1. MutualExclusion
  BY InvImpliesMutex
<1>2. CASE \E t \in Threads : k \in Owned(t)
  <2>1. PICK t \in Threads : k \in Owned(t)
    BY <1>2
  <2>2. \A u \in Threads : k \in Owned(u) => u = t
    BY <1>1, <2>1 DEF MutualExclusion
  <2>3. HolderOf(k) = t
    BY <2>1, <2>2 DEF HolderOf
  <2> QED
    BY <2>1, <2>2, <2>3, ThreadsAssumption
<1>3. CASE ~\E t \in Threads : k \in Owned(t)
  BY <1>3, ThreadsAssumption DEF HolderOf
<1> QED
  BY <1>2, <1>3

\* The states in which nobody owns anything map to the mutex's initial state.
LEMMA InitRefines == Init => Abstract!MutexInit
  BY DEF Init, Abstract!MutexInit, HolderOf, Owned, HasOwning

\* Every step of the lock is a Take, a LetGo or a stutter of the mutex.
LEMMA StepRefines ==
    ASSUME LockInv, LockInv', [Next]_vars
    PROVE  [Abstract!MutexNext]_[k \in Keys |-> HolderOf(k)]
<1> DEFINE h == [k \in Keys |-> HolderOf(k)]
           Goal == [Abstract!MutexNext]_h
<1>type. TypeInv /\ (\A t \in Threads : ThreadInv(t)) /\ HolderNamesOwner /\ HolderNamesOwner'
  BY HolderIsOwner, PTL DEF LockInv, StackInv
<1>stutter. ASSUME \A t \in Threads : Owned(t)' = Owned(t) PROVE Goal
  <2>1. \A k \in Keys : HolderOf(k)' = HolderOf(k)
    BY <1>stutter DEF HolderOf
  <2> QED
    BY <2>1
<1>same. ASSUME UNCHANGED frames PROVE Goal
  BY <1>same, <1>stutter DEF Owned
\* Taking: nobody else owned the key, since nobody else's nonce was there.
<1>take. ASSUME NEW t \in Threads, Own(t), pc[t] \in {"adding", "checking"}
         PROVE  Goal
  <2>0. PICK k : k = want[t]
    OBVIOUS
  <2>1. /\ Owned(t)' = Owned(t) \cup {k} /\ k \in Keys /\ k \notin Owned(t)
        /\ \A u \in Threads \ {t} : Owned(u)' = Owned(u)
    BY <1>take, <1>type, <2>0, OwnProperties
  <2>2. HolderOf(k)' = t
    BY <2>1, <1>type DEF HolderNamesOwner
  <2>3. \A u \in Threads : k \notin Owned(u)
    <3>1. \A u \in Threads \ {t} : k \notin Owned(u)'
      BY <2>1, <2>2, <1>type DEF HolderNamesOwner
    <3> QED
      BY <2>1, <3>1
  <2>4. HolderOf(k) = NoOwner
    BY <2>1, <2>3, <1>type DEF HolderNamesOwner
  <2>5. ASSUME NEW j \in Keys, j # k PROVE HolderOf(j)' = HolderOf(j)
    <3>1. \A u \in Threads : j \in Owned(u)' <=> j \in Owned(u)
      BY <2>1, <2>5
    <3> QED
      BY <3>1 DEF HolderOf
  <2>6. h' = [h EXCEPT ![k] = t]
    BY <2>2, <2>5
  <2>7. Abstract!Take(t, k)
    BY <2>1, <2>4, <2>6 DEF Abstract!Take
  <2> QED
    BY <2>1, <2>7 DEF Abstract!MutexNext
\* Letting go: the keys t no longer owns become free.
<1>drop. ASSUME NEW t \in Threads, NEW gone \in SUBSET Owned(t),
                Owned(t)' = Owned(t) \ gone,
                \A u \in Threads \ {t} : Owned(u)' = Owned(u)
         PROVE  Goal
  <2>1. gone \in SUBSET Keys /\ gone \in SUBSET {k \in Keys : h[k] = t}
    <3>1. gone \in SUBSET Keys
      BY DEF Owned
    <3> QED
      BY <3>1, <1>type DEF HolderNamesOwner
  <2>2. ASSUME NEW j \in gone PROVE HolderOf(j)' = NoOwner
    <3>1. \A u \in Threads : u # t => j \notin Owned(u)
      BY InvImpliesMutex DEF MutualExclusion
    <3>2. \A u \in Threads : j \notin Owned(u)'
      BY <1>drop, <3>1
    <3> QED
      BY <3>2 DEF HolderOf
  <2>3. \A j \in Keys \ gone : HolderOf(j)' = HolderOf(j)
    BY <1>drop DEF HolderOf
  <2>4. h' = [k \in Keys |-> IF k \in gone THEN NoOwner ELSE h[k]]
    BY <2>2, <2>3
  <2>5. Abstract!LetGo(t)
    BY <2>1, <2>4 DEF Abstract!LetGo
  <2> QED
    BY <2>5 DEF Abstract!MutexNext
<1>leave. ASSUME NEW t \in Threads, frames[t] # <<>>, Head(frames[t]).owns, Pop(t),
                 pc'[t] = "running",
                 locks'[t] \in {locks[t], locks[t] \ {Head(frames[t]).key}}
          PROVE  Goal
  <2>1. /\ Owned(t)' = Owned(t) \ {Head(frames[t]).key}
        /\ {Head(frames[t]).key} \in SUBSET Owned(t)
        /\ \A u \in Threads \ {t} : Owned(u)' = Owned(u)
    BY <1>leave, <1>type, LeaveProperties
  <2> QED
    BY <2>1, <1>drop
<1> HIDE DEF Goal
<1>1. ASSUME NEW t \in Threads, NEW k \in Keys, Reenter(t, k) PROVE Goal
  <2>1. [key |-> k, owns |-> FALSE] \in Frame /\ Push(t, [key |-> k, owns |-> FALSE])
    BY <1>1 DEF Frame, Reenter
  <2>2. \A j : [key |-> k, owns |-> FALSE] # OwningFrame(j)
    BY DEF OwningFrame
  <2>3. \A u \in Threads : Owned(u)' = Owned(u)
    BY <1>type, <2>1, <2>2, PushOwned
  <2> QED
    BY <1>stutter, <2>3
<1>2. ASSUME NEW t \in Threads, NEW k \in Keys, StartAcquire(t, k) PROVE Goal
  BY <1>2, <1>same DEF StartAcquire
<1>3. ASSUME NEW t \in Threads, AddSucceeds(t) \/ CheckFinds(t) PROVE Goal
  BY <1>3, <1>take DEF AddSucceeds, CheckFinds
<1>4. ASSUME NEW t \in Threads,
             TimeOut(t) \/ CheckFindsOther(t) \/ AddErrs(t) \/ GiveUpAfterError(t) \/ EndRequest(t)
      PROVE  Goal
  BY <1>4, <1>same DEF TimeOut, CheckFindsOther, AddErrs, GiveUpAfterError, EndRequest
<1>5. ASSUME NEW t \in Threads, ExitNested(t) PROVE Goal
  <2>1. frames[t] # <<>> /\ Pop(t) /\ ~Head(frames[t]).owns
    BY <1>5 DEF ExitNested, Leaving
  <2>2. \A k : Head(frames[t]) # OwningFrame(k)
    BY <2>1 DEF OwningFrame
  <2>3. \A u \in Threads : Owned(u)' = Owned(u)
    BY <1>type, <2>1, <2>2, PopOwned DEF ThreadInv
  <2> QED
    BY <1>stutter, <2>3
<1>6. ASSUME NEW t \in Threads, CheckRelease(t) PROVE Goal
  <2>1. CASE store[Head(frames[t]).key] = t
    BY <1>6, <1>same, <2>1 DEF CheckRelease
  <2>2. CASE store[Head(frames[t]).key] # t
    <3>1. /\ frames[t] # <<>> /\ Head(frames[t]).owns /\ Pop(t) /\ pc'[t] = "running"
          /\ locks'[t] = locks[t] \ {Head(frames[t]).key}
      BY <1>6, <1>type, <2>2 DEF CheckRelease, Leaving, TypeInv, TypeOK
    <3> QED
      BY <3>1, <1>leave
  <2> QED
    BY <2>1, <2>2
<1>7. ASSUME NEW t \in Threads, Delete(t) PROVE Goal
  <2>1. /\ frames[t] # <<>> /\ Head(frames[t]).owns /\ Pop(t) /\ pc'[t] = "running"
        /\ locks'[t] = locks[t] \ {Head(frames[t]).key}
    BY <1>7, <1>type DEF Delete, ThreadInv, TypeInv, TypeOK, DeletingInBlock
  <2> QED
    BY <2>1, <1>leave
<1>8. ASSUME NEW t \in Threads, ReleaseErrs(t) PROVE Goal
  <2>1. /\ frames[t] # <<>> /\ Head(frames[t]).owns /\ Pop(t) /\ pc'[t] = "running"
        /\ locks'[t] = locks[t]
    BY <1>8, <1>type DEF ReleaseErrs, Raise, Leaving, ThreadInv, TypeInv, TypeOK,
                         DeletingInBlock
  <2> QED
    BY <2>1, <1>leave
<1>9. ASSUME NEW t \in Threads, Crash(t) PROVE Goal
  <2>1. OthersKept(t)
    BY <1>9, <1>type, StepsAreLocal
  <2>2. frames'[t] = <<>>
    BY <1>9, <1>type DEF Crash, TypeInv, TypeOK
  <2>3. Owned(t)' = Owned(t) \ Owned(t) /\ \A u \in Threads \ {t} : Owned(u)' = Owned(u)
    BY <2>1, <2>2 DEF OthersKept, Owned, HasOwning
  <2> QED
    BY <2>3, <1>drop
<1>10. ASSUME NEW k \in Keys, Expire(k) PROVE Goal
  BY <1>10, <1>same DEF Expire
<1>11. ASSUME UNCHANGED vars PROVE Goal
  BY <1>11, <1>same DEF vars
<1>12. Goal
  BY <1>1, <1>2, <1>3, <1>4, <1>5, <1>6, <1>7, <1>8, <1>9, <1>10, <1>11
     DEF Next, Acquire, Exit
<1> QED
  BY <1>12 DEF Goal

\* The memcached lock implements the mutex, for any number of threads and keys.
THEOREM Refinement ==
    ASSUME MayOutlast = FALSE
    PROVE  Spec => ImplementsMutex
<1>1. LockInv /\ LockInv' /\ [Next]_vars
         => [Abstract!MutexNext]_[k \in Keys |-> HolderOf(k)]
  BY StepRefines
<1> QED
  BY <1>1, InitLockInv, LockStep, InitRefines, PTL
     DEF Spec, ImplementsMutex, Abstract!MutexSpec
=============================================================================
