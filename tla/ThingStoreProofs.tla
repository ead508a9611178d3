-------------------------- MODULE ThingStoreProofs --------------------------
(***************************************************************************)
(* Theorems about ThingStore, for any number of processes, properties,     *)
(* values and increments.                                                  *)
(***************************************************************************)
EXTENDS ThingStore, TLAPS

\* Type correctness needs to know that whoever has started has an object in
\* hand, that such an object comes from the database, and that an object that
\* has just been incremented has the counter's value.
InHand ==
    \A p \in Procs :
        /\ pc[p] # "idle" => self[p] \in Thing /\ db \in Thing
        /\ pc[p] = "cached" => op[p] # Commit /\ self[p][op[p].on] \in Int

TypeInv == TypeOK /\ InHand

LEMMA OpsFacts ==
    ASSUME NEW o \in Ops, o # Commit
    PROVE  o.on \in Counters /\ o.amt \in Int /\ (o.on = "ups" \/ o.on = "karma")
BY DEF Ops, Commit, Counters

\* Writing an integer into a counter of a thing gives a thing.
LEMMA CounterOfThing ==
    ASSUME NEW t \in Thing, NEW c \in Counters, NEW n \in Int
    PROVE  /\ [t EXCEPT ![c] = n] \in Thing
           /\ [t EXCEPT ![c] = n][c] = n
           /\ [t EXCEPT ![c] = n].vals = t.vals
           /\ \A d \in Counters \ {c} : [t EXCEPT ![c] = n][d] = t[d]
<1>1. CASE c = "ups" BY <1>1 DEF Thing, Counters
<1>2. CASE c = "karma" BY <1>2 DEF Thing, Counters
<1> QED BY <1>1, <1>2 DEF Counters

LEMMA ReadIsInt ==
    ASSUME NEW t \in Thing, NEW c \in Counters
    PROVE  Read(t, c) \in Int
<1>1. CASE c = "ups" BY <1>1, StoreAssumption DEF Thing, Read
<1>2. CASE c = "karma" BY <1>2, StoreAssumption DEF Thing, Read
<1> QED BY <1>1, <1>2 DEF Counters

\* Replacing the plain properties, one of them, or the data row.
LEMMA ThingWithVals ==
    ASSUME NEW t \in Thing, NEW w \in [Props -> Vals]
    PROVE  /\ [t EXCEPT !.vals = w] \in Thing
           /\ [t EXCEPT !.vals = w].vals = w
           /\ [t EXCEPT !.vals = w].ups = t.ups
           /\ [t EXCEPT !.vals = w].karma = t.karma
BY DEF Thing

LEMMA ThingWithRow ==
    ASSUME NEW t \in Thing, NEW n \in Int \cup {NoRow}
    PROVE  /\ [t EXCEPT !.karma = n] \in Thing
           /\ [t EXCEPT !.karma = n].karma = n
           /\ [t EXCEPT !.karma = n].ups = t.ups
           /\ [t EXCEPT !.karma = n].vals = t.vals
BY DEF Thing

LEMMA ThingFields ==
    ASSUME NEW t \in Thing
    PROVE  t.vals \in [Props -> Vals] /\ t.ups \in Int /\ t.karma \in Int \cup {NoRow}
BY DEF Thing

\* The object _incr writes to the cache and the counter it writes to the
\* database.
LEMMA IncrementedIsThing ==
    ASSUME NEW p \in Procs, self[p] \in Thing, op[p] \in Ops, op[p] # Commit
    PROVE  Incremented(p) \in Thing /\ Incremented(p)[op[p].on] \in Int
BY OpsFacts, CounterOfThing, ReadIsInt DEF Incremented

LEMMA CounterAfterIsCounter ==
    ASSUME NEW p \in Procs, db \in Thing, op[p] \in Ops, op[p] # Commit,
           self[p][op[p].on] \in Int
    PROVE  [db EXCEPT ![op[p].on] = CounterAfter(p)] \in Thing
<1>1. CASE op[p].on = "ups"
  <2>1. CounterAfter(p) \in Int
    BY <1>1, OpsFacts, ThingFields, StoreAssumption DEF CounterAfter
  <2> QED BY <1>1, <2>1, CounterOfThing DEF Counters
<1>2. CASE op[p].on = "karma"
  <2>1. CounterAfter(p) \in Int \cup {NoRow}
    BY <1>2, OpsFacts, ThingFields, StoreAssumption DEF CounterAfter
  <2> QED BY <1>2, <2>1, ThingWithRow
<1> QED
  BY <1>1, <1>2, OpsFacts DEF Counters

LEMMA CreatedIsThing == Created \in Thing /\ NoThing \notin Thing
BY StoreAssumption, ThingAssumption DEF Created, Thing

LEMMA TypeInit == Init => TypeInv
<1> SUFFICES ASSUME Init PROVE TypeInv
  OBVIOUS
<1> USE DEF Init
<1>1. TypeOK
  <2>1. amiss \in BOOLEAN
    OBVIOUS
  <2> QED
    BY <2>1, CreatedIsThing, StoreAssumption DEF TypeOK, Nothing, Ops, Counters
<1>2. InHand
  BY DEF InHand
<1> QED
  BY <1>1, <1>2 DEF TypeInv

DriftType == ahead \in Int /\ behind \subseteq Props /\ amiss \in BOOLEAN

LEMMA UpsByIsInt ==
    ASSUME NEW p \in Procs, op[p] \in Ops
    PROVE  UpsBy(p) \in Int
BY DEF UpsBy, Ops, Commit

LEMMA DriftTypeStep == TypeInv /\ [Next]_vars => DriftType'
<1> SUFFICES ASSUME TypeInv, [Next]_vars PROVE DriftType'
  OBVIOUS
<1>t. DriftType /\ op \in [Procs -> Ops] /\ dirty \in [Procs -> SUBSET Props]
  BY DEF TypeInv, TypeOK, DriftType
<1>1. ahead' \in Int
  <2>1. ASSUME NEW p \in Procs PROVE ahead + UpsBy(p) \in Int
    BY <1>t, UpsByIsInt DEF DriftType
  <2> QED
    BY <1>t, <2>1 DEF DriftType, Next, LookUp, Write, Fault, vars, drift, Evict, LockExpires, LookUpCached,
       ReadBase, ReadData, FillCache, Create, PublishNew, SetProp, StartCommit, StartIncr, UpdateFromCache,
       NothingToCommit, CommitChanges, CacheCommitted, CacheIncremented, CommitIncrement, Release,
       EndRequest, StatementFails, CommitFails, CacheWriteFails, Crash
<1>2. behind' \subseteq Props
  BY <1>t DEF DriftType, Asked, Next, LookUp, Write, Fault, vars, drift, Evict, LockExpires, LookUpCached,
     ReadBase, ReadData, FillCache, Create, PublishNew, SetProp, StartCommit, StartIncr, UpdateFromCache,
     NothingToCommit, CommitChanges, CacheCommitted, CacheIncremented, CommitIncrement, Release,
     EndRequest, StatementFails, CommitFails, CacheWriteFails, Crash
<1>3. amiss' \in BOOLEAN
  <2>1. amiss' = amiss \/ Evict \/ LockExpires \/ \E p \in Procs : ReadBase(p) \/ FillCache(p)
    BY DEF Next, LookUp, Write, Fault, vars, drift, LookUpCached, ReadData, Create, PublishNew,
       SetProp, StartCommit, StartIncr, UpdateFromCache, NothingToCommit, CommitChanges, CacheCommitted,
       CacheIncremented, CommitIncrement, Release, EndRequest, StatementFails, CommitFails,
       CacheWriteFails, Crash
  <2>2. CASE amiss' = amiss
    BY <1>t, <2>2, Zenon DEF DriftType
  <2>3. CASE Evict
    BY <2>3, Zenon DEF Evict
  <2>4. CASE LockExpires
    BY <2>4, Zenon DEF LockExpires
  <2>5. ASSUME NEW p \in Procs, ReadBase(p) PROVE amiss' \in BOOLEAN
    BY <2>5, Zenon DEF ReadBase
  <2>6. ASSUME NEW p \in Procs, FillCache(p) PROVE amiss' \in BOOLEAN
    BY <1>t, <2>6, Zenon DEF FillCache, DriftType
  <2> QED
    BY <2>1, <2>2, <2>3, <2>4, <2>5, <2>6, Zenon
<1> QED
  BY <1>1, <1>2, <1>3 DEF DriftType

LEMMA TypeStep == TypeInv /\ [Next]_vars => TypeInv'
<1> SUFFICES ASSUME TypeInv, [Next]_vars PROVE TypeInv'
  OBVIOUS
<1>d. DriftType'
  BY DriftTypeStep
<1> USE <1>d DEF TypeInv, TypeOK, InHand, DriftType
<1>u. CASE UNCHANGED vars
  BY <1>u DEF vars, drift
<1>e. CASE Evict
  BY <1>e DEF Evict
<1>x. CASE LockExpires
  BY <1>x DEF LockExpires
<1>p. ASSUME NEW p \in Procs, LookUp(p) \/ Write(p) \/ Fault(p) PROVE TypeInv'
  <2>1. CASE Create(p)
    BY <2>1, CreatedIsThing DEF Create, Goto
  <2>2. CASE PublishNew(p)
    BY <2>2 DEF PublishNew, Goto
  <2>3. CASE LookUpCached(p)
    BY <2>3 DEF LookUpCached, Goto, Visible
  <2>4. CASE ReadBase(p)
    BY <2>4, ThingWithRow DEF ReadBase, Goto, Visible
  <2>5. CASE ReadData(p)
    <3> DEFINE t == [self[p] EXCEPT !.karma = db.karma]
    <3>1. t \in Thing
      BY <2>5, ThingWithRow, ThingFields DEF ReadData, Goto
    <3>2. self' = [self EXCEPT ![p] = t]
      BY <2>5 DEF ReadData
    <3> HIDE DEF t
    <3> QED
      BY <2>5, <3>1, <3>2 DEF ReadData, Goto
  <2>6. CASE FillCache(p)
    BY <2>6 DEF FillCache, Goto
  <2>7. ASSUME NEW q \in Props, NEW v \in Vals, SetProp(p, q, v) PROVE TypeInv'
    <3> DEFINE t == [self[p] EXCEPT !.vals = [@ EXCEPT ![q] = v]]
    <3>1. t \in Thing
      BY <2>7, ThingWithVals, ThingFields DEF SetProp
    <3>2. self' = [self EXCEPT ![p] = t]
      BY <2>7 DEF SetProp
    <3> HIDE DEF t
    <3> QED
      BY <2>7, <3>1, <3>2 DEF SetProp
  <2>8. CASE EndRequest(p)
    BY <2>8 DEF EndRequest, Forget, Nothing, Ops
  <2>9. CASE StartCommit(p)
    BY <2>9 DEF StartCommit, Goto, Ops
  <2>10. ASSUME NEW c \in Counters, NEW amt \in {-1, 1}, StartIncr(p, c, amt) PROVE TypeInv'
    BY <2>10 DEF StartIncr, Goto, Ops
  <2>11. CASE UpdateFromCache(p)
    <3>1. cache # NoThing => Merged(p) \in Thing
      <4> SUFFICES ASSUME cache # NoThing PROVE Merged(p) \in Thing
        OBVIOUS
      <4> DEFINE w == [q \in Props |-> IF q \in dirty[p] THEN self[p].vals[q] ELSE cache.vals[q]]
      <4>1. cache \in Thing /\ self[p] \in Thing
        BY <2>11 DEF UpdateFromCache, Goto
      <4>2. w \in [Props -> Vals]
        BY <4>1, ThingFields
      <4>3. Merged(p) = [cache EXCEPT !.vals = w]
        BY DEF Merged
      <4> HIDE DEF w
      <4> QED
        BY <4>1, <4>2, <4>3, ThingWithVals
    <3>2. dirty' \in [Procs -> SUBSET Props]
      BY <2>11 DEF UpdateFromCache
    <3> QED
      BY <2>11, <3>1, <3>2 DEF UpdateFromCache, Goto
  <2>12. CASE NothingToCommit(p)
    BY <2>12 DEF NothingToCommit, Goto
  <2>13. CASE CommitChanges(p)
    <3> DEFINE w == [q \in Props |-> IF q \in dirty[p] THEN self[p].vals[q] ELSE db.vals[q]]
    <3>1. w \in [Props -> Vals]
      BY <2>13, ThingFields DEF CommitChanges, Goto
    <3>2. db' = [db EXCEPT !.vals = w]
      BY <2>13 DEF CommitChanges
    <3> HIDE DEF w
    <3>3. db \in Thing
      BY <2>13 DEF CommitChanges, Goto
    <3>4. db' \in Thing
      BY <3>1, <3>2, <3>3, ThingWithVals
    <3> QED
      BY <2>13, <3>4 DEF CommitChanges, Goto
  <2>14. CASE CacheCommitted(p)
    BY <2>14 DEF CacheCommitted, Goto
  <2>15. CASE CacheIncremented(p)
    BY <2>15, IncrementedIsThing DEF CacheIncremented, Goto
  <2>16. CASE CommitIncrement(p)
    <3>1. db' \in Thing
      BY <2>16, CounterAfterIsCounter DEF CommitIncrement, Goto
    <3>2. done' \in [Counters -> Int]
      BY <2>16, OpsFacts DEF CommitIncrement, Goto
    <3> QED
      BY <2>16, <3>1, <3>2 DEF CommitIncrement, Goto
  <2>17. CASE Release(p)
    BY <2>17 DEF Release, Goto, Nothing
  <2>18. CASE StatementFails(p)
    BY <2>18 DEF StatementFails, Raise, Forget, Nothing, Ops
  <2>19. CASE CommitFails(p)
    <3>1. db' \in Thing \/ db' = db
      BY <2>19, CounterAfterIsCounter DEF CommitFails
    <3>2. db \in Thing => db' \in Thing
      BY <3>1
    <3> QED
      BY <2>19, <3>1, <3>2 DEF CommitFails, Raise, Forget, Nothing, Ops
  <2>20. CASE CacheWriteFails(p)
    <3>1. cache' \in Thing \cup {NoThing}
      BY <2>20, IncrementedIsThing DEF CacheWriteFails
    <3> QED
      BY <2>20, <3>1 DEF CacheWriteFails, Raise, Forget, Nothing, Ops
  <2>21. CASE Crash(p)
    BY <2>21 DEF Crash, Forget, Nothing, Ops
  <2> QED
    BY <1>p, <2>1, <2>2, <2>3, <2>4, <2>5, <2>6, <2>7, <2>8, <2>9, <2>10, <2>11, <2>12,
       <2>13, <2>14, <2>15, <2>16, <2>17, <2>18, <2>19, <2>20, <2>21
       DEF LookUp, Write, Fault
<1> QED
  BY <1>u, <1>e, <1>x, <1>p DEF Next

\* Every variable stays in its type, whatever goes wrong.
THEOREM TypeCorrect == Spec => []TypeOK
<1>1. TypeInv => TypeOK
  BY DEF TypeInv
<1> QED
  BY <1>1, TypeInit, TypeStep, PTL DEF Spec

-----------------------------------------------------------------------------
(***************************************************************************)
(* Coherence, while nothing goes wrong but SQL statements.  The argument:  *)
(* the lock makes at most one process busy between update_from_cache and   *)
(* the end of its `with` block; once a process has an object in hand the   *)
(* cache is filled and stays filled, so update_from_cache always brings in *)
(* the database's value; a fill that comes late finds the cache filled.    *)
(***************************************************************************)

\* The stages of _commit and _incr inside the `with` block of the lock.
Busy == {"locked", "merged", "written", "cached", "leaving"}

LockHeld == \A p \in Procs : pc[p] \in Busy => lock = p

\* Nobody has an object in hand, to work on, while the cache is empty.
CacheFilled == \A p \in Procs : pc[p] \in Busy \cup {"have"} => cache # NoThing

\* Only its creator has seen a thing that is not yet in the cache.
CreatorAlone ==
    \A p \in Procs : pc[p] = "created" =>
        /\ cache = NoThing /\ self[p] = db
        /\ \A r \in Procs \ {p} : pc[r] = "idle"

\* What a reader will add to an empty cache is still in the database.
FillFresh ==
    cache = NoThing => \A p \in Procs :
        /\ pc[p] = "base_read" => self[p] = [db EXCEPT !.karma = NoRow]
        /\ pc[p] = "data_read" => self[p] = db

\* What is dirty is what the caller asked for, as it asked for it.
Pending(p) ==
    \A q \in Props : asked[p][q] = IF q \in dirty[p] THEN self[p].vals[q] ELSE Unasked

\* What the caller asked for is in the database already.
Landed(p) == \A q \in Props : asked[p][q] \in {Unasked, db.vals[q]}

\* After update_from_cache the object differs from the database in its dirty
\* properties only.
MergedWithDb(p) ==
    /\ self[p].ups = db.ups /\ self[p].karma = db.karma
    /\ \A q \in Props :
          IF q \in dirty[p] THEN asked[p][q] = self[p].vals[q]
          ELSE self[p].vals[q] = db.vals[q] /\ asked[p][q] \in {Unasked, db.vals[q]}

Clean(p) == dirty[p] = {} /\ \A q \in Props : asked[p][q] = Unasked

ObjectOf(p) ==
    /\ pc[p] \in {"idle", "created", "base_read", "data_read"} => Clean(p)
    /\ pc[p] \in {"have", "locked"} => Pending(p)
    /\ pc[p] = "merged" => MergedWithDb(p)
    /\ pc[p] \in {"locked", "merged", "cached"} /\ op[p] # Commit => dirty[p] = {}
    /\ pc[p] = "written" => self[p] = db
    /\ pc[p] = "cached" =>
          /\ cache = self[p]
          /\ self[p] = [db EXCEPT ![op[p].on] = Read(db, op[p].on) + op[p].amt]
    /\ pc[p] \in {"written", "cached", "leaving"} => dirty[p] = {} /\ Landed(p)

ObjectsInHand == \A p \in Procs : ObjectOf(p)

StoreInv ==
    /\ TypeInv /\ LockHeld /\ CacheFilled /\ CreatorAlone /\ FillFresh /\ ObjectsInHand
    /\ CacheCoherent /\ KarmaExact
    /\ db = NoThing => done["karma"] = 0

LEMMA StoreInit == Init => StoreInv
<1> SUFFICES ASSUME Init PROVE StoreInv
  OBVIOUS
<1>1. TypeInv
  BY TypeInit
<1>2. \A p \in Procs : pc[p] = "idle" /\ Clean(p)
  BY DEF Init, Clean, Nothing
<1>3. KarmaExact /\ CacheCoherent /\ FillFresh
  BY <1>2, CreatedIsThing DEF Init, KarmaExact, CacheCoherent, FillFresh, Read, Created, Counters
<1>4. LockHeld /\ CacheFilled /\ CreatorAlone /\ ObjectsInHand
  BY <1>2 DEF LockHeld, CacheFilled, CreatorAlone, ObjectsInHand, ObjectOf, Busy
<1>5. done["karma"] = 0
  BY DEF Init, Counters
<1> QED
  BY <1>1, <1>3, <1>4, <1>5 DEF StoreInv

-----------------------------------------------------------------------------
\* What StoreInv says of a process, in the form the steps use.

Benign == Faults \subseteq {"sql"}

LEMMA OnlyOneBusy ==
    ASSUME StoreInv, NEW p \in Procs, pc[p] \in Busy
    PROVE  /\ \A r \in Procs \ {p} : pc[r] \notin Busy
           /\ \A r \in Procs : pc[r] # "created"
           /\ cache # NoThing /\ db \in Thing /\ self[p] \in Thing /\ db # NoThing
<1>1. \A r \in Procs \ {p} : pc[r] \notin Busy
  BY DEF StoreInv, LockHeld
<1>2. cache # NoThing /\ db \in Thing /\ self[p] \in Thing
  BY DEF StoreInv, CacheFilled, TypeInv, InHand, Busy
<1>3. \A r \in Procs : pc[r] # "created"
  BY <1>2 DEF StoreInv, CreatorAlone
<1> QED
  BY <1>1, <1>2, <1>3, ThingAssumption

\* Before a process has written anything its lock makes the cache coherent.
LEMMA CoherentUnderLock ==
    ASSUME StoreInv, NEW p \in Procs, pc[p] \in {"locked", "merged"}
    PROVE  cache = db
BY OnlyOneBusy DEF StoreInv, CacheCoherent, Busy

LEMMA ThingsEqual ==
    ASSUME NEW t \in Thing, NEW u \in Thing,
           t.ups = u.ups, t.karma = u.karma, \A q \in Props : t.vals[q] = u.vals[q]
    PROVE  t = u
<1>1. t.vals = u.vals
  BY ThingFields
<1> QED
  BY <1>1 DEF Thing

LEMMA RowRestored ==
    ASSUME NEW t \in Thing
    PROVE  [[t EXCEPT !.karma = NoRow] EXCEPT !.karma = t.karma] = t
BY DEF Thing

LEMMA Inv_Create ==
    ASSUME Benign, StoreInv, NEW p \in Procs, Create(p), TypeInv'
    PROVE  StoreInv'
<1>a. pc[p] = "idle" /\ \A r \in Procs : pc[r] = "idle" /\ Clean(r)
  BY ThingAssumption DEF Create, StoreInv, TypeInv, TypeOK, InHand, ObjectsInHand, ObjectOf, Goto
<1>b. db' = Created /\ cache = NoThing /\ db = NoThing
  BY <1>a, ThingAssumption DEF Create, StoreInv, CacheCoherent
<1>c. Read(Created, "karma") = 0 /\ Created # NoThing
  BY CreatedIsThing DEF Read, Created
<1> USE DEF StoreInv, TypeInv, TypeOK, InHand, Goto
<1>1. LockHeld'
  BY DEF LockHeld, Busy, Create
<1>2. CacheFilled'
  BY DEF CacheFilled, Busy, Create
<1>3. CreatorAlone'
  BY <1>a, <1>b DEF CreatorAlone, Create
<1>4. FillFresh'
  BY <1>a, <1>b DEF FillFresh, Create
<1>5. ObjectsInHand'
  BY <1>a, <1>b DEF ObjectsInHand, ObjectOf, Create, Clean
<1>6. CacheCoherent'
  BY DEF CacheCoherent, Create
<1>7. KarmaExact'
  BY <1>a, <1>b, <1>c DEF KarmaExact, Create
<1>8. (db = NoThing => done["karma"] = 0)'
  BY <1>b, <1>c
<1> QED
  BY <1>1, <1>2, <1>3, <1>4, <1>5, <1>6, <1>7, <1>8

LEMMA Inv_PublishNew ==
    ASSUME Benign, StoreInv, NEW p \in Procs, PublishNew(p), TypeInv'
    PROVE  StoreInv'
<1>a. /\ pc[p] = "created" /\ db' = db /\ cache' = db /\ cache' # NoThing
      /\ \A r \in Procs \ {p} : pc[r] = "idle"
  BY ThingAssumption DEF PublishNew, Goto, StoreInv, CreatorAlone, TypeInv, InHand
<1>b. Clean(p)
  BY <1>a DEF StoreInv, ObjectsInHand, ObjectOf
<1> USE DEF StoreInv, TypeInv, TypeOK, InHand, Goto
<1>1. LockHeld'
  BY DEF LockHeld, Busy, PublishNew
<1>2. CacheFilled'
  BY <1>a DEF CacheFilled
<1>3. CreatorAlone'
  BY DEF CreatorAlone, PublishNew
<1>4. FillFresh'
  BY <1>a DEF FillFresh
<1>5. ObjectsInHand'
  BY <1>a, <1>b DEF ObjectsInHand, ObjectOf, PublishNew, Clean, Pending
<1>6. CacheCoherent'
  BY <1>a DEF CacheCoherent
<1>7. KarmaExact'
  BY DEF KarmaExact, PublishNew
<1>8. (db = NoThing => done["karma"] = 0)'
  BY DEF PublishNew
<1> QED
  BY <1>1, <1>2, <1>3, <1>4, <1>5, <1>6, <1>7, <1>8

LEMMA Inv_LookUpCached ==
    ASSUME Benign, StoreInv, NEW p \in Procs, LookUpCached(p), TypeInv'
    PROVE  StoreInv'
<1> USE DEF StoreInv, TypeInv, TypeOK, InHand, Goto
<1>1. LockHeld'
  BY DEF LockHeld, Busy, LookUpCached, Visible
<1>2. CacheFilled'
  BY DEF CacheFilled, Busy, LookUpCached, Visible
<1>3. CreatorAlone'
  BY DEF CreatorAlone, LookUpCached, Visible
<1>4. FillFresh'
  BY DEF FillFresh, LookUpCached, Visible
<1>5. ObjectsInHand'
  BY DEF ObjectsInHand, ObjectOf, Clean, Pending, Landed, MergedWithDb, LookUpCached, Visible
<1>6. CacheCoherent'
  BY DEF CacheCoherent, LookUpCached, Visible
<1>7. KarmaExact'
  BY DEF KarmaExact, LookUpCached, Visible
<1>8. (db = NoThing => done["karma"] = 0)'
  BY DEF LookUpCached, Visible
<1> QED
  BY <1>1, <1>2, <1>3, <1>4, <1>5, <1>6, <1>7, <1>8

LEMMA Inv_ReadBase ==
    ASSUME Benign, StoreInv, NEW p \in Procs, ReadBase(p), TypeInv'
    PROVE  StoreInv'
<1> USE DEF StoreInv, TypeInv, TypeOK, InHand, Goto
<1>1. LockHeld'
  BY DEF LockHeld, Busy, ReadBase, Visible, Benign
<1>2. CacheFilled'
  BY DEF CacheFilled, Busy, ReadBase, Visible, Benign
<1>3. CreatorAlone'
  BY DEF CreatorAlone, ReadBase, Visible, Benign
<1>4. FillFresh'
  BY DEF FillFresh, ReadBase, Visible, Benign
<1>5. ObjectsInHand'
  BY DEF ObjectsInHand, ObjectOf, Clean, Pending, Landed, MergedWithDb, ReadBase, Visible, Benign
<1>6. CacheCoherent'
  BY DEF CacheCoherent, ReadBase, Visible, Benign
<1>7. KarmaExact'
  BY DEF KarmaExact, ReadBase, Visible, Benign
<1>8. (db = NoThing => done["karma"] = 0)'
  BY DEF ReadBase, Visible, Benign
<1> QED
  BY <1>1, <1>2, <1>3, <1>4, <1>5, <1>6, <1>7, <1>8

LEMMA Inv_ReadData ==
    ASSUME Benign, StoreInv, NEW p \in Procs, ReadData(p), TypeInv'
    PROVE  StoreInv'
<1>a. /\ cache = NoThing => self'[p] = db
      /\ \A r \in Procs \ {p} : self'[r] = self[r] /\ pc'[r] = pc[r]
  BY RowRestored DEF ReadData, Goto, StoreInv, FillFresh, TypeInv, TypeOK, InHand
<1> USE DEF StoreInv, TypeInv, TypeOK, InHand, Goto
<1>1. LockHeld'
  BY DEF LockHeld, Busy, ReadData
<1>2. CacheFilled'
  BY DEF CacheFilled, Busy, ReadData
<1>3. CreatorAlone'
  BY DEF CreatorAlone, ReadData
<1>4. FillFresh'
  BY <1>a DEF FillFresh, ReadData
<1>5. ObjectsInHand'
  BY DEF ObjectsInHand, ObjectOf, Clean, Pending, Landed, MergedWithDb, ReadData
<1>6. CacheCoherent'
  BY DEF CacheCoherent, ReadData
<1>7. KarmaExact'
  BY DEF KarmaExact, ReadData
<1>8. (db = NoThing => done["karma"] = 0)'
  BY DEF ReadData
<1> QED
  BY <1>1, <1>2, <1>3, <1>4, <1>5, <1>6, <1>7, <1>8

LEMMA Inv_FillCache ==
    ASSUME Benign, StoreInv, NEW p \in Procs, FillCache(p), TypeInv'
    PROVE  StoreInv'
<1>a. /\ cache' = IF cache = NoThing THEN self[p] ELSE cache
      /\ self[p] \in Thing /\ db' = db
  BY DEF FillCache, Goto, Benign, StoreInv, TypeInv, InHand
<1>b. /\ cache' # NoThing
      /\ cache = NoThing => cache' = db
  BY <1>a, ThingAssumption DEF FillCache, Goto, StoreInv, FillFresh
<1> USE DEF StoreInv, TypeInv, TypeOK, InHand, Goto
<1>1. LockHeld'
  BY DEF LockHeld, Busy, FillCache, Benign
<1>2. CacheFilled'
  BY <1>b DEF CacheFilled
<1>3. CreatorAlone'
  BY DEF CreatorAlone, FillCache, Benign
<1>4. FillFresh'
  BY <1>b DEF FillFresh
<1>5. ObjectsInHand'
  BY <1>a DEF ObjectsInHand, ObjectOf, CacheFilled, Clean, Pending, Landed, MergedWithDb, Busy, FillCache
<1>6. CacheCoherent'
  BY <1>a, <1>b DEF CacheCoherent, FillCache
<1>7. KarmaExact'
  BY DEF KarmaExact, FillCache, Benign
<1>8. (db = NoThing => done["karma"] = 0)'
  BY DEF FillCache, Benign
<1> QED
  BY <1>1, <1>2, <1>3, <1>4, <1>5, <1>6, <1>7, <1>8

LEMMA Inv_SetProp ==
    ASSUME Benign, StoreInv, NEW p \in Procs, NEW q \in Props, NEW v \in Vals, SetProp(p, q, v), TypeInv'
    PROVE  StoreInv'
<1>a. /\ self[p] \in Thing /\ self \in [Procs -> Thing \cup {NoThing}]
      /\ Pending(p) /\ pc[p] = "have"
  BY DEF SetProp, StoreInv, TypeInv, TypeOK, InHand, ObjectsInHand, ObjectOf
<1>b. /\ \A x \in Props : self'[p].vals[x] = IF x = q THEN v ELSE self[p].vals[x]
      /\ \A r \in Procs \ {p} : self'[r] = self[r] /\ dirty'[r] = dirty[r] /\ asked'[r] = asked[r]
  BY <1>a, ThingFields DEF SetProp, StoreInv, TypeInv, TypeOK
<1>c. Pending(p)'
  BY <1>a, <1>b DEF Pending, SetProp, StoreInv, TypeInv, TypeOK
<1> USE DEF StoreInv, TypeInv, TypeOK, InHand, Goto
<1>1. LockHeld'
  BY DEF LockHeld, Busy, SetProp
<1>2. CacheFilled'
  BY DEF CacheFilled, Busy, SetProp
<1>3. CreatorAlone'
  BY DEF CreatorAlone, SetProp
<1>4. FillFresh'
  BY DEF FillFresh, SetProp
<1>5. ObjectsInHand'
  <2>1. ObjectOf(p)'
    BY <1>a, <1>b, <1>c DEF ObjectOf, SetProp
  <2>2. ASSUME NEW r \in Procs \ {p} PROVE ObjectOf(r)'
    <3>1. ObjectOf(r)
      BY DEF ObjectsInHand
    <3> QED
      BY <3>1, <1>a, <1>b, <1>c DEF ObjectOf, Clean, Pending, Landed, MergedWithDb, Busy, SetProp
  <2> QED
    BY <2>1, <2>2 DEF ObjectsInHand
<1>6. CacheCoherent'
  BY DEF CacheCoherent, SetProp
<1>7. KarmaExact'
  BY DEF KarmaExact, SetProp
<1>8. (db = NoThing => done["karma"] = 0)'
  BY DEF SetProp
<1> QED
  BY <1>1, <1>2, <1>3, <1>4, <1>5, <1>6, <1>7, <1>8

LEMMA Inv_EndRequest ==
    ASSUME Benign, StoreInv, NEW p \in Procs, EndRequest(p), TypeInv'
    PROVE  StoreInv'
<1> USE DEF StoreInv, TypeInv, TypeOK, InHand, Goto
<1>1. LockHeld'
  BY DEF LockHeld, Busy, EndRequest, Forget, Nothing
<1>2. CacheFilled'
  BY DEF CacheFilled, Busy, EndRequest, Forget, Nothing
<1>3. CreatorAlone'
  BY DEF CreatorAlone, EndRequest, Forget, Nothing
<1>4. FillFresh'
  BY DEF FillFresh, EndRequest, Forget, Nothing
<1>5. ObjectsInHand'
  BY DEF ObjectsInHand, ObjectOf, Clean, Pending, Landed, MergedWithDb, EndRequest, Forget, Nothing
<1>6. CacheCoherent'
  BY DEF CacheCoherent, EndRequest, Forget, Nothing
<1>7. KarmaExact'
  BY DEF KarmaExact, EndRequest, Forget, Nothing
<1>8. (db = NoThing => done["karma"] = 0)'
  BY DEF EndRequest, Forget, Nothing
<1> QED
  BY <1>1, <1>2, <1>3, <1>4, <1>5, <1>6, <1>7, <1>8

LEMMA Inv_StartCommit ==
    ASSUME Benign, StoreInv, NEW p \in Procs, StartCommit(p), TypeInv'
    PROVE  StoreInv'
<1> USE DEF StoreInv, TypeInv, TypeOK, InHand, Goto
<1>1. LockHeld'
  BY StoreAssumption DEF LockHeld, Busy, StartCommit
<1>2. CacheFilled'
  BY DEF CacheFilled, Busy, StartCommit
<1>3. CreatorAlone'
  BY DEF CreatorAlone, StartCommit
<1>4. FillFresh'
  BY DEF FillFresh, StartCommit
<1>5. ObjectsInHand'
  BY DEF ObjectsInHand, ObjectOf, Clean, Pending, Landed, MergedWithDb, StartCommit
<1>6. CacheCoherent'
  BY DEF CacheCoherent, StartCommit
<1>7. KarmaExact'
  BY DEF KarmaExact, StartCommit
<1>8. (db = NoThing => done["karma"] = 0)'
  BY DEF StartCommit
<1> QED
  BY <1>1, <1>2, <1>3, <1>4, <1>5, <1>6, <1>7, <1>8

LEMMA Inv_StartIncr ==
    ASSUME Benign, StoreInv, NEW p \in Procs, NEW c \in Counters, NEW amt \in {-1, 1}, StartIncr(p, c, amt), TypeInv'
    PROVE  StoreInv'
<1> USE DEF StoreInv, TypeInv, TypeOK, InHand, Goto
<1>1. LockHeld'
  BY StoreAssumption DEF LockHeld, Busy, StartIncr
<1>2. CacheFilled'
  BY DEF CacheFilled, Busy, StartIncr
<1>3. CreatorAlone'
  BY DEF CreatorAlone, StartIncr
<1>4. FillFresh'
  BY DEF FillFresh, StartIncr
<1>5. ObjectsInHand'
  BY DEF ObjectsInHand, ObjectOf, Clean, Pending, Landed, MergedWithDb, StartIncr
<1>6. CacheCoherent'
  BY DEF CacheCoherent, StartIncr
<1>7. KarmaExact'
  BY DEF KarmaExact, StartIncr
<1>8. (db = NoThing => done["karma"] = 0)'
  BY DEF StartIncr
<1> QED
  BY <1>1, <1>2, <1>3, <1>4, <1>5, <1>6, <1>7, <1>8

LEMMA Inv_UpdateFromCache ==
    ASSUME Benign, StoreInv, NEW p \in Procs, UpdateFromCache(p), TypeInv'
    PROVE  StoreInv'
<1>a. /\ cache = db /\ cache # NoThing /\ db' = db /\ asked' = asked /\ op' = op
      /\ db \in Thing /\ self[p] \in Thing
  BY CoherentUnderLock, OnlyOneBusy DEF UpdateFromCache, Goto, Busy
<1>b. /\ self'[p] = Merged(p)
      /\ dirty'[p] = {q \in dirty[p] : self[p].vals[q] # db.vals[q]}
      /\ \A r \in Procs \ {p} : self'[r] = self[r] /\ dirty'[r] = dirty[r] /\ pc'[r] = pc[r]
  BY <1>a DEF UpdateFromCache, Goto, StoreInv, TypeInv, TypeOK
<1>c. /\ Merged(p).ups = db.ups /\ Merged(p).karma = db.karma
      /\ \A q \in Props : Merged(p).vals[q] = IF q \in dirty[p] THEN self[p].vals[q] ELSE db.vals[q]
  BY <1>a DEF Merged, Thing
<1>d. Pending(p) /\ (op[p] # Commit => dirty[p] = {})
  BY DEF UpdateFromCache, Goto, StoreInv, ObjectsInHand, ObjectOf
<1>e. MergedWithDb(p)'
  BY <1>a, <1>b, <1>c, <1>d DEF MergedWithDb, Pending
<1> USE DEF StoreInv, TypeInv, TypeOK, InHand, Goto
<1>1. LockHeld'
  BY DEF LockHeld, Busy, UpdateFromCache, Merged
<1>2. CacheFilled'
  BY DEF CacheFilled, Busy, UpdateFromCache, Merged
<1>3. CreatorAlone'
  BY DEF CreatorAlone, UpdateFromCache, Merged
<1>4. FillFresh'
  BY DEF FillFresh, UpdateFromCache, Merged
<1>5. ObjectsInHand'
  BY <1>a, <1>b, <1>d, <1>e DEF ObjectsInHand, ObjectOf, Clean, Pending, Landed, MergedWithDb, UpdateFromCache
<1>6. CacheCoherent'
  BY DEF CacheCoherent, UpdateFromCache, Merged
<1>7. KarmaExact'
  BY DEF KarmaExact, UpdateFromCache, Merged
<1>8. (db = NoThing => done["karma"] = 0)'
  BY DEF UpdateFromCache, Merged
<1> QED
  BY <1>1, <1>2, <1>3, <1>4, <1>5, <1>6, <1>7, <1>8

LEMMA Inv_NothingToCommit ==
    ASSUME Benign, StoreInv, NEW p \in Procs, NothingToCommit(p), TypeInv'
    PROVE  StoreInv'
<1> USE DEF StoreInv, TypeInv, TypeOK, InHand, Goto
<1>1. LockHeld'
  BY DEF LockHeld, Busy, NothingToCommit
<1>2. CacheFilled'
  BY DEF CacheFilled, Busy, NothingToCommit
<1>3. CreatorAlone'
  BY DEF CreatorAlone, NothingToCommit
<1>4. FillFresh'
  BY DEF FillFresh, NothingToCommit
<1>5. ObjectsInHand'
  BY DEF ObjectsInHand, ObjectOf, Clean, Pending, Landed, MergedWithDb, NothingToCommit
<1>6. CacheCoherent'
  BY DEF CacheCoherent, NothingToCommit
<1>7. KarmaExact'
  BY DEF KarmaExact, NothingToCommit
<1>8. (db = NoThing => done["karma"] = 0)'
  BY DEF NothingToCommit
<1> QED
  BY <1>1, <1>2, <1>3, <1>4, <1>5, <1>6, <1>7, <1>8

LEMMA Inv_CommitChanges ==
    ASSUME Benign, StoreInv, NEW p \in Procs, CommitChanges(p), TypeInv'
    PROVE  StoreInv'
<1>o. /\ \A r \in Procs \ {p} : pc[r] \notin Busy /\ pc'[r] = pc[r]
      /\ \A r \in Procs : pc[r] # "created"
      /\ cache # NoThing /\ db \in Thing /\ self[p] \in Thing /\ db # NoThing
  BY OnlyOneBusy DEF CommitChanges, Goto, Busy, StoreInv, TypeInv, TypeOK
<1> DEFINE w == [q \in Props |-> IF q \in dirty[p] THEN self[p].vals[q] ELSE db.vals[q]]
<1>a. /\ db' = [db EXCEPT !.vals = w] /\ dirty' = [dirty EXCEPT ![p] = {}]
      /\ self' = self /\ asked' = asked /\ cache' = cache /\ op' = op /\ done' = done
  BY DEF CommitChanges
<1>b. w \in [Props -> Vals]
  BY <1>o, ThingFields
<1> HIDE DEF w
<1>c. db' \in Thing /\ db'.vals = w /\ db'.ups = db.ups /\ db'.karma = db.karma
  BY <1>a, <1>b, <1>o, ThingWithVals
<1>d. MergedWithDb(p)
  BY DEF CommitChanges, Goto, StoreInv, ObjectsInHand, ObjectOf
<1>e. self[p].ups = db'.ups /\ self[p].karma = db'.karma /\ \A q \in Props : self[p].vals[q] = db'.vals[q]
  BY <1>c, <1>d DEF MergedWithDb, w
<1>f. self[p] = db'
  BY <1>c, <1>e, <1>o, ThingsEqual
<1>g. Landed(p)'
  BY <1>a, <1>c, <1>d DEF Landed, MergedWithDb, w
<1>h. db' # NoThing
  BY <1>c, ThingAssumption
<1> USE DEF StoreInv, TypeInv, TypeOK, InHand, Goto
<1>1. LockHeld'
  BY DEF LockHeld, Busy, CommitChanges
<1>2. CacheFilled'
  BY DEF CacheFilled, Busy, CommitChanges
<1>3. CreatorAlone'
  BY <1>o DEF CreatorAlone, CommitChanges
<1>4. FillFresh'
  BY <1>o, <1>a DEF FillFresh
<1>5. ObjectsInHand'
  <2>1. ObjectOf(p)'
    BY <1>o, <1>a, <1>f, <1>g DEF ObjectOf, CommitChanges
  <2>2. ASSUME NEW r \in Procs \ {p} PROVE ObjectOf(r)'
    <3>1. ObjectOf(r)
      BY DEF ObjectsInHand
    <3> QED
      BY <3>1, <1>o, <1>a, <1>f, <1>g DEF ObjectOf, Clean, Pending, Landed, MergedWithDb, Busy, CommitChanges
  <2> QED
    BY <2>1, <2>2 DEF ObjectsInHand
<1>6. CacheCoherent'
  BY DEF CacheCoherent, CommitChanges
<1>7. KarmaExact'
  BY <1>a, <1>c, <1>o DEF KarmaExact, Read
<1>8. (db = NoThing => done["karma"] = 0)'
  BY <1>h
<1> QED
  BY <1>1, <1>2, <1>3, <1>4, <1>5, <1>6, <1>7, <1>8

LEMMA Inv_CacheCommitted ==
    ASSUME Benign, StoreInv, NEW p \in Procs, CacheCommitted(p), TypeInv'
    PROVE  StoreInv'
<1>o. /\ \A r \in Procs \ {p} : pc[r] \notin Busy /\ pc'[r] = pc[r]
      /\ \A r \in Procs : pc[r] # "created"
      /\ cache # NoThing /\ db \in Thing /\ self[p] \in Thing /\ db # NoThing
  BY OnlyOneBusy DEF CacheCommitted, Goto, Busy, StoreInv, TypeInv, TypeOK
<1>a. /\ cache' = db /\ db' = db /\ cache' # NoThing /\ self' = self
      /\ asked' = asked /\ op' = op /\ dirty' = dirty /\ done' = done
  BY <1>o DEF CacheCommitted, Goto, StoreInv, ObjectsInHand, ObjectOf
<1>b. dirty[p] = {} /\ Landed(p)
  BY DEF CacheCommitted, Goto, StoreInv, ObjectsInHand, ObjectOf
<1> USE DEF StoreInv, TypeInv, TypeOK, InHand, Goto
<1>1. LockHeld'
  BY DEF LockHeld, Busy, CacheCommitted
<1>2. CacheFilled'
  BY <1>a DEF CacheFilled
<1>3. CreatorAlone'
  BY DEF CreatorAlone, CacheCommitted
<1>4. FillFresh'
  BY <1>a DEF FillFresh
<1>5. ObjectsInHand'
  BY <1>o, <1>a, <1>b DEF ObjectsInHand, ObjectOf, Clean, Pending, Landed, Busy, CacheCommitted
<1>6. CacheCoherent'
  BY <1>a DEF CacheCoherent
<1>7. KarmaExact'
  BY <1>a DEF KarmaExact, Read
<1>8. (db = NoThing => done["karma"] = 0)'
  BY DEF CacheCommitted
<1> QED
  BY <1>1, <1>2, <1>3, <1>4, <1>5, <1>6, <1>7, <1>8

LEMMA Inv_CacheIncremented ==
    ASSUME Benign, StoreInv, NEW p \in Procs, CacheIncremented(p), TypeInv'
    PROVE  StoreInv'
<1>o. /\ \A r \in Procs \ {p} : pc[r] \notin Busy /\ pc'[r] = pc[r]
      /\ \A r \in Procs : pc[r] # "created"
      /\ cache # NoThing /\ db \in Thing /\ self[p] \in Thing /\ db # NoThing
  BY OnlyOneBusy DEF CacheIncremented, Goto, Busy, StoreInv, TypeInv, TypeOK
<1>a. MergedWithDb(p) /\ dirty[p] = {} /\ op[p] # Commit /\ op[p] \in Ops
  BY DEF CacheIncremented, Goto, StoreInv, ObjectsInHand, ObjectOf, TypeInv, TypeOK
<1>b. self[p] = db
  BY <1>a, <1>o, ThingsEqual DEF MergedWithDb
<1>c. Landed(p)
  BY <1>a DEF MergedWithDb, Landed
<1>d. /\ cache' = Incremented(p) /\ self'[p] = Incremented(p)
      /\ \A r \in Procs \ {p} : self'[r] = self[r]
      /\ db' = db /\ asked' = asked /\ op' = op /\ dirty' = dirty /\ done' = done
  BY DEF CacheIncremented, StoreInv, TypeInv, TypeOK
<1>e. Incremented(p) = [db EXCEPT ![op[p].on] = Read(db, op[p].on) + op[p].amt]
  BY <1>b DEF Incremented
<1>f. cache' # NoThing
  BY <1>a, <1>d, <1>o, IncrementedIsThing, ThingAssumption
<1> USE DEF StoreInv, TypeInv, TypeOK, InHand, Goto
<1>1. LockHeld'
  BY DEF LockHeld, Busy, CacheIncremented, Incremented
<1>2. CacheFilled'
  BY <1>f DEF CacheFilled
<1>3. CreatorAlone'
  BY <1>o DEF CreatorAlone, CacheIncremented
<1>4. FillFresh'
  BY <1>f DEF FillFresh
<1>5. ObjectsInHand'
  <2>1. ObjectOf(p)'
    BY <1>o, <1>a, <1>c, <1>d, <1>e DEF ObjectOf, Landed, CacheIncremented
  <2>2. ASSUME NEW r \in Procs \ {p} PROVE ObjectOf(r)'
    <3>1. ObjectOf(r)
      BY DEF ObjectsInHand
    <3> QED
      BY <3>1, <1>o, <1>a, <1>c, <1>d, <1>e DEF ObjectOf, Clean, Pending, Landed, MergedWithDb, Busy, CacheIncremented
  <2> QED
    BY <2>1, <2>2 DEF ObjectsInHand
<1>6. CacheCoherent'
  BY DEF CacheCoherent, CacheIncremented
<1>7. KarmaExact'
  BY DEF KarmaExact, CacheIncremented, Incremented
<1>8. (db = NoThing => done["karma"] = 0)'
  BY DEF CacheIncremented, Incremented
<1> QED
  BY <1>1, <1>2, <1>3, <1>4, <1>5, <1>6, <1>7, <1>8

\* What COMMIT leaves in the database is the object in hand, which is in the
\* cache already.
LEMMA IncrementWritesObject ==
    ASSUME StoreInv, NEW p \in Procs, CommitIncrement(p)
    PROVE  db' = self[p]
<1>o. /\ \A r \in Procs \ {p} : pc[r] \notin Busy /\ pc'[r] = pc[r]
      /\ \A r \in Procs : pc[r] # "created"
      /\ cache # NoThing /\ db \in Thing /\ self[p] \in Thing /\ db # NoThing
  BY OnlyOneBusy DEF CommitIncrement, Goto, Busy, StoreInv, TypeInv, TypeOK
<1>a. /\ op[p] # Commit /\ op[p] \in Ops /\ dirty[p] = {} /\ Landed(p) /\ cache = self[p]
      /\ self[p] = [db EXCEPT ![op[p].on] = Read(db, op[p].on) + op[p].amt]
      /\ Read(db, "karma") = done["karma"]
  BY <1>o DEF CommitIncrement, Goto, StoreInv, ObjectsInHand, ObjectOf, TypeInv, TypeOK, InHand, KarmaExact
<1>b. op[p].on \in Counters /\ op[p].amt \in Int /\ Read(db, op[p].on) \in Int
  BY <1>a, <1>o, OpsFacts, ReadIsInt
<1>c. /\ self[p][op[p].on] = Read(db, op[p].on) + op[p].amt /\ self[p].vals = db.vals
      /\ \A d \in Counters \ {op[p].on} : self[p][d] = db[d]
  <2> DEFINE n == Read(db, op[p].on) + op[p].amt
             c == op[p].on
  <2>1. n \in Int /\ c \in Counters /\ self[p] = [db EXCEPT ![c] = n]
    BY <1>a, <1>b
  <2> HIDE DEF n, c
  <2>2. self[p][c] = n /\ self[p].vals = db.vals /\ \A d \in Counters \ {c} : self[p][d] = db[d]
    BY <1>o, <2>1, CounterOfThing
  <2> QED
    BY <2>2 DEF n, c
<1>d. CounterAfter(p) = Read(db, op[p].on) + op[p].amt
  <2>1. CASE op[p].on = "ups"
    BY <2>1, <1>b, <1>c, <1>o, ThingFields, StoreAssumption DEF CounterAfter, Read
  <2>2. CASE op[p].on = "karma"
    BY <2>2, <1>b, <1>c, <1>o, ThingFields, StoreAssumption DEF CounterAfter, Read
  <2> QED
    BY <2>1, <2>2, <1>b DEF Counters
<1> QED
  BY <1>a, <1>d DEF CommitIncrement

LEMMA Inv_CommitIncrement ==
    ASSUME Benign, StoreInv, NEW p \in Procs, CommitIncrement(p), TypeInv'
    PROVE  StoreInv'
<1>o. /\ \A r \in Procs \ {p} : pc[r] \notin Busy /\ pc'[r] = pc[r]
      /\ \A r \in Procs : pc[r] # "created"
      /\ cache # NoThing /\ db \in Thing /\ self[p] \in Thing /\ db # NoThing
  BY OnlyOneBusy DEF CommitIncrement, Goto, Busy, StoreInv, TypeInv, TypeOK
<1>a. /\ op[p] # Commit /\ op[p] \in Ops /\ dirty[p] = {} /\ Landed(p) /\ cache = self[p]
      /\ self[p] = [db EXCEPT ![op[p].on] = Read(db, op[p].on) + op[p].amt]
      /\ Read(db, "karma") = done["karma"]
  BY <1>o DEF CommitIncrement, Goto, StoreInv, ObjectsInHand, ObjectOf, TypeInv, TypeOK, InHand, KarmaExact
<1>b. op[p].on \in Counters /\ op[p].amt \in Int /\ Read(db, op[p].on) \in Int
  BY <1>a, <1>o, OpsFacts, ReadIsInt
<1>c. /\ self[p][op[p].on] = Read(db, op[p].on) + op[p].amt /\ self[p].vals = db.vals
      /\ \A d \in Counters \ {op[p].on} : self[p][d] = db[d]
  <2> DEFINE n == Read(db, op[p].on) + op[p].amt
             c == op[p].on
  <2>1. n \in Int /\ c \in Counters /\ self[p] = [db EXCEPT ![c] = n]
    BY <1>a, <1>b
  <2> HIDE DEF n, c
  <2>2. self[p][c] = n /\ self[p].vals = db.vals /\ \A d \in Counters \ {c} : self[p][d] = db[d]
    BY <1>o, <2>1, CounterOfThing
  <2> QED
    BY <2>2 DEF n, c
<1>e. db' = self[p] /\ db' \in Thing /\ db' # NoThing /\ db'.vals = db.vals
  BY <1>o, <1>c, IncrementWritesObject, ThingAssumption
<1>f. /\ cache' = db' /\ self' = self /\ asked' = asked /\ op' = op /\ dirty' = dirty
      /\ done' = [done EXCEPT ![op[p].on] = @ + op[p].amt]
  BY <1>a, <1>e DEF CommitIncrement
<1>g. Read(db', "karma") = done'["karma"]
  <2>1. CASE op[p].on = "ups"
    <3>1. db'.karma = db.karma /\ done'["karma"] = done["karma"]
      BY <2>1, <1>b, <1>c, <1>e, <1>f DEF Counters, StoreInv, TypeInv, TypeOK
    <3> QED
      BY <3>1, <1>a DEF Read
  <2>2. CASE op[p].on = "karma"
    <3>1. db'.karma = Read(db, "karma") + op[p].amt /\ db'.karma \in Int
      BY <2>2, <1>b, <1>c, <1>e
    <3>2. done'["karma"] = done["karma"] + op[p].amt
      BY <2>2, <1>f DEF Counters, StoreInv, TypeInv, TypeOK
    <3> QED
      BY <3>1, <3>2, <1>a, StoreAssumption DEF Read
  <2> QED
    BY <2>1, <2>2, <1>b DEF Counters
<1> USE DEF StoreInv, TypeInv, TypeOK, InHand, Goto
<1>1. LockHeld'
  BY DEF LockHeld, Busy, CommitIncrement
<1>2. CacheFilled'
  BY <1>e, <1>f DEF CacheFilled
<1>3. CreatorAlone'
  BY <1>o DEF CreatorAlone, CommitIncrement
<1>4. FillFresh'
  BY <1>e, <1>f DEF FillFresh
<1>5. ObjectsInHand'
  BY <1>o, <1>a, <1>e, <1>f DEF ObjectsInHand, ObjectOf, Clean, Pending, Landed, Busy, CommitIncrement
<1>6. CacheCoherent'
  BY <1>f DEF CacheCoherent
<1>7. KarmaExact'
  BY <1>g DEF KarmaExact
<1>8. (db = NoThing => done["karma"] = 0)'
  BY <1>e
<1> QED
  BY <1>1, <1>2, <1>3, <1>4, <1>5, <1>6, <1>7, <1>8

LEMMA Inv_Release ==
    ASSUME Benign, StoreInv, NEW p \in Procs, Release(p), TypeInv'
    PROVE  StoreInv'
<1> USE DEF StoreInv, TypeInv, TypeOK, InHand, Goto
<1>1. LockHeld'
  BY DEF LockHeld, Busy, Release, Nothing
<1>2. CacheFilled'
  BY DEF CacheFilled, Busy, Release, Nothing
<1>3. CreatorAlone'
  BY DEF CreatorAlone, Release, Nothing
<1>4. FillFresh'
  BY DEF FillFresh, Release, Nothing
<1>5. ObjectsInHand'
  BY DEF ObjectsInHand, ObjectOf, Clean, Pending, Landed, MergedWithDb, Release, Nothing
<1>6. CacheCoherent'
  BY DEF CacheCoherent, Release, Nothing
<1>7. KarmaExact'
  BY DEF KarmaExact, Release, Nothing
<1>8. (db = NoThing => done["karma"] = 0)'
  BY DEF Release, Nothing
<1> QED
  BY <1>1, <1>2, <1>3, <1>4, <1>5, <1>6, <1>7, <1>8

LEMMA Inv_StatementFails ==
    ASSUME Benign, StoreInv, NEW p \in Procs, StatementFails(p), TypeInv'
    PROVE  StoreInv'
<1> USE DEF StoreInv, TypeInv, TypeOK, InHand, Goto
<1>1. LockHeld'
  BY DEF LockHeld, Busy, StatementFails, Raise, Forget, Nothing
<1>2. CacheFilled'
  BY DEF CacheFilled, Busy, StatementFails, Raise, Forget, Nothing
<1>3. CreatorAlone'
  BY DEF CreatorAlone, StatementFails, Raise, Forget, Nothing
<1>4. FillFresh'
  BY DEF FillFresh, StatementFails, Raise, Forget, Nothing
<1>5. ObjectsInHand'
  BY DEF ObjectsInHand, ObjectOf, Clean, Pending, Landed, MergedWithDb, StatementFails, Raise, Forget, Nothing
<1>6. CacheCoherent'
  BY DEF CacheCoherent, StatementFails, Raise, Forget, Nothing
<1>7. KarmaExact'
  BY DEF KarmaExact, StatementFails, Raise, Forget, Nothing
<1>8. (db = NoThing => done["karma"] = 0)'
  BY DEF StatementFails, Raise, Forget, Nothing
<1> QED
  BY <1>1, <1>2, <1>3, <1>4, <1>5, <1>6, <1>7, <1>8

LEMMA Inv_LockExpires ==
    ASSUME Benign, StoreInv, LockExpires, TypeInv'
    PROVE  StoreInv'
<1>1. LockHeld'
  BY StoreAssumption DEF LockHeld, LockExpires, StoreInv, Benign
<1> QED
  BY <1>1 DEF LockExpires, StoreInv, CacheFilled, CreatorAlone, FillFresh, ObjectsInHand, ObjectOf,
     CacheCoherent, KarmaExact, Clean, Pending, Landed, MergedWithDb, Read

LEMMA StoreStep ==
    ASSUME Benign
    PROVE  StoreInv /\ [Next]_vars => StoreInv'
<1> SUFFICES ASSUME StoreInv, [Next]_vars PROVE StoreInv'
  OBVIOUS
<1>t. TypeInv'
  BY TypeStep DEF StoreInv
<1>u. CASE UNCHANGED vars
  BY <1>u, <1>t DEF vars, drift, StoreInv, LockHeld, CacheFilled, CreatorAlone, FillFresh, ObjectsInHand, ObjectOf,
     CacheCoherent, KarmaExact, Clean, Pending, Landed, MergedWithDb, Read
<1>e. CASE Evict
  BY <1>e DEF Evict, Benign
<1>x. CASE LockExpires
  BY <1>x, Inv_LockExpires, <1>t
<1>p. ASSUME NEW p \in Procs, LookUp(p) \/ Write(p) \/ Fault(p) PROVE StoreInv'
  <2>1. CASE LookUp(p)
    BY <1>t, <2>1, Inv_LookUpCached, Inv_ReadBase, Inv_ReadData, Inv_FillCache DEF LookUp
  <2>2. CASE Write(p)
    <3>1. ASSUME NEW q \in Props, NEW v \in Vals, SetProp(p, q, v) PROVE StoreInv'
      BY <1>t, <3>1, Inv_SetProp
    <3>2. ASSUME NEW c \in Counters, NEW amt \in {-1, 1}, StartIncr(p, c, amt) PROVE StoreInv'
      BY <1>t, <3>2, Inv_StartIncr
    <3> QED
      BY <1>t, <2>2, <3>1, <3>2, Inv_Create, Inv_PublishNew, Inv_StartCommit, Inv_UpdateFromCache,
         Inv_NothingToCommit, Inv_CommitChanges, Inv_CacheCommitted, Inv_CacheIncremented,
         Inv_CommitIncrement, Inv_Release, Inv_EndRequest
         DEF Write
  <2>3. CASE Fault(p)
    BY <1>t, <2>3, Inv_StatementFails DEF Fault, CommitFails, CacheWriteFails, Crash, Benign
  <2> QED
    BY <1>p, <2>1, <2>2, <2>3
<1> QED
  BY <1>u, <1>e, <1>x, <1>p DEF Next

LEMMA StoreAlways ==
    ASSUME Benign
    PROVE  Spec => []StoreInv
BY StoreInit, StoreStep, PTL DEF Spec

\* The cached object is the database's, while nobody is between the two writes
\* (thing.py:288, "a perfectly consistent copy of the thing in cache").
THEOREM CacheIsCoherent ==
    ASSUME Benign
    PROVE  Spec => []CacheCoherent
<1>1. StoreInv => CacheCoherent
  BY DEF StoreInv
<1> QED
  BY <1>1, StoreAlways, PTL

\* What a caller has set is in the database when its _commit returns
\* (thing.py:333-343).
THEOREM CommitsLand ==
    ASSUME Benign
    PROVE  Spec => []CommitLands
<1>1. StoreInv => CommitLands
  BY DEF StoreInv, ObjectsInHand, ObjectOf, Landed, CommitLands
<1> QED
  BY <1>1, StoreAlways, PTL

\* No increment of a data counter is lost, the first one included
\* (thing.py:652-668).
THEOREM KarmaIsExact ==
    ASSUME Benign
    PROVE  Spec => []KarmaExact
<1>1. StoreInv => KarmaExact
  BY DEF StoreInv
<1> QED
  BY <1>1, StoreAlways, PTL

-----------------------------------------------------------------------------
(***************************************************************************)
(* Each call takes effect at one moment.  CallsAre, ValsAre and CountsAre  *)
(* are what the refinement mapping reads off the store; a step of a        *)
(* process moves its own call only, and the object it has in hand when it  *)
(* has taken effect is the database's (StoreInv).                          *)
(***************************************************************************)

ValsAre == IF db = NoThing THEN Fresh ELSE db.vals
CountsAre == [c \in Counters |-> IF db = NoThing THEN 0 ELSE Read(db, c)]
CallsAre == [p \in Procs |-> CallOf(p)]

Places == {"idle", "created", "base_read", "data_read", "have", "locked", "merged", "written",
           "cached", "leaving"}

LEMMA CallFacts ==
    ASSUME NEW p \in Procs
    PROVE  /\ pc[p] \in {"locked", "merged", "cached"} => CallOf(p) = [at |-> "started", op |-> op[p]]
           /\ pc[p] \in {"written", "leaving"} => CallOf(p).at = "answered"
           /\ pc[p] \in {"idle", "created", "base_read", "data_read", "have"} => CallOf(p) = [at |-> "ready"]
           /\ CallsAre[p] = CallOf(p)
BY DEF CallOf, CallsAre

LEMMA CallFactsNext ==
    ASSUME NEW p \in Procs
    PROVE  /\ pc'[p] \in {"locked", "merged", "cached"} => CallOf(p)' = [at |-> "started", op |-> op'[p]]
           /\ pc'[p] \in {"idle", "created", "base_read", "data_read", "have"} => CallOf(p)' = [at |-> "ready"]
BY DEF CallOf

LEMMA CallStays ==
    ASSUME NEW p \in Procs, pc'[p] = pc[p], op'[p] = op[p], self'[p] = self[p]
    PROVE  CallOf(p)' = CallOf(p)
BY DEF CallOf, Read

\* Who is answered has the database's thing in hand.
LEMMA CallAnswered ==
    ASSUME NEW p \in Procs, pc'[p] \in {"written", "leaving"}, self'[p] = db', db' # NoThing
    PROVE  CallOf(p)' = [at |-> "answered", vals |-> ValsAre', count |-> CountsAre']
BY DEF CallOf, Read, ValsAre, CountsAre

\* A step of p, which leaves p's call in x, moves the calls so.
LEMMA CallMoves ==
    ASSUME NEW p \in Procs, NEW x, CallOf(p)' = x,
           \A r \in Procs \ {p} : pc'[r] = pc[r] /\ op'[r] = op[r] /\ self'[r] = self[r]
    PROVE  CallsAre' = [CallsAre EXCEPT ![p] = x]
<1>1. \A r \in Procs \ {p} : CallOf(r)' = CallOf(r)
  BY CallStays
<1> QED
  BY <1>1 DEF CallsAre

\* Every step of p leaves the others where they are.
LEMMA OthersStay ==
    ASSUME TypeInv, NEW p \in Procs, LookUp(p) \/ Write(p) \/ StatementFails(p)
    PROVE  \A r \in Procs \ {p} : pc'[r] = pc[r] /\ op'[r] = op[r] /\ self'[r] = self[r]
<1>1. pc \in [Procs -> Places] /\ op \in [Procs -> Ops] /\ self \in [Procs -> Thing \cup {NoThing}]
  BY DEF TypeInv, TypeOK, Places
<1> QED
  BY <1>1 DEF LookUp, Write, Goto, LookUpCached, ReadBase, ReadData, FillCache, Create, PublishNew, SetProp,
     StartCommit, StartIncr, UpdateFromCache, NothingToCommit, CommitChanges, CacheCommitted,
     CacheIncremented, CommitIncrement, Release, EndRequest, StatementFails, Raise, Forget

\* Where neither the value nor what was asked changes, nothing is to be seen if
\* p's call stays as it is.
LEMMA Unseen ==
    ASSUME StoreInv, NEW p \in Procs, LookUp(p) \/ Write(p) \/ StatementFails(p),
           CallOf(p)' = CallOf(p)
    PROVE  CallsAre' = CallsAre
<1>1. CallsAre' = [CallsAre EXCEPT ![p] = CallOf(p)]
  BY OthersStay, CallMoves DEF StoreInv
<1> QED
  BY <1>1 DEF CallsAre

LEMMA SameDb ==
    ASSUME db' = db
    PROVE  ValsAre' = ValsAre /\ CountsAre' = CountsAre
BY DEF ValsAre, CountsAre, Read

LEMMA AbstractInit == Init => Abstract!AtomicInit
<1> SUFFICES ASSUME Init PROVE Abstract!AtomicInit
  OBVIOUS
<1>1. ValsAre = Fresh /\ CountsAre = [c \in Counters |-> 0]
  BY CreatedIsThing, StoreAssumption DEF Init, Created, Read, Counters, ValsAre, CountsAre
<1>2. CallsAre = [p \in Procs |-> [at |-> "ready"]]
  BY CallFacts DEF Init, CallsAre
<1> QED
  BY <1>1, <1>2 DEF Init, Abstract!AtomicInit, Abstract!Ready, Abstract!Nothing, Nothing,
     ValsAre, CountsAre, CallsAre

\* What cannot be told from outside: lookups, the creation, and the steps of a
\* call before and after the one that counts.
Silent(p) ==
    \/ LookUp(p) \/ Create(p) \/ PublishNew(p)
    \/ UpdateFromCache(p) \/ CacheIncremented(p) \/ CacheCommitted(p)

LEMMA SilentStep ==
    ASSUME StoreInv, NEW p \in Procs, Silent(p)
    PROVE  UNCHANGED <<ValsAre, CountsAre, asked, CallsAre>>
<1>t. pc \in [Procs -> Places] /\ self \in [Procs -> Thing \cup {NoThing}] /\ op \in [Procs -> Ops]
  BY DEF StoreInv, TypeInv, TypeOK, Places
<1>1. asked' = asked
  BY DEF Silent, LookUp, LookUpCached, ReadBase, ReadData, FillCache, Create, PublishNew,
     UpdateFromCache, CacheIncremented, CacheCommitted
<1>2. ValsAre' = ValsAre /\ CountsAre' = CountsAre
  <2>1. CASE Create(p)
    BY <2>1, CreatedIsThing, StoreAssumption DEF Create, Read, Created, Counters, ValsAre, CountsAre
  <2>2. CASE db' = db
    BY <2>2, SameDb
  <2> QED
    BY <2>1, <2>2 DEF Silent, LookUp, LookUpCached, ReadBase, ReadData, FillCache, PublishNew,
       UpdateFromCache, CacheIncremented, CacheCommitted
<1>3. CallOf(p)' = CallOf(p)
  <2>1. CASE CacheCommitted(p)
    BY <2>1, <1>t DEF CacheCommitted, Goto, CallOf, Read
  <2>2. CASE UpdateFromCache(p) \/ CacheIncremented(p)
    <3>1. pc[p] \in {"locked", "merged", "cached"} /\ pc'[p] \in {"locked", "merged", "cached"} /\ op' = op
      BY <2>2, <1>t DEF UpdateFromCache, CacheIncremented, Goto
    <3> QED
      BY <3>1, CallFacts, CallFactsNext
  <2>3. CASE LookUp(p) \/ Create(p) \/ PublishNew(p)
    <3>1. /\ pc[p] \in {"idle", "created", "base_read", "data_read", "have"}
          /\ pc'[p] \in {"idle", "created", "base_read", "data_read", "have"}
      BY <2>3, <1>t DEF LookUp, LookUpCached, ReadBase, ReadData, FillCache, Create, PublishNew, Goto
    <3> QED
      BY <3>1, CallFacts, CallFactsNext
  <2> QED
    BY <2>1, <2>2, <2>3 DEF Silent
<1>4. LookUp(p) \/ Write(p)
  BY DEF Silent, Write
<1> QED
  BY <1>1, <1>2, <1>3, <1>4, Unseen

\* Setting a property, starting, returning and giving up.
LEMMA AskStep ==
    ASSUME StoreInv, NEW p \in Procs, NEW q \in Props, NEW v \in Vals, SetProp(p, q, v)
    PROVE  Abstract!Ask(p, q, v)
<1>1. pc[p] = "have" /\ pc' = pc /\ db' = db /\ asked' = [asked EXCEPT ![p][q] = v]
  BY DEF SetProp
<1>2. CallOf(p) = [at |-> "ready"] /\ CallOf(p)' = [at |-> "ready"] /\ CallsAre[p] = CallOf(p)
  BY <1>1, CallFacts, CallFactsNext
<1>3. Write(p)
  BY DEF Write
<1>4. CallsAre' = CallsAre
  BY <1>2, <1>3, Unseen
<1> QED
  BY <1>1, <1>2, <1>4, SameDb DEF Abstract!Ask, Abstract!Ready, ValsAre, CountsAre, CallsAre

LEMMA StartStep ==
    ASSUME StoreInv, NEW p \in Procs, NEW o \in Ops, op' = [op EXCEPT ![p] = o], Goto(p, "have", "locked"),
           o # Commit => dirty[p] = {}, db' = db, asked' = asked, Write(p)
    PROVE  Abstract!Start(p, o)
<1>t. pc \in [Procs -> Places] /\ op \in [Procs -> Ops] /\ asked \in [Procs -> [Props -> Vals \cup {Unasked}]]
  BY DEF StoreInv, TypeInv, TypeOK, Places
<1>1. pc[p] = "have" /\ pc'[p] = "locked" /\ op'[p] = o
  BY <1>t DEF Goto
<1>2. CallsAre[p] = [at |-> "ready"] /\ CallOf(p)' = [at |-> "started", op |-> o]
  BY <1>1, CallFacts, CallFactsNext
<1>3. CallsAre' = [CallsAre EXCEPT ![p] = [at |-> "started", op |-> o]]
  BY <1>2, OthersStay, CallMoves DEF StoreInv
<1>4. o # Commit => asked[p] = Nothing
  <2>1. Pending(p)
    BY <1>1 DEF StoreInv, ObjectsInHand, ObjectOf
  <2> QED
    BY <1>t, <2>1 DEF Pending, Nothing
<1> QED
  BY <1>2, <1>3, <1>4, SameDb DEF Abstract!Start, Abstract!Ready, Abstract!Started, Abstract!Commit, Commit,
     Abstract!Nothing, Nothing, ValsAre, CountsAre, CallsAre

LEMMA ReturnStep ==
    ASSUME StoreInv, NEW p \in Procs, Release(p)
    PROVE  Abstract!Return(p)
<1>t. pc \in [Procs -> Places]
  BY DEF StoreInv, TypeInv, TypeOK, Places
<1>1. pc[p] = "leaving" /\ pc'[p] = "have" /\ db' = db /\ asked' = [asked EXCEPT ![p] = Nothing]
  BY <1>t DEF Release, Goto
<1>2. CallsAre[p].at = "answered" /\ CallOf(p)' = [at |-> "ready"]
  BY <1>1, CallFacts, CallFactsNext
<1>3. Write(p)
  BY DEF Write
<1>4. CallsAre' = [CallsAre EXCEPT ![p] = [at |-> "ready"]]
  BY <1>2, <1>3, OthersStay, CallMoves DEF StoreInv
<1> QED
  BY <1>1, <1>2, <1>4, SameDb DEF Abstract!Return, Abstract!Ready, Abstract!Nothing, Nothing,
     ValsAre, CountsAre, CallsAre

LEMMA FailStep ==
    ASSUME StoreInv, NEW p \in Procs, EndRequest(p) \/ StatementFails(p)
    PROVE  Abstract!Fail(p)
<1>t. pc \in [Procs -> Places]
  BY DEF StoreInv, TypeInv, TypeOK, Places
<1>1. pc[p] \in {"have", "merged"} /\ pc'[p] = "idle" /\ db' = db /\ asked' = [asked EXCEPT ![p] = Nothing]
  BY <1>t DEF EndRequest, StatementFails, Raise, Forget
<1>2. CallsAre[p].at # "answered" /\ CallOf(p)' = [at |-> "ready"]
  BY <1>1, CallFacts, CallFactsNext
<1>3. Write(p) \/ StatementFails(p)
  BY DEF Write
<1>4. CallsAre' = [CallsAre EXCEPT ![p] = [at |-> "ready"]]
  BY <1>2, <1>3, OthersStay, CallMoves DEF StoreInv
<1> QED
  BY <1>1, <1>2, <1>4, SameDb DEF Abstract!Fail, Abstract!Ready, Abstract!Nothing, Nothing,
     ValsAre, CountsAre, CallsAre

\* The moment a call takes effect: the value changes as it says, and the object
\* in hand is the thing.
LEMMA EffectStep ==
    ASSUME StoreInv, NEW p \in Procs, Write(p),
           pc[p] \in {"merged", "cached"}, pc'[p] \in {"written", "leaving"},
           self'[p] = db', db' # NoThing, asked' = asked,
           IF op[p] = Commit
           THEN /\ ValsAre' = [q \in Props |-> IF asked[p][q] = Unasked THEN ValsAre[q] ELSE asked[p][q]]
                /\ CountsAre' = CountsAre
           ELSE /\ CountsAre' = [CountsAre EXCEPT ![op[p].on] = @ + op[p].amt]
                /\ ValsAre' = ValsAre
    PROVE  Abstract!TakeEffect(p)
<1>1. CallsAre[p] = [at |-> "started", op |-> op[p]]
  BY CallFacts
<1>2. CallOf(p)' = [at |-> "answered", vals |-> ValsAre', count |-> CountsAre']
  BY CallAnswered
<1>3. CallsAre' = [CallsAre EXCEPT ![p] = [at |-> "answered", vals |-> ValsAre', count |-> CountsAre']]
  BY <1>2, OthersStay, CallMoves DEF StoreInv
<1>4. CallsAre[p].at = "started" /\ CallsAre[p].op = op[p]
  BY <1>1
<1> QED
  BY <1>3, <1>4 DEF Abstract!TakeEffect, Abstract!Changed, Abstract!Answered, Abstract!Commit, Commit,
     ValsAre, CountsAre, CallsAre

LEMMA NothingStep ==
    ASSUME StoreInv, NEW p \in Procs, NothingToCommit(p)
    PROVE  Abstract!TakeEffect(p)
<1>t. pc \in [Procs -> Places] /\ asked \in [Procs -> [Props -> Vals \cup {Unasked}]]
  BY DEF StoreInv, TypeInv, TypeOK, Places
<1>1. /\ pc[p] = "merged" /\ pc'[p] = "leaving" /\ op[p] = Commit /\ dirty[p] = {}
      /\ db' = db /\ self' = self /\ asked' = asked
  BY <1>t DEF NothingToCommit, Goto
<1>2. db \in Thing /\ self[p] \in Thing /\ db # NoThing
  BY <1>1, OnlyOneBusy DEF Busy
<1>3. MergedWithDb(p)
  BY <1>1 DEF StoreInv, ObjectsInHand, ObjectOf
<1>4. self[p] = db
  BY <1>1, <1>2, <1>3, ThingsEqual DEF MergedWithDb
<1>5. ValsAre = db.vals /\ db.vals \in [Props -> Vals]
  BY <1>2, ThingFields DEF ValsAre
<1>6. [q \in Props |-> IF asked[p][q] = Unasked THEN ValsAre[q] ELSE asked[p][q]] = ValsAre
  BY <1>1, <1>3, <1>5 DEF MergedWithDb
<1>7. ValsAre' = ValsAre /\ CountsAre' = CountsAre
  BY <1>1, SameDb
<1>8. Write(p)
  BY DEF Write
<1> QED
  BY <1>1, <1>2, <1>4, <1>6, <1>7, <1>8, EffectStep

LEMMA ChangesStep ==
    ASSUME StoreInv, StoreInv', NEW p \in Procs, CommitChanges(p)
    PROVE  Abstract!TakeEffect(p)
<1>t. pc \in [Procs -> Places] /\ asked \in [Procs -> [Props -> Vals \cup {Unasked}]]
  BY DEF StoreInv, TypeInv, TypeOK, Places
<1>1. /\ pc[p] = "merged" /\ pc'[p] = "written" /\ op[p] = Commit /\ asked' = asked
  BY <1>t DEF CommitChanges, Goto
<1>2. db \in Thing /\ self[p] \in Thing /\ db # NoThing
  BY <1>1, OnlyOneBusy DEF Busy
<1>3. MergedWithDb(p)
  BY <1>1 DEF StoreInv, ObjectsInHand, ObjectOf
<1> DEFINE w == [q \in Props |-> IF q \in dirty[p] THEN self[p].vals[q] ELSE db.vals[q]]
<1>4. db' = [db EXCEPT !.vals = w]
  BY DEF CommitChanges
<1>5. w \in [Props -> Vals]
  BY <1>2, ThingFields
<1>6. w = [q \in Props |-> IF asked[p][q] = Unasked THEN db.vals[q] ELSE asked[p][q]]
  <2>1. ASSUME NEW q \in Props PROVE w[q] = IF asked[p][q] = Unasked THEN db.vals[q] ELSE asked[p][q]
    <3>1. self[p].vals[q] \in Vals
      BY <1>2, ThingFields
    <3> QED
      BY <1>3, <3>1, StoreAssumption DEF MergedWithDb
  <2> QED
    BY <2>1
<1> HIDE DEF w
<1>7. db' \in Thing /\ db'.vals = w /\ db'.ups = db.ups /\ db'.karma = db.karma
  BY <1>2, <1>4, <1>5, ThingWithVals
<1>8. db' # NoThing
  BY <1>7, ThingAssumption
<1>9. ValsAre' = w /\ ValsAre = db.vals
  BY <1>2, <1>7, <1>8 DEF ValsAre
<1>10. CountsAre' = CountsAre
  <2>1. \A c \in Counters : Read(db', c) = Read(db, c)
    BY <1>7 DEF Read, Counters
  <2> QED
    BY <1>2, <1>8, <2>1 DEF CountsAre
<1>11. self'[p] = db'
  BY <1>1 DEF StoreInv, ObjectsInHand, ObjectOf
<1>12. Write(p)
  BY DEF Write
<1> QED
  BY <1>1, <1>6, <1>8, <1>9, <1>10, <1>11, <1>12, EffectStep

LEMMA IncrementStep ==
    ASSUME StoreInv, NEW p \in Procs, CommitIncrement(p)
    PROVE  Abstract!TakeEffect(p)
<1>t. pc \in [Procs -> Places]
  BY DEF StoreInv, TypeInv, TypeOK, Places
<1>1. pc[p] = "cached" /\ pc'[p] = "leaving" /\ asked' = asked /\ self' = self
  BY <1>t DEF CommitIncrement, Goto
<1>2. db \in Thing /\ self[p] \in Thing /\ db # NoThing
  BY <1>1, OnlyOneBusy DEF Busy
<1>3. db' = self[p]
  BY IncrementWritesObject
<1>4. /\ op[p] \in Ops /\ op[p] # Commit
      /\ self[p] = [db EXCEPT ![op[p].on] = Read(db, op[p].on) + op[p].amt]
  BY <1>1 DEF StoreInv, TypeInv, TypeOK, InHand, ObjectsInHand, ObjectOf
<1>5. op[p].on \in Counters /\ op[p].amt \in {-1, 1} /\ Read(db, op[p].on) + op[p].amt \in Int
  BY <1>2, <1>4, OpsFacts, ReadIsInt DEF Ops, Commit
<1> DEFINE n == Read(db, op[p].on) + op[p].amt
           k == op[p].on
<1>6. n \in Int /\ k \in Counters /\ db' = [db EXCEPT ![k] = n]
  BY <1>3, <1>4, <1>5
<1> HIDE DEF n, k
<1>7. /\ db' \in Thing /\ db'[k] = n /\ db'.vals = db.vals
      /\ \A d \in Counters \ {k} : db'[d] = db[d]
  <2>1. [db EXCEPT ![k] = n] \in Thing
    BY <1>2, <1>6, CounterOfThing
  <2> QED
    BY <1>2, <1>6, <2>1, CounterOfThing
<1>8. db' # NoThing
  BY <1>7, ThingAssumption
<1>9. \A d \in Counters : Read(db', d) = IF d = k THEN n ELSE Read(db, d)
  BY <1>6, <1>7, StoreAssumption DEF Read
<1>10. CountsAre' = [CountsAre EXCEPT ![k] = @ + op[p].amt]
  BY <1>2, <1>6, <1>8, <1>9 DEF n, k, CountsAre
<1>11. ValsAre' = ValsAre
  BY <1>2, <1>7, <1>8 DEF ValsAre
<1>12. Write(p)
  BY DEF Write
<1> QED
  BY <1>1, <1>3, <1>4, <1>8, <1>10, <1>11, <1>12, EffectStep DEF k

LEMMA AbstractStep ==
    ASSUME Benign, StoreInv, StoreInv', [Next]_vars
    PROVE  [Abstract!AtomicNext]_<<ValsAre, CountsAre, asked, CallsAre>>
<1> SUFFICES Abstract!AtomicNext \/ UNCHANGED <<ValsAre, CountsAre, asked, CallsAre>>
  BY DEF ValsAre, CountsAre, CallsAre
<1>1. CASE UNCHANGED vars \/ LockExpires
  <2>1. db' = db /\ asked' = asked /\ pc' = pc /\ op' = op /\ self' = self
    BY <1>1 DEF vars, LockExpires
  <2>2. CallsAre' = CallsAre
    BY <2>1, CallStays DEF CallsAre
  <2> QED
    BY <2>1, <2>2, SameDb
<1>2. ASSUME NEW p \in Procs, LookUp(p) \/ Write(p) \/ Fault(p)
      PROVE  Abstract!AtomicNext \/ UNCHANGED <<ValsAre, CountsAre, asked, CallsAre>>
  <2>1. CASE Silent(p)
    BY <2>1, SilentStep
  <2>2. ASSUME NEW q \in Props, NEW v \in Vals, SetProp(p, q, v) PROVE Abstract!AtomicNext
    BY <2>2, AskStep DEF Abstract!AtomicNext
  <2>3. CASE StartCommit(p)
    <3>1. Write(p) /\ Commit \in Ops
      BY <2>3 DEF Write, Ops
    <3>2. Abstract!Start(p, Commit)
      BY <2>3, <3>1, StartStep DEF StartCommit
    <3> QED
      BY <3>2 DEF Abstract!AtomicNext, Abstract!Ops, Abstract!Commit, Commit
  <2>4. ASSUME NEW c \in Counters, NEW amt \in {-1, 1}, StartIncr(p, c, amt) PROVE Abstract!AtomicNext
    <3> DEFINE o == [on |-> c, amt |-> amt]
    <3>1. Write(p) /\ o \in Ops /\ o \in Abstract!Ops
      BY <2>4 DEF Write, Ops, Abstract!Ops
    <3>2. Abstract!Start(p, o)
      BY <2>4, <3>1, StartStep DEF StartIncr
    <3> QED
      BY <3>1, <3>2 DEF Abstract!AtomicNext
  <2>5. CASE NothingToCommit(p) \/ CommitChanges(p) \/ CommitIncrement(p)
    BY <2>5, NothingStep, ChangesStep, IncrementStep DEF Abstract!AtomicNext
  <2>6. CASE Release(p)
    BY <2>6, ReturnStep DEF Abstract!AtomicNext
  <2>7. CASE EndRequest(p) \/ StatementFails(p)
    BY <2>7, FailStep DEF Abstract!AtomicNext
  <2> QED
    BY <1>2, <2>1, <2>2, <2>3, <2>4, <2>5, <2>6, <2>7
       DEF Silent, Write, Fault, CommitFails, CacheWriteFails, Crash, Benign
<1> QED
  BY <1>1, <1>2 DEF Next, Evict, Benign

\* Each call of _commit and _incr takes effect at one moment on the one value in
\* the database, cache, lock and stale copies notwithstanding (thing.py:333-343,
\* :633-672).
THEOREM Refinement ==
    ASSUME Benign
    PROVE  Spec => ImplementsThing
<1>1. StoreInv /\ StoreInv' /\ [Next]_vars
        => [Abstract!AtomicNext]_<<ValsAre, CountsAre, asked, CallsAre>>
  BY AbstractStep
<1> QED
  BY <1>1, AbstractInit, StoreAlways, PTL DEF Spec, ImplementsThing, Abstract!AtomicSpec,
     ValsAre, CountsAre, CallsAre
-----------------------------------------------------------------------------
(***************************************************************************)
(* How far the cache is off.  With failures between the two writes the     *)
(* cached object is no longer the database's, but every writer starts from *)
(* it and writes back what it changed: the difference stays what failed.   *)
(* The cache is never empty while somebody works on an object, as long as  *)
(* nothing has happened that it does not withstand.                        *)
(***************************************************************************)

PlainLaw == \A q \in Props : cache.vals[q] = db.vals[q] \/ q \in behind

\* What a process's dirty properties are: asked for, and none once it has
\* committed them or if it came to increment.
DirtyAsked(p) ==
    /\ dirty[p] \subseteq Asked(p)
    /\ pc[p] \notin {"have", "locked", "merged"} => dirty[p] = {}
    /\ pc[p] \in {"idle", "created", "base_read", "data_read"} => Asked(p) = {}
    /\ pc[p] \in {"locked", "merged", "cached"} /\ op[p] # Commit => dirty[p] = {}

\* A process under its lock has in hand what memcached has, but for what it is
\* changing; what it has written is as far off as memcached was.
OffBy(p) ==
    /\ pc[p] = "merged" =>
          /\ self[p].ups = cache.ups
          /\ \A q \in Props \ dirty[p] : self[p].vals[q] = cache.vals[q]
    /\ pc[p] = "written" =>
          /\ self[p].ups = cache.ups /\ cache.ups = db.ups + ahead
          /\ \A q \in Props : self[p].vals[q] = db.vals[q] \/ q \in behind
          /\ \A q \in Props : cache.vals[q] = db.vals[q] \/ q \in behind \cup Asked(p)
    /\ pc[p] = "cached" => cache.ups = db.ups + ahead + UpsBy(p) /\ PlainLaw

DriftParts ==
    /\ LockHeld /\ CacheFilled /\ CreatorAlone /\ FillFresh /\ DriftIsKnown
    /\ cache = NoThing => ahead = 0
    /\ db = NoThing => cache = NoThing
    /\ \A p \in Procs : DirtyAsked(p) /\ OffBy(p)

DriftInv == TypeInv /\ (~amiss => DriftParts)

LEMMA DriftInit == Init => DriftInv
<1> SUFFICES ASSUME Init PROVE DriftInv
  OBVIOUS
<1>1. TypeInv
  BY TypeInit
<1>2. \A p \in Procs : pc[p] = "idle" /\ Asked(p) = {} /\ dirty[p] = {}
  BY DEF Init, Asked, Nothing
<1> QED
  BY <1>1, <1>2 DEF DriftInv, DriftParts, LockHeld, CacheFilled, CreatorAlone, FillFresh, DriftIsKnown,
     DirtyAsked, OffBy, Busy, Init

\* The facts about types the steps below use.
LEMMA DriftTypes ==
    ASSUME TypeInv
    PROVE  /\ pc \in [Procs -> Places] /\ op \in [Procs -> Ops] /\ dirty \in [Procs -> SUBSET Props]
           /\ asked \in [Procs -> [Props -> Vals \cup {Unasked}]]
           /\ self \in [Procs -> Thing \cup {NoThing}]
           /\ ahead \in Int /\ behind \subseteq Props
           /\ \A p \in Procs : pc[p] # "idle" => self[p] \in Thing /\ db \in Thing /\ self[p] # NoThing
BY ThingAssumption DEF TypeInv, TypeOK, InHand, Places

\* A step of one process changes nothing of another one's.
LEMMA DriftOthers ==
    ASSUME TypeInv, NEW p \in Procs, LookUp(p) \/ Write(p) \/ Fault(p)
    PROVE  \A r \in Procs \ {p} :
              /\ pc'[r] = pc[r] /\ op'[r] = op[r] /\ self'[r] = self[r]
              /\ dirty'[r] = dirty[r] /\ asked'[r] = asked[r]
<1> USE DriftTypes
<1>1. CASE LookUp(p)
  BY <1>1 DEF LookUp, Goto, LookUpCached, ReadBase, ReadData, FillCache
<1>2. CASE Write(p)
  BY <1>2 DEF Write, Goto, Create, PublishNew, SetProp, StartCommit, StartIncr, UpdateFromCache,
     NothingToCommit, CommitChanges, CacheCommitted, CacheIncremented, CommitIncrement, Release,
     EndRequest, Forget
<1>3. CASE Fault(p)
  BY <1>3 DEF Fault, StatementFails, CommitFails, CacheWriteFails, Crash, Raise, Forget
<1> QED
  BY <1>1, <1>2, <1>3

LEMMA DirtyStep ==
    ASSUME TypeInv, NEW p \in Procs, DirtyAsked(p), LookUp(p) \/ Write(p) \/ Fault(p)
    PROVE  DirtyAsked(p)'
<1> USE DriftTypes DEF DirtyAsked, Asked
<1>1. CASE LookUp(p)
  BY <1>1 DEF LookUp, Goto, LookUpCached, ReadBase, ReadData, FillCache
<1>2. CASE Fault(p)
  BY <1>2 DEF Fault, StatementFails, CommitFails, CacheWriteFails, Crash, Raise, Forget, Nothing
<1>3. ASSUME NEW q \in Props, NEW v \in Vals, SetProp(p, q, v) PROVE DirtyAsked(p)'
  BY <1>3, StoreAssumption DEF SetProp
<1>4. CASE Write(p) /\ ~\E q \in Props, v \in Vals : SetProp(p, q, v)
  <2>1. CASE UpdateFromCache(p) \/ NothingToCommit(p) \/ CommitChanges(p) \/ CacheCommitted(p)
    BY <2>1 DEF UpdateFromCache, NothingToCommit, CommitChanges, CacheCommitted, Goto
  <2>2. CASE CacheIncremented(p) \/ CommitIncrement(p) \/ Release(p) \/ EndRequest(p)
    BY <2>2 DEF CacheIncremented, CommitIncrement, Release, EndRequest, Goto, Forget, Nothing
  <2>3. CASE Create(p) \/ PublishNew(p) \/ StartCommit(p)
    BY <2>3 DEF Create, PublishNew, StartCommit, Goto, Commit
  <2>4. ASSUME NEW c \in Counters, NEW amt \in {-1, 1}, StartIncr(p, c, amt) PROVE DirtyAsked(p)'
    BY <2>4 DEF StartIncr, Goto
  <2> QED
    BY <1>4, <2>1, <2>2, <2>3, <2>4 DEF Write
<1> QED
  BY <1>1, <1>2, <1>3, <1>4

\* The lock, the filled cache, the lone creator and the fresh fill, whatever
\* fails: what they do not survive sets `amiss`.
LEMMA LockStep ==
    ASSUME TypeInv, LockHeld, NEW p \in Procs, LookUp(p) \/ Write(p) \/ Fault(p)
    PROVE  LockHeld'
<1> USE DriftTypes, StoreAssumption DEF LockHeld, Busy
<1>1. CASE LookUp(p)
  BY <1>1 DEF LookUp, Goto, LookUpCached, ReadBase, ReadData, FillCache
<1>2. CASE Write(p)
  BY <1>2 DEF Write, Goto, Create, PublishNew, SetProp, StartCommit, StartIncr, UpdateFromCache,
     NothingToCommit, CommitChanges, CacheCommitted, CacheIncremented, CommitIncrement, Release,
     EndRequest, Forget
<1>3. CASE Fault(p)
  BY <1>3 DEF Fault, StatementFails, CommitFails, CacheWriteFails, Crash, Raise, Forget
<1> QED
  BY <1>1, <1>2, <1>3

\* A cache that is filled stays so but for an eviction.
LEMMA StaysFilled ==
    ASSUME TypeInv, NEW p \in Procs, LookUp(p) \/ Write(p) \/ Fault(p), cache # NoThing
    PROVE  cache' # NoThing
<1>1. CASE cache' \in {cache, self[p]} /\ pc[p] # "idle"
  BY <1>1, DriftTypes
<1>2. CASE cache' = Incremented(p) /\ pc[p] = "merged" /\ op[p] # Commit
  BY <1>2, DriftTypes, IncrementedIsThing, ThingAssumption
<1> QED
  BY <1>1, <1>2 DEF LookUp, Write, Fault, Goto, LookUpCached, ReadBase, ReadData, FillCache, Create,
     PublishNew, SetProp, StartCommit, StartIncr, UpdateFromCache, NothingToCommit, CommitChanges,
     CacheCommitted, CacheIncremented, CommitIncrement, Release, EndRequest, StatementFails,
     CommitFails, CacheWriteFails, Crash

LEMMA FilledStep ==
    ASSUME TypeInv, CacheFilled, NEW p \in Procs, LookUp(p) \/ Write(p) \/ Fault(p), ~amiss'
    PROVE  CacheFilled'
<1> USE DriftTypes
<1>1. CASE cache # NoThing
  BY <1>1, StaysFilled DEF CacheFilled
<1>2. CASE cache = NoThing
  <2>1. pc[p] \notin Busy \cup {"have"} /\ \A r \in Procs : pc[r] \notin Busy \cup {"have"}
    BY <1>2 DEF CacheFilled
  <2>2. CASE PublishNew(p) \/ FillCache(p)
    BY <1>2, <2>2 DEF CacheFilled, PublishNew, FillCache, Goto
  <2>3. CASE pc'[p] \notin Busy \cup {"have"}
    BY <2>1, <2>3, DriftOthers DEF CacheFilled
  <2> QED
    BY <1>2, <2>1, <2>2, <2>3 DEF LookUp, Write, Fault, Goto, LookUpCached, ReadBase, ReadData, Create,
       SetProp, StartCommit, StartIncr, UpdateFromCache, NothingToCommit, CommitChanges, CacheCommitted,
       CacheIncremented, CommitIncrement, Release, EndRequest, StatementFails, CommitFails,
       CacheWriteFails, Crash, Raise, Forget, Busy
<1> QED
  BY <1>1, <1>2

LEMMA CreatorStep ==
    ASSUME TypeInv, CreatorAlone, NEW p \in Procs, LookUp(p) \/ Write(p) \/ Fault(p), ~amiss',
           db = NoThing => cache = NoThing
    PROVE  CreatorAlone'
<1> USE DriftTypes
<1>1. CASE Create(p)
  <2>1. db = NoThing /\ cache' = NoThing /\ self'[p] = db' /\ \A r \in Procs : pc[r] = "idle"
    BY <1>1, ThingAssumption DEF Create, TypeInv, InHand
  <2> QED
    BY <1>1, <2>1 DEF Create, Goto, CreatorAlone
<1>2. CASE \E r \in Procs : pc[r] = "created"
  <2> PICK r \in Procs : pc[r] = "created"
    BY <1>2
  <2>1. cache = NoThing /\ \A x \in Procs \ {r} : pc[x] = "idle"
    BY DEF CreatorAlone
  <2>2. CASE p = r
    <3>1. pc'[p] # "created"
      BY <2>2 DEF LookUp, Write, Fault, Goto, LookUpCached, ReadBase, ReadData, FillCache, Create,
         PublishNew, SetProp, StartCommit, StartIncr, UpdateFromCache, NothingToCommit, CommitChanges,
         CacheCommitted, CacheIncremented, CommitIncrement, Release, EndRequest, StatementFails,
         CommitFails, CacheWriteFails, Crash, Raise, Forget
    <3> QED
      BY <2>1, <2>2, <3>1, DriftOthers DEF CreatorAlone
  <2>3. CASE p # r
    <3>1. pc[p] = "idle" /\ db # NoThing
      BY <2>1, <2>3, ThingAssumption
    <3> QED
      BY <2>1, <3>1, <1>2 DEF LookUp, Write, Fault, Goto, LookUpCached, ReadBase, ReadData, FillCache,
         Create, PublishNew, SetProp, StartCommit, StartIncr, UpdateFromCache, NothingToCommit,
         CommitChanges, CacheCommitted, CacheIncremented, CommitIncrement, Release, EndRequest,
         StatementFails, CommitFails, CacheWriteFails, Crash
  <2> QED
    BY <2>2, <2>3
<1>3. CASE ~Create(p) /\ \A r \in Procs : pc[r] # "created"
  <2>1. pc'[p] # "created"
    BY <1>3 DEF LookUp, Write, Fault, Goto, LookUpCached, ReadBase, ReadData, FillCache,
       PublishNew, SetProp, StartCommit, StartIncr, UpdateFromCache, NothingToCommit, CommitChanges,
       CacheCommitted, CacheIncremented, CommitIncrement, Release, EndRequest, StatementFails,
       CommitFails, CacheWriteFails, Crash, Raise, Forget
  <2> QED
    BY <1>3, <2>1, DriftOthers DEF CreatorAlone
<1> QED
  BY <1>1, <1>2, <1>3

LEMMA FreshStep ==
    ASSUME TypeInv, FillFresh, CacheFilled, NEW p \in Procs, LookUp(p) \/ Write(p) \/ Fault(p)
    PROVE  FillFresh'
<1> USE DriftTypes
<1> SUFFICES ASSUME cache' = NoThing PROVE FillFresh'
  BY DEF FillFresh
<1>1. cache = NoThing
  BY StaysFilled
<1>2. \A r \in Procs : pc[r] \notin Busy \cup {"have"}
  BY <1>1 DEF CacheFilled
<1>3. CASE Create(p)
  <2>1. \A r \in Procs : pc'[r] \notin {"base_read", "data_read"}
    BY <1>3, ThingAssumption DEF Create, Goto
  <2> QED
    BY <2>1 DEF FillFresh
<1>o. ASSUME db' = db, NEW r \in Procs \ {p}
      PROVE  /\ pc'[r] = "base_read" => self'[r] = [db' EXCEPT !.karma = NoRow]
             /\ pc'[r] = "data_read" => self'[r] = db'
  BY <1>1, <1>o, DriftOthers DEF FillFresh
<1>4. CASE ReadData(p)
  <2>1. self[p] = [db EXCEPT !.karma = NoRow] /\ db \in Thing /\ pc[p] = "base_read"
    BY <1>1, <1>4 DEF ReadData, Goto, FillFresh
  <2>2. self'[p] = db /\ pc'[p] = "data_read" /\ db' = db
    BY <1>4, <2>1, RowRestored DEF ReadData, Goto
  <2> QED
    BY <1>o, <2>2 DEF FillFresh
<1>5. CASE ReadBase(p)
  <2>1. self'[p] = [db EXCEPT !.karma = NoRow] /\ pc'[p] = "base_read" /\ db' = db
    BY <1>5 DEF ReadBase, Goto
  <2> QED
    BY <1>o, <2>1 DEF FillFresh
<1>6. CASE db' = db /\ pc'[p] \notin {"base_read", "data_read"}
  BY <1>1, <1>6, DriftOthers DEF FillFresh
<1> QED
  BY <1>1, <1>2, <1>3, <1>4, <1>5, <1>6 DEF LookUp, Write, Fault, Goto, LookUpCached, FillCache,
     PublishNew, SetProp, StartCommit, StartIncr, UpdateFromCache, NothingToCommit, CommitChanges,
     CacheCommitted, CacheIncremented, CommitIncrement, Release, EndRequest, StatementFails,
     CommitFails, CacheWriteFails, Crash, Raise, Forget, Busy

\* What an increment does to ups, in the object and in the database.
LEMMA UpsMoves ==
    ASSUME NEW p \in Procs, self[p] \in Thing, op[p] \in Ops, op[p] # Commit
    PROVE  /\ Incremented(p) \in Thing /\ Incremented(p).vals = self[p].vals
           /\ Incremented(p).ups = self[p].ups + UpsBy(p)
<1> DEFINE c == op[p].on
           n == Read(self[p], c) + op[p].amt
<1> DEFINE t == self[p]
<1>1. c \in Counters /\ n \in Int /\ t \in Thing /\ Incremented(p) = [t EXCEPT ![c] = n]
  <2>1. c \in Counters /\ op[p].amt \in Int
    BY OpsFacts
  <2>2. Read(self[p], c) \in Int
    BY <2>1, ReadIsInt
  <2> QED
    BY <2>1, <2>2 DEF Incremented
<1>2. /\ Incremented(p) \in Thing /\ Incremented(p).vals = t.vals /\ Incremented(p)[c] = n
      /\ \A d \in Counters \ {c} : Incremented(p)[d] = t[d]
  <2> HIDE DEF n, c, t
  <2>1. [t EXCEPT ![c] = n] \in Thing
    BY <1>1, CounterOfThing
  <2>2. /\ [t EXCEPT ![c] = n].vals = t.vals /\ [t EXCEPT ![c] = n][c] = n
        /\ \A d \in Counters \ {c} : [t EXCEPT ![c] = n][d] = t[d]
    BY <1>1, CounterOfThing
  <2> QED
    BY <1>1, <2>1, <2>2
<1>3. CASE op[p].on = "ups"
  <2>1. UpsBy(p) = op[p].amt /\ n = t.ups + op[p].amt
    BY <1>3, ThingFields, StoreAssumption DEF UpsBy, Read
  <2> QED
    BY <1>2, <1>3, <2>1
<1>4. CASE op[p].on = "karma"
  <2>1. UpsBy(p) = 0 /\ Incremented(p).ups = t.ups
    BY <1>2, <1>4 DEF UpsBy, Counters
  <2> QED
    BY <1>2, <2>1, ThingFields
<1> QED
  BY <1>1, <1>2, <1>3, <1>4 DEF Counters

LEMMA UpsMovesInDb ==
    ASSUME NEW p \in Procs, db \in Thing, op[p] \in Ops, op[p] # Commit, self[p][op[p].on] \in Int,
           db' = [db EXCEPT ![op[p].on] = CounterAfter(p)]
    PROVE  /\ db' \in Thing /\ db'.vals = db.vals /\ db'.ups = db.ups + UpsBy(p)
<1>1. db' \in Thing
  BY CounterAfterIsCounter
<1>2. CASE op[p].on = "ups"
  <2>1. CounterAfter(p) = db.ups + op[p].amt
    BY <1>2, OpsFacts, ThingFields, StoreAssumption DEF CounterAfter
  <2> QED
    BY <1>1, <1>2, <2>1 DEF Thing, UpsBy
<1>3. CASE op[p].on = "karma"
  <2>1. db'.ups = db.ups /\ db'.vals = db.vals
    BY <1>3 DEF Thing
  <2> QED
    BY <1>1, <1>3, <2>1, ThingFields DEF UpsBy
<1> QED
  BY <1>2, <1>3, OpsFacts

\* Under its lock a process is alone with the cache.
LEMMA AloneWithCache ==
    ASSUME TypeInv, DriftParts, ~amiss, NEW p \in Procs, pc[p] \in Busy
    PROVE  /\ cache \in Thing /\ cache # NoThing /\ db \in Thing /\ self[p] \in Thing
           /\ op[p] \in Ops /\ dirty[p] \subseteq Props
           /\ \A r \in Procs \ {p} : pc[r] \notin Busy
           /\ \A r \in Procs : pc[r] # "created"
           /\ pc[p] \notin {"written", "cached"} => cache.ups = db.ups + ahead /\ PlainLaw
<1>1. cache \in Thing /\ cache # NoThing /\ db \in Thing /\ self[p] \in Thing
  BY DriftTypes DEF DriftParts, CacheFilled, TypeInv, TypeOK, Busy
<1>2. \A r \in Procs \ {p} : pc[r] \notin Busy
  BY DEF DriftParts, LockHeld
<1>3. \A r \in Procs : pc[r] # "created"
  BY <1>1 DEF DriftParts, CreatorAlone
<1>4. pc[p] \notin {"written", "cached"} => \A r \in Procs : pc[r] \notin {"written", "cached", "created"}
  BY <1>2, <1>3 DEF Busy
<1>5. pc[p] \notin {"written", "cached"} => cache.ups = db.ups + ahead /\ PlainLaw
  <2>1. DriftIsKnown
    BY DEF DriftParts
  <2> QED
    BY <1>1, <1>4, <2>1 DEF DriftIsKnown, PlainLaw
<1> QED
  BY <1>1, <1>2, <1>3, <1>5, DriftTypes

Known == cache.ups = db.ups + ahead /\ PlainLaw

\* The steps that move nothing of the two copies.
LEMMA Quiet ==
    ASSUME TypeInv, DriftParts, ~amiss, NEW p \in Procs,
           db' = db, cache' = cache, ahead' = ahead, behind' = behind,
           \A r \in Procs \ {p} : pc'[r] = pc[r], pc[p] \notin {"written", "cached"},
           pc[p] = "created" => cache = NoThing
    PROVE  DriftIsKnown'
BY DEF DriftParts, DriftIsKnown

LEMMA LawOthers ==
    ASSUME TypeInv, DriftParts, ~amiss, NEW p \in Procs, LookUp(p) \/ Write(p) \/ Fault(p)
    PROVE  \A r \in Procs \ {p} : OffBy(r)'
<1>1. CASE \A r \in Procs \ {p} : pc[r] \notin {"merged", "written", "cached"}
  BY <1>1, DriftOthers DEF OffBy
<1>2. CASE db' = db /\ cache' = cache /\ ahead' = ahead /\ behind' = behind
  <2>1. ASSUME NEW r \in Procs \ {p} PROVE OffBy(r)'
    <3>1. OffBy(r)
      BY DEF DriftParts
    <3> QED
      BY <1>2, <3>1, DriftOthers DEF OffBy, UpsBy, Asked, PlainLaw
  <2> QED
    BY <2>1
<1>3. CASE pc[p] \in Busy \/ cache = NoThing
  BY <1>1, <1>3, AloneWithCache DEF DriftParts, CacheFilled, Busy
<1>4. CASE pc[p] \notin Busy /\ cache # NoThing
  <2>1. \A r \in Procs : pc[r] # "created"
    BY <1>4 DEF DriftParts, CreatorAlone
  <2>2. db # NoThing
    BY <1>4 DEF DriftParts
  <2> QED
    BY <1>2, <1>4, <2>1, <2>2 DEF LookUp, Write, Fault, Goto, LookUpCached, ReadBase, ReadData, FillCache,
       Create, PublishNew, SetProp, StartCommit, StartIncr, UpdateFromCache, NothingToCommit,
       CommitChanges, CacheCommitted, CacheIncremented, CommitIncrement, Release, EndRequest,
       StatementFails, CommitFails, CacheWriteFails, Crash, Busy, drift
<1> QED
  BY <1>3, <1>4

\* The thing's creator, and readers, fill the cache with what the database has.
LEMMA LawFill ==
    ASSUME TypeInv, TypeInv', DriftParts, ~amiss, NEW p \in Procs,
           cache = NoThing, db' = db, ahead' = ahead,
           pc[p] \in {"created", "data_read"}, cache' \in {cache, self[p]}
    PROVE  DriftIsKnown'
<1>1. self[p] = db /\ ahead = 0 /\ db \in Thing
  BY DriftTypes DEF DriftParts, CreatorAlone, FillFresh
<1> QED
  BY <1>1, ThingFields DEF DriftIsKnown

\* A commit, between COMMIT and the cache write and after it.
LEMMA LawCommit ==
    ASSUME TypeInv, DriftParts, ~amiss, NEW p \in Procs, CommitChanges(p)
    PROVE  OffBy(p)' /\ DriftIsKnown'
<1>1. /\ pc[p] = "merged" /\ pc'[p] = "written" /\ op[p] = Commit
      /\ self' = self /\ cache' = cache /\ asked' = asked /\ ahead' = ahead
      /\ behind' = behind \ dirty[p]
  BY DriftTypes DEF CommitChanges, Goto
<1>2. db \in Thing /\ self[p] \in Thing /\ dirty[p] \subseteq Props /\ Known
  BY <1>1, AloneWithCache DEF Busy, Known
<1>3. self[p].ups = cache.ups /\ \A q \in Props \ dirty[p] : self[p].vals[q] = cache.vals[q]
  BY <1>1 DEF DriftParts, OffBy
<1>4. dirty[p] \subseteq Asked(p) /\ Asked(p)' = Asked(p)
  BY <1>1 DEF DriftParts, DirtyAsked, Asked
<1> DEFINE w == [q \in Props |-> IF q \in dirty[p] THEN self[p].vals[q] ELSE db.vals[q]]
<1>5. w \in [Props -> Vals] /\ db' = [db EXCEPT !.vals = w]
  BY <1>2, ThingFields DEF CommitChanges
<1>6. \A q \in Props : w[q] = IF q \in dirty[p] THEN self[p].vals[q] ELSE db.vals[q]
  OBVIOUS
<1> HIDE DEF w
<1>7. db'.ups = db.ups /\ db'.vals = w
  BY <1>2, <1>5, ThingWithVals
<1>8. ASSUME NEW q \in Props
      PROVE  /\ self[p].vals[q] = db'.vals[q] \/ q \in behind'
             /\ cache.vals[q] = db'.vals[q] \/ q \in behind' \cup Asked(p)
  <2>1. CASE q \in dirty[p]
    BY <1>4, <1>6, <1>7, <2>1
  <2>2. CASE q \notin dirty[p]
    <3>1. self[p].vals[q] = cache.vals[q] /\ w[q] = db.vals[q]
      BY <1>3, <1>6, <2>2
    <3>2. cache.vals[q] = db.vals[q] \/ q \in behind
      BY <1>2 DEF Known, PlainLaw
    <3> QED
      BY <1>1, <1>7, <2>2, <3>1, <3>2
  <2> QED
    BY <2>1, <2>2
<1> QED
  BY <1>1, <1>2, <1>3, <1>4, <1>7, <1>8 DEF OffBy, DriftIsKnown, Known

\* What remains of a commit whose cache write is done, or fails.
LEMMA LawWritten ==
    ASSUME TypeInv, DriftParts, ~amiss, NEW p \in Procs, pc[p] = "written", db' = db, ahead' = ahead,
           \/ cache' = self[p] /\ behind' = behind
           \/ cache' = cache /\ behind' = behind \cup Asked(p)
    PROVE  DriftIsKnown'
BY DEF DriftParts, OffBy, DriftIsKnown

\* An increment: the cache is written first.
LEMMA LawCached ==
    ASSUME TypeInv, DriftParts, ~amiss, NEW p \in Procs, pc[p] = "merged", op[p] # Commit,
           cache' = Incremented(p), db' = db, behind' = behind
    PROVE  /\ cache'.ups = db.ups + ahead + UpsBy(p) /\ PlainLaw'
<1>1. db \in Thing /\ cache \in Thing /\ self[p] \in Thing /\ op[p] \in Ops /\ Known
  BY AloneWithCache DEF Busy, Known
<1>2. self[p].ups = cache.ups /\ \A q \in Props : self[p].vals[q] = cache.vals[q]
  BY DEF DriftParts, OffBy, DirtyAsked
<1>3. cache'.vals = self[p].vals /\ cache'.ups = self[p].ups + UpsBy(p)
  BY <1>1, UpsMoves
<1>4. cache'.ups = db.ups + ahead + UpsBy(p)
  BY <1>1, <1>2, <1>3 DEF Known
<1>5. PlainLaw'
  BY <1>1, <1>2, <1>3 DEF Known, PlainLaw
<1> QED
  BY <1>4, <1>5

\* And then COMMIT is applied, or the increment is lost.
LEMMA LawIncrement ==
    ASSUME TypeInv, DriftParts, ~amiss, NEW p \in Procs, pc[p] = "cached", cache' = cache, behind' = behind,
           \/ db' = [db EXCEPT ![op[p].on] = CounterAfter(p)] /\ ahead' = ahead
           \/ db' = db /\ ahead' = ahead + UpsBy(p)
    PROVE  DriftIsKnown'
<1>1. db \in Thing /\ op[p] \in Ops
  BY AloneWithCache DEF Busy
<1>2. cache.ups = db.ups + ahead + UpsBy(p) /\ PlainLaw
  BY DEF DriftParts, OffBy
<1>3. op[p] # Commit /\ self[p][op[p].on] \in Int
  BY DEF TypeInv, InHand
<1>4. UpsBy(p) \in Int /\ ahead \in Int /\ db.ups \in Int
  BY <1>1, UpsByIsInt, DriftTypes, ThingFields
<1>5. CASE db' = db /\ ahead' = ahead + UpsBy(p)
  BY <1>2, <1>4, <1>5 DEF DriftIsKnown, PlainLaw
<1>6. CASE db' = [db EXCEPT ![op[p].on] = CounterAfter(p)] /\ ahead' = ahead
  <2>1. db'.vals = db.vals /\ db'.ups = db.ups + UpsBy(p)
    BY <1>1, <1>3, <1>6, UpsMovesInDb
  <2> QED
    BY <1>2, <1>4, <1>6, <2>1 DEF DriftIsKnown, PlainLaw
<1> QED
  BY <1>5, <1>6

LEMMA LawStep ==
    ASSUME TypeInv, TypeInv', DriftParts, ~amiss, NEW p \in Procs, LookUp(p) \/ Write(p) \/ Fault(p)
    PROVE  OffBy(p)' /\ DriftIsKnown'
<1>o. \A r \in Procs \ {p} : pc'[r] = pc[r]
  BY DriftOthers
<1>c. pc[p] = "created" => cache = NoThing
  BY DEF DriftParts, CreatorAlone
<1> USE DriftTypes
<1>1. CASE LookUp(p)
  <2>1. OffBy(p)'
    BY <1>1 DEF LookUp, LookUpCached, ReadBase, ReadData, FillCache, Goto, OffBy
  <2>2. db' = db /\ ahead' = ahead /\ behind' = behind
    BY <1>1 DEF LookUp, LookUpCached, ReadBase, ReadData, FillCache, drift
  <2>3. pc[p] \in {"idle", "base_read", "data_read"}
    BY <1>1 DEF LookUp, LookUpCached, ReadBase, ReadData, FillCache, Goto
  <2>4. cache' = cache \/ (cache = NoThing /\ pc[p] = "data_read" /\ cache' = self[p])
    BY <1>1 DEF LookUp, LookUpCached, ReadBase, ReadData, FillCache, Goto
  <2>5. CASE cache' = cache
    BY <1>o, <2>1, <2>2, <2>3, <2>5, Quiet
  <2>6. CASE cache = NoThing /\ pc[p] = "data_read" /\ cache' = self[p]
    BY <2>1, <2>2, <2>6, LawFill
  <2> QED
    BY <2>1, <2>4, <2>5, <2>6
<1>2. CASE Create(p)
  BY <1>2 DEF Create, Goto, OffBy, DriftIsKnown, DriftParts
<1>3. CASE PublishNew(p)
  BY <1>3, <1>c, LawFill DEF PublishNew, Goto, OffBy, drift
<1>4. ASSUME NEW q \in Props, NEW v \in Vals, SetProp(p, q, v) PROVE OffBy(p)' /\ DriftIsKnown'
  BY <1>4, <1>o, Quiet DEF SetProp, OffBy, drift
<1>5. CASE StartCommit(p) \/ NothingToCommit(p) \/ Release(p) \/ EndRequest(p)
  BY <1>5, <1>o, Quiet DEF StartCommit, NothingToCommit, Release, EndRequest, Forget, Goto, OffBy, drift
<1>6. ASSUME NEW c \in Counters, NEW amt \in {-1, 1}, StartIncr(p, c, amt) PROVE OffBy(p)' /\ DriftIsKnown'
  BY <1>6, <1>o, Quiet DEF StartIncr, Goto, OffBy, drift
<1>7. CASE UpdateFromCache(p)
  <2>1. /\ pc[p] = "locked" /\ pc'[p] = "merged" /\ db' = db /\ cache' = cache /\ ahead' = ahead
        /\ behind' = behind
    BY <1>7 DEF UpdateFromCache, Goto, drift
  <2>2. cache \in Thing /\ cache # NoThing /\ dirty[p] \subseteq Props
    BY <2>1, AloneWithCache DEF Busy
  <2>3. self'[p] = Merged(p) /\ dirty'[p] = {q \in dirty[p] : self[p].vals[q] # cache.vals[q]}
    BY <1>7, <2>2 DEF UpdateFromCache
  <2>4. /\ Merged(p).ups = cache.ups
        /\ \A q \in Props : Merged(p).vals[q] = IF q \in dirty[p] THEN self[p].vals[q] ELSE cache.vals[q]
    BY <2>2 DEF Merged, Thing
  <2>5. OffBy(p)'
    BY <2>1, <2>3, <2>4 DEF OffBy
  <2> QED
    BY <1>o, <2>1, <2>5, Quiet
<1>8. CASE CommitChanges(p)
  BY <1>8, LawCommit
<1>9. CASE CacheCommitted(p)
  BY <1>9, LawWritten DEF CacheCommitted, Goto, OffBy, drift
<1>10. CASE CacheIncremented(p)
  <2>1. /\ pc[p] = "merged" /\ pc'[p] = "cached" /\ op[p] # Commit /\ cache' = Incremented(p)
        /\ db' = db /\ ahead' = ahead /\ behind' = behind /\ op' = op
    BY <1>10 DEF CacheIncremented, Goto, drift
  <2>2. cache'.ups = db.ups + ahead + UpsBy(p) /\ PlainLaw'
    BY <2>1, LawCached
  <2> QED
    BY <2>1, <2>2 DEF OffBy, DriftIsKnown, UpsBy
<1>11. CASE CommitIncrement(p)
  BY <1>11, LawIncrement DEF CommitIncrement, Goto, OffBy, drift
<1>12. CASE Fault(p)
  <2>1. pc'[p] = "idle"
    BY <1>12 DEF Fault, StatementFails, CommitFails, CacheWriteFails, Crash, Raise, Forget
  <2>2. OffBy(p)'
    BY <2>1 DEF OffBy
  <2>3. CASE /\ pc[p] \notin {"written", "cached"}
             /\ db' = db /\ cache' = cache /\ ahead' = ahead /\ behind' = behind
    <3>1. DriftIsKnown'
      BY <1>o, <1>c, <2>3, Quiet
    <3> QED
      BY <2>2, <3>1
  <2>4. CASE pc[p] = "created"
    <3>1. cache = NoThing /\ db' = db /\ ahead' = ahead /\ cache' \in {cache, self[p]}
      BY <1>12, <1>c, <2>4 DEF Fault, StatementFails, CommitFails, CacheWriteFails, Crash
    <3> QED
      BY <2>2, <2>4, <3>1, LawFill
  <2>5. CASE pc[p] = "written"
    <3>1. db' = db /\ ahead' = ahead
      BY <1>12, <2>5 DEF Fault, StatementFails, CommitFails, CacheWriteFails, Crash
    <3>2. \/ cache' = self[p] /\ behind' = behind
          \/ cache' = cache /\ behind' = behind \cup Asked(p)
      BY <1>12, <2>5 DEF Fault, StatementFails, CommitFails, CacheWriteFails, Crash
    <3> QED
      BY <2>2, <2>5, <3>1, <3>2, LawWritten
  <2>6. CASE pc[p] = "cached"
    <3>1. cache' = cache /\ behind' = behind
      BY <1>12, <2>6 DEF Fault, StatementFails, CommitFails, CacheWriteFails, Crash
    <3>2. \/ db' = [db EXCEPT ![op[p].on] = CounterAfter(p)] /\ ahead' = ahead
          \/ db' = db /\ ahead' = ahead + UpsBy(p)
      BY <1>12, <2>6 DEF Fault, StatementFails, CommitFails, CacheWriteFails, Crash
    <3> QED
      BY <2>2, <2>6, <3>1, <3>2, LawIncrement
  <2>7. CASE CacheWriteFails(p) /\ pc[p] = "merged" /\ cache' = Incremented(p) /\ ahead' = ahead + UpsBy(p)
    <3>1. op[p] # Commit /\ db' = db /\ behind' = behind
      BY <2>7 DEF CacheWriteFails
    <3>2. cache'.ups = db.ups + ahead + UpsBy(p) /\ PlainLaw'
      BY <2>7, <3>1, LawCached
    <3>3. UpsBy(p) \in Int /\ ahead \in Int /\ db.ups \in Int
      BY <2>7, UpsByIsInt, ThingFields
    <3>4. cache'.ups = db'.ups + ahead'
      BY <2>7, <3>1, <3>2, <3>3
    <3> QED
      BY <2>2, <3>1, <3>2, <3>4 DEF DriftIsKnown, PlainLaw
  <2> QED
    BY <1>12, <2>2, <2>3, <2>4, <2>5, <2>6, <2>7
       DEF Fault, StatementFails, CommitFails, CacheWriteFails, Crash, drift
<1> QED
  BY <1>1, <1>2, <1>3, <1>4, <1>5, <1>6, <1>7, <1>8, <1>9, <1>10, <1>11, <1>12 DEF Write

\* A row is there for good.
LEMMA DbStays ==
    ASSUME TypeInv, NEW p \in Procs, LookUp(p) \/ Write(p) \/ Fault(p), db # NoThing
    PROVE  db' # NoThing
<1> USE DriftTypes
<1>1. CASE db' = db
  BY <1>1
<1>2. CASE Create(p)
  BY <1>2, CreatedIsThing DEF Create
<1>3. CASE CommitChanges(p)
  <2>1. db \in Thing /\ self[p] \in Thing
    BY <1>3 DEF CommitChanges, Goto
  <2> DEFINE w == [q \in Props |-> IF q \in dirty[p] THEN self[p].vals[q] ELSE db.vals[q]]
  <2>2. w \in [Props -> Vals] /\ db' = [db EXCEPT !.vals = w]
    BY <1>3, <2>1, ThingFields DEF CommitChanges
  <2> HIDE DEF w
  <2> QED
    BY <2>1, <2>2, ThingWithVals, ThingAssumption
<1>4. CASE pc[p] = "cached" /\ db' = [db EXCEPT ![op[p].on] = CounterAfter(p)]
  <2>1. db \in Thing /\ op[p] \in Ops /\ op[p] # Commit /\ self[p][op[p].on] \in Int
    BY <1>4 DEF TypeInv, InHand
  <2>2. db' \in Thing
    BY <1>4, <2>1, CounterAfterIsCounter
  <2> QED
    BY <2>2, ThingAssumption
<1> QED
  BY <1>1, <1>2, <1>3, <1>4 DEF LookUp, Write, Fault, Goto, LookUpCached, ReadBase, ReadData,
     FillCache, PublishNew, SetProp, StartCommit, StartIncr, UpdateFromCache, NothingToCommit,
     CacheCommitted, CacheIncremented, CommitIncrement, Release, EndRequest,
     StatementFails, CommitFails, CacheWriteFails, Crash

LEMMA DriftEmpty ==
    ASSUME TypeInv, DriftParts, ~amiss, NEW p \in Procs, LookUp(p) \/ Write(p) \/ Fault(p)
    PROVE  /\ cache' = NoThing => ahead' = 0
           /\ db' = NoThing => cache' = NoThing
<1> USE DriftTypes
<1>1. ASSUME cache' = NoThing PROVE ahead' = 0
  <2>1. cache = NoThing
    BY <1>1, StaysFilled
  <2>2. pc[p] \notin Busy /\ ahead = 0
    BY <2>1 DEF DriftParts, CacheFilled
  <2> QED
    BY <2>2 DEF LookUp, Write, Fault, Goto, LookUpCached, ReadBase, ReadData, FillCache, Create, PublishNew,
       SetProp, StartCommit, StartIncr, UpdateFromCache, NothingToCommit, CommitChanges, CacheCommitted,
       CacheIncremented, CommitIncrement, Release, EndRequest, StatementFails, CommitFails,
       CacheWriteFails, Crash, Busy, drift
<1>2. ASSUME db' = NoThing PROVE cache' = NoThing
  <2>1. db = NoThing
    BY <1>2, DbStays
  <2>2. cache = NoThing /\ pc[p] = "idle"
    BY <2>1, ThingAssumption DEF DriftParts
  <2> QED
    BY <2>2 DEF LookUp, Write, Fault, Goto, LookUpCached, ReadBase, ReadData, FillCache, Create, PublishNew,
       SetProp, StartCommit, StartIncr, UpdateFromCache, NothingToCommit, CommitChanges, CacheCommitted,
       CacheIncremented, CommitIncrement, Release, EndRequest, StatementFails, CommitFails,
       CacheWriteFails, Crash
<1> QED
  BY <1>1, <1>2

LEMMA DriftStep == DriftInv /\ [Next]_vars => DriftInv'
<1> SUFFICES ASSUME DriftInv, [Next]_vars PROVE DriftInv'
  OBVIOUS
<1>t. TypeInv /\ TypeInv'
  BY TypeStep DEF DriftInv
<1>u. CASE UNCHANGED vars
  BY <1>t, <1>u DEF vars, drift, DriftInv, DriftParts, LockHeld, CacheFilled, CreatorAlone, FillFresh,
     DriftIsKnown, DirtyAsked, OffBy, PlainLaw, Asked, UpsBy
<1>e. CASE Evict
  <2>1. ASSUME ~amiss' PROVE DriftParts'
    <3>1. ~amiss /\ \A p \in Procs : pc[p] = "idle"
      BY <1>e, <2>1 DEF Evict
    <3>2. \A p \in Procs : DirtyAsked(p)'
      BY <1>e, <3>1 DEF Evict, DriftInv, DriftParts, DirtyAsked, Asked
    <3> QED
      BY <1>e, <3>1, <3>2 DEF Evict, DriftParts, LockHeld, CacheFilled, CreatorAlone, FillFresh, DriftIsKnown,
         OffBy, Busy
  <2> QED
    BY <1>t, <2>1 DEF DriftInv
<1>x. CASE LockExpires
  <2>1. ASSUME ~amiss' PROVE DriftParts'
    <3>1. ~amiss /\ lock = Orphan
      BY <1>x, <2>1 DEF LockExpires
    <3>2. LockHeld'
      BY <1>x, <3>1, StoreAssumption DEF LockExpires, DriftInv, DriftParts, LockHeld
    <3> QED
      BY <1>x, <2>1, <3>1, <3>2 DEF LockExpires, DriftInv, DriftParts, CacheFilled, CreatorAlone, FillFresh,
         DriftIsKnown, DirtyAsked, OffBy, PlainLaw, Asked, UpsBy
  <2> QED
    BY <1>t, <2>1 DEF DriftInv
<1>p. ASSUME NEW p \in Procs, LookUp(p) \/ Write(p) \/ Fault(p) PROVE DriftInv'
  <2>1. ASSUME ~amiss' PROVE DriftParts'
    <3>1. ~amiss
      BY <1>p, <2>1 DEF LookUp, Write, Fault, LookUpCached, ReadBase, ReadData, FillCache, Create, PublishNew,
         SetProp, StartCommit, StartIncr, UpdateFromCache, NothingToCommit, CommitChanges, CacheCommitted,
         CacheIncremented, CommitIncrement, Release, EndRequest, StatementFails, CommitFails,
         CacheWriteFails, Crash, drift
    <3>2. DriftParts
      BY <3>1 DEF DriftInv
    <3>3. LockHeld' /\ CacheFilled' /\ CreatorAlone' /\ FillFresh'
      BY <1>t, <1>p, <2>1, <3>2, LockStep, FilledStep, CreatorStep, FreshStep DEF DriftParts
    <3>4. \A r \in Procs : DirtyAsked(r)'
      <4>1. ASSUME NEW r \in Procs \ {p} PROVE DirtyAsked(r)'
        BY <1>t, <1>p, <3>2, DriftOthers DEF DriftParts, DirtyAsked, Asked
      <4>2. DirtyAsked(p)'
        BY <1>t, <1>p, <3>2, DirtyStep DEF DriftParts
      <4> QED
        BY <4>1, <4>2
    <3>5. DriftIsKnown' /\ \A r \in Procs : OffBy(r)'
      BY <1>t, <1>p, <3>1, <3>2, LawStep, LawOthers
    <3>6. (cache' = NoThing => ahead' = 0) /\ (db' = NoThing => cache' = NoThing)
      BY <1>t, <1>p, <3>1, <3>2, DriftEmpty
    <3> QED
      BY <3>3, <3>4, <3>5, <3>6 DEF DriftParts
  <2> QED
    BY <1>t, <2>1 DEF DriftInv
<1> QED
  BY <1>u, <1>e, <1>x, <1>p DEF Next

\* Failures between the two writes, and processes that die there, part the cache
\* from the database by what failed and no more, whatever is committed afterwards
\* (thing.py:672 writes the cache before COMMIT, :343 after it).
THEOREM DriftStaysKnown == Spec => []DriftIsKnown
<1>1. DriftInv => DriftIsKnown
  BY DEF DriftInv, DriftParts, DriftIsKnown
<1> QED
  BY <1>1, DriftInit, DriftStep, PTL DEF Spec
=============================================================================
