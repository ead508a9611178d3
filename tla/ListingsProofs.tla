---------------------------- MODULE ListingsProofs ----------------------------
(* For any number of writers, readers, items and changes and any limit:        *)
(* whatever is stored is a listing, no update is lost and the best items are   *)
(* listed while memcached was not left with an old list.  The library's        *)
(* least elements (WFMin) stand in for inductions over positions.              *)
EXTENDS Listings, FiniteSetTheorems, WellFoundedInduction, TLAPS

TypeInv ==
    /\ DOMAIN writer = Writers
    /\ \A w \in Writers : DOMAIN writer[w] = {"pc", "change", "value"}
    /\ DOMAIN reader = Readers
    /\ \A r \in Readers : DOMAIN reader[r] = {"pc", "value"}
    /\ \A w \in Writers : writer[w].pc \in Locked \cup {"idle", "replacing", "dropping"}

\* Mutations exclude one another.
LockInv == \A v, w \in InLock : v = w

\* Only a replacement is at the steps that take no lock.
ReplaceInv == \A w \in Writers :
    writer[w].pc \in {"replacing", "dropping"} => writer[w].change.op = "replace"

\* A mutation is made of the row as it is, and memcached gets the row as it is.
HandInv == \A w \in Writers :
    /\ writer[w].pc = "storing" /\ writer[w].change.op # "replace" => writer[w].value = row
    /\ writer[w].pc = "caching" => writer[w].value = row

\* An old list in memcached is about to be set right.
CacheInv == mc \in {None, row} \/ \E w \in Writers : writer[w].pc \in {"caching", "dropping"}

ListingInv ==
    /\ TypeInv /\ LockInv /\ ReplaceInv
    /\ spoilt = {} => row = expected /\ HandInv /\ CacheInv

\* The lock and what is in hand while nothing is spoilt: each step keeps them.
LEMMA Inductive == ListingInv /\ [Next]_vars => ListingInv'
<1> SUFFICES ASSUME ListingInv, [Next]_vars PROVE ListingInv'
  OBVIOUS
<1> USE DEF ListingInv, TypeInv
<1>1. ASSUME NEW w \in Writers, Start(w) PROVE ListingInv'
  <2>1. TypeInv' /\ ReplaceInv'
    BY <1>1 DEF Start, ReplaceInv, Locked, Idle
  <2>2. LockInv'
    BY <1>1 DEF Start, LockInv, InLock, Locked, Idle
  <2>3. HandInv => HandInv'
    BY <1>1 DEF Start, HandInv, Idle
  <2>4. CacheInv => CacheInv'
    BY <1>1 DEF Start, CacheInv, Idle
  <2> QED BY <1>1, <2>1, <2>2, <2>3, <2>4 DEF Start, ghosts
<1>2. ASSUME NEW w \in Writers, Look(w) PROVE ListingInv'
  <2>1. TypeInv' /\ ReplaceInv' /\ LockInv'
    BY <1>2 DEF Look, Goto, Has, ReplaceInv, LockInv, InLock, Locked
  <2>2. CacheInv => CacheInv'
    BY <1>2 DEF Look, Goto, Has, CacheInv
  <2>3. spoilt' = {} /\ CacheInv => mc \in {None, row}
    BY <1>2 DEF Look, CacheInv, Dropping, LockInv, InLock, Locked
  <2>4. spoilt' = {} /\ CacheInv /\ HandInv => HandInv'
    BY <1>2, <2>3 DEF Look, Goto, Has, HandInv
  <2> QED BY <1>2, <2>1, <2>2, <2>4 DEF Look, ghosts
<1>3. ASSUME NEW w \in Writers, Fetch(w) PROVE ListingInv'
  <2>1. TypeInv' /\ ReplaceInv' /\ LockInv'
    BY <1>3 DEF Fetch, Has, ReplaceInv, LockInv, InLock, Locked
  <2>2. (HandInv => HandInv') /\ (CacheInv => CacheInv')
    BY <1>3 DEF Fetch, Has, HandInv, CacheInv
  <2> QED BY <1>3, <2>1, <2>2 DEF Fetch, ghosts
<1>4. ASSUME NEW w \in Writers, Store(w) PROVE ListingInv'
  <2> DEFINE change == writer[w].change
             new == Changed(change, writer[w].value)
  <2>1. TypeInv' /\ ReplaceInv' /\ LockInv'
    BY <1>4 DEF Store, Has, ReplaceInv, LockInv, InLock, Locked
  <2>2. writer'[w].pc = "caching" /\ writer'[w].value = new
    BY <1>4 DEF Store, Has
  <2>3. CacheInv'
    BY <2>2 DEF CacheInv
  <2>4. HandInv => row' = new
    BY <1>4 DEF Store, HandInv
  <2>5. row = expected /\ HandInv => expected' = new
    <3>1. change.op = "replace" => \A list : Changed(change, list) = change.list
      BY DEF Changed
    <3>2. expected' = Changed(change, expected)
      BY <1>4 DEF Store, Record
    <3> QED BY <3>1, <3>2, <1>4 DEF Store, HandInv
  <2>6. HandInv => HandInv'
    <3>1. \A v \in Writers : writer'[v].pc \in {"storing", "caching"} => v = w
      BY <1>4 DEF Store, Has, LockInv, InLock, Locked
    <3> QED BY <3>1, <2>2, <2>4 DEF HandInv
  <2> QED BY <1>4, <2>1, <2>3, <2>4, <2>5, <2>6 DEF Store
<1>5. ASSUME NEW w \in Writers, Cache(w) PROVE ListingInv'
  <2>1. TypeInv' /\ ReplaceInv' /\ LockInv'
    BY <1>5 DEF Cache, Idle, ReplaceInv, LockInv, InLock, Locked
  <2>2. HandInv => HandInv' /\ CacheInv'
    BY <1>5 DEF Cache, Idle, HandInv, CacheInv
  <2> QED BY <1>5, <2>1, <2>2 DEF Cache, ghosts
<1>6. ASSUME NEW w \in Writers, Replace(w) PROVE ListingInv'
  <2>1. TypeInv' /\ ReplaceInv' /\ LockInv'
    BY <1>6 DEF Replace, Goto, ReplaceInv, LockInv, InLock, Locked
  <2>2. CacheInv'
    BY <1>6 DEF Replace, Goto, CacheInv
  <2>3. row' = expected'
    BY <1>6 DEF Replace, Record, Changed, ReplaceInv
  <2>4. spoilt' = {} => spoilt = {} /\ HandInv'
    BY <1>6 DEF Replace, Goto, HandInv
  <2> QED BY <2>1, <2>2, <2>3, <2>4
<1>7. ASSUME NEW w \in Writers, Drop(w) PROVE ListingInv'
  <2>1. TypeInv' /\ ReplaceInv' /\ LockInv'
    BY <1>7 DEF Drop, Idle, ReplaceInv, LockInv, InLock, Locked
  <2>2. HandInv => HandInv' /\ CacheInv'
    BY <1>7 DEF Drop, Idle, HandInv, CacheInv
  <2> QED BY <1>7, <2>1, <2>2 DEF Drop, ghosts
<1>8. ASSUME NEW w \in Writers, Die(w) PROVE ListingInv'
  <2>1. TypeInv' /\ ReplaceInv' /\ LockInv'
    BY <1>8 DEF Die, Idle, ReplaceInv, LockInv, InLock, Locked
  <2>2. HandInv => HandInv'
    BY <1>8 DEF Die, Idle, HandInv
  <2>3. spoilt' = {} /\ CacheInv => spoilt = {} /\ CacheInv'
    BY <1>8 DEF Die, Idle, CacheInv
  <2> QED BY <1>8, <2>1, <2>2, <2>3 DEF Die, ghosts
<1>9. ASSUME NEW r \in Readers, Miss(r) PROVE ListingInv'
  BY <1>9 DEF Miss, ghosts, LockInv, InLock, ReplaceInv, HandInv, CacheInv
<1>10. ASSUME NEW r \in Readers, Fill(r) PROVE ListingInv'
  <2>1. TypeInv' /\ ReplaceInv' /\ LockInv' /\ (HandInv => HandInv')
    BY <1>10 DEF Fill, ReplaceInv, LockInv, InLock, HandInv
  <2>2. spoilt' = {} => spoilt = {} /\ CacheInv'
    BY <1>10 DEF Fill, CacheInv
  <2> QED BY <1>10, <2>1, <2>2 DEF Fill, ghosts
<1>11. CASE Evict
  BY <1>11 DEF Evict, ghosts, LockInv, InLock, ReplaceInv, HandInv, CacheInv
<1>12. CASE UNCHANGED vars
  BY <1>12 DEF vars, LockInv, InLock, ReplaceInv, HandInv, CacheInv
<1> QED
  BY <1>1, <1>2, <1>3, <1>4, <1>5, <1>6, <1>7, <1>8, <1>9, <1>10, <1>11, <1>12 DEF Next

\* No update of a listing is lost, whatever the numbers of writers, readers,
\* items and changes.
THEOREM NoUpdateLost == Spec => []UpdatesLand
<1>1. Init => ListingInv
  BY DEF Init, ListingInv, TypeInv, LockInv, InLock, Locked, ReplaceInv, HandInv,
     CacheInv, Idle
<1>2. ListingInv => UpdatesLand
  BY DEF ListingInv, CacheInv, UpdatesLand, Quiet
<1> QED BY <1>1, <1>2, Inductive, PTL DEF Spec

-----------------------------------------------------------------------------
\* Lists of entries, and the operators on them.

Entry == [item : Items, sort : Sorts]
Distinct(list) == \A i, j \in 1 .. Len(list) : list[i].item = list[j].item => i = j
Ranked(list) == list \in Seq(Entry) /\ Sorted(list) /\ Distinct(list)
Good(list) == Ranked(list) /\ Len(list) <= Limit

LEMMA EntryIs ==
  ASSUME NEW entry \in Entry
  PROVE  entry.item \in Items /\ entry.sort \in Sorts /\ entry.sort \in Nat /\ entry.sort > 0
<1>1. entry.item \in Items /\ entry.sort \in Sorts
  BY DEF Entry
<1>2. entry.sort \in Nat \ {0}
  BY <1>1, ListingAssumption
<1> QED BY <1>1, <1>2

LEMMA ElementIs ==
  ASSUME NEW list \in Seq(Entry)
  PROVE  \A i \in 1 .. Len(list) : list[i] \in Entry /\ list[i].sort \in Nat
<1>1. \A i \in 1 .. Len(list) : list[i] \in Entry
  OBVIOUS
<1> QED BY <1>1, EntryIs

\* A set of positions that holds with each all before it is an interval.
LEMMA Prefix ==
  ASSUME NEW m \in Nat, NEW P \in SUBSET (1 .. m),
         \A i \in P, j \in 1 .. m : j < i => j \in P
  PROVE  Cardinality(P) \in 0 .. m /\ P = 1 .. Cardinality(P)
<1> DEFINE T == (1 .. m + 1) \ P
<1>1. T \subseteq Nat /\ T # {}
  <2>1. m + 1 \in T
    OBVIOUS
  <2> QED BY <2>1
<1>2. PICK q \in T : \A k \in T : <<k, q>> \notin OpToRel(<, Nat)
  <2> HIDE DEF T
  <2> QED BY <1>1, WFMin, NatLessThanWellFounded, Zenon
<1>3. \A k \in T : ~(k < q)
  BY <1>1, <1>2 DEF OpToRel
<1>4. P = 1 .. q - 1
  <2>1. \A k \in 1 .. q - 1 : k \in P
    BY <1>3
  <2>2. \A k \in P : k \in 1 .. q - 1
    OBVIOUS
  <2> HIDE DEF T
  <2> QED BY <2>1, <2>2
<1>5. Cardinality(1 .. q - 1) = q - 1
  BY FS_Interval
<1> QED BY <1>4, <1>5

LEMMA CountTo == \A n \in Nat : IsFiniteSet(1 .. n) /\ Cardinality(1 .. n) = n
  BY FS_Interval

\* A list holds no item twice if and only if it has as many items as elements.
LEMMA NamesCount ==
  ASSUME NEW list \in Seq(Entry)
  PROVE  /\ IsFiniteSet(Names(list)) /\ Cardinality(Names(list)) \in Nat
         /\ Distinct(list) <=> Cardinality(Names(list)) = Len(list)
<1> DEFINE f == [i \in 1 .. Len(list) |-> list[i].item]
<1>1. f \in Surjection(1 .. Len(list), Names(list))
  BY DEF Surjection, Names
<1>2. IsFiniteSet(1 .. Len(list)) /\ Cardinality(1 .. Len(list)) = Len(list)
  BY CountTo
<1>3. /\ IsFiniteSet(Names(list))
      /\ Cardinality(Names(list)) = Len(list) <=> f \in Injection(1 .. Len(list), Names(list))
  BY <1>1, <1>2, FS_Surjection
<1>4. f \in Injection(1 .. Len(list), Names(list)) <=> Distinct(list)
  <2>1. f \in [1 .. Len(list) -> Names(list)]
    BY <1>1 DEF Surjection
  <2>2. Distinct(list) <=> \A i, j \in 1 .. Len(list) : f[i] = f[j] => i = j
    BY DEF Distinct
  <2>3. f \in Injection(1 .. Len(list), Names(list))
           <=> \A i, j \in 1 .. Len(list) : f[i] = f[j] => i = j
    <3> HIDE DEF f
    <3> QED BY <2>1 DEF Injection, IsInjective
  <2> QED BY <2>2, <2>3, Zenon
<1> QED BY <1>3, <1>4, FS_CardinalityType

LEMMA GoodIsListing == \A list : Good(list) => IsListing(list)
  BY NamesCount DEF Good, Ranked, IsListing

LEMMA DumpsAreGood == \A list \in Dumps : Good(list)
  BY NamesCount, DumpsAssumption DEF Good, Ranked, IsListing, Entry

LEMMA EmptyIsGood == Good(<<>>)
  BY ListingAssumption DEF Good, Ranked, Sorted, Distinct

\* Without leaves a list that does not hold the item alone,
LEMMA WithoutNone ==
  ASSUME NEW list \in Seq(Entry), NEW item, item \notin Names(list)
  PROVE  Without(list, item) = list
<1> DEFINE kept == {k \in 1 .. Len(list) : list[k].item # item}
           rank(k) == Cardinality({j \in kept : j <= k})
<1>1. kept = 1 .. Len(list)
  BY DEF Names
<1>2. \A k \in kept : rank(k) = k
  <2> TAKE k \in kept
  <2>1. {j \in kept : j <= k} = 1 .. k
    BY <1>1
  <2>2. Cardinality(1 .. k) = k
    BY <1>1, CountTo
  <2> QED BY <2>1, <2>2
<1>3. Cardinality(kept) = Len(list)
  <2> HIDE DEF kept
  <2> QED BY <1>1, CountTo
<1>4. \A n \in 1 .. Len(list) : (CHOOSE k \in kept : rank(k) = n) = n
  <2> HIDE DEF rank
  <2> QED BY <1>1, <1>2
<1>5. Without(list, item) = [n \in 1 .. Len(list) |-> list[CHOOSE k \in kept : rank(k) = n]]
  BY <1>3 DEF Without
<1>6. Without(list, item) = [n \in 1 .. Len(list) |-> list[n]]
  <2> HIDE DEF kept, rank
  <2> QED BY <1>4, <1>5
<1> QED BY <1>6

\* and of one that does keeps the others, in their order.
LEMMA WithoutOne ==
  ASSUME NEW list \in Seq(Entry), Distinct(list), NEW p \in 1 .. Len(list)
  PROVE  Without(list, list[p].item) =
            [n \in 1 .. Len(list) - 1 |-> list[IF n < p THEN n ELSE n + 1]]
<1> DEFINE item == list[p].item
           kept == {k \in 1 .. Len(list) : list[k].item # item}
           rank(k) == Cardinality({j \in kept : j <= k})
<1>1. kept = (1 .. Len(list)) \ {p}
  BY DEF Distinct
<1>2. \A k \in kept : rank(k) = IF k < p THEN k ELSE k - 1
  <2> TAKE k \in kept
  <2>1. {j \in kept : j <= k} = (1 .. k) \ {p}
    BY <1>1
  <2>2. IsFiniteSet(1 .. k) /\ Cardinality(1 .. k) = k
    BY <1>1, CountTo
  <2>3. Cardinality((1 .. k) \ {p}) = IF p \in 1 .. k THEN k - 1 ELSE k
    BY <2>2, FS_RemoveElement
  <2>4. rank(k) = Cardinality((1 .. k) \ {p})
    BY <2>1
  <2>5. p \in 1 .. k <=> ~(k < p)
    BY <1>1
  <2> QED
    <3> HIDE DEF rank
    <3> QED BY <2>3, <2>4, <2>5
<1>3. Cardinality(kept) = Len(list) - 1
  <2>1. IsFiniteSet(1 .. Len(list)) /\ Cardinality(1 .. Len(list)) = Len(list)
    BY CountTo
  <2>2. Cardinality((1 .. Len(list)) \ {p}) = Len(list) - 1
    BY <2>1, FS_RemoveElement
  <2> QED BY <1>1, <2>2
<1>4. \A n \in 1 .. Len(list) - 1 :
         (CHOOSE k \in kept : rank(k) = n) = IF n < p THEN n ELSE n + 1
  <2> HIDE DEF rank
  <2> TAKE n \in 1 .. Len(list) - 1
  <2> DEFINE m == IF n < p THEN n ELSE n + 1
  <2>1. m \in kept /\ rank(m) = n
    BY <1>1, <1>2
  <2>2. \A k \in kept : rank(k) = n => k = m
    BY <1>1, <1>2
  <2> QED BY <2>1, <2>2
<1>5. Without(list, item) =
         [n \in 1 .. Len(list) - 1 |-> list[CHOOSE k \in kept : rank(k) = n]]
  BY <1>3 DEF Without
<1> HIDE DEF kept, rank
<1> QED BY <1>4, <1>5

LEMMA WithoutRanked ==
  ASSUME NEW list, Ranked(list), NEW item
  PROVE  /\ Ranked(Without(list, item)) /\ item \notin Names(Without(list, item))
         /\ Len(Without(list, item)) <= Len(list)
<1>1. CASE item \notin Names(list)
  BY <1>1, WithoutNone DEF Ranked
<1>2. CASE item \in Names(list)
  <2>1. PICK p \in 1 .. Len(list) : list[p].item = item
    BY <1>2 DEF Names
  <2> DEFINE w == [n \in 1 .. Len(list) - 1 |-> list[IF n < p THEN n ELSE n + 1]]
  <2>2. Without(list, item) = w
    BY <2>1, WithoutOne DEF Ranked
  <2>3. w \in Seq(Entry) /\ Len(w) = Len(list) - 1
    BY DEF Ranked
  <2> DEFINE at(n) == IF n < p THEN n ELSE n + 1
  <2>4. \A n \in 1 .. Len(w) : w[n] = list[at(n)] /\ at(n) \in 1 .. Len(list) /\ at(n) # p
    BY <2>3
  <2>5. \A m, n \in 1 .. Len(w) : m < n => at(m) < at(n)
    BY <2>3
  <2> HIDE DEF w, at
  <2>6. Sorted(w)
    BY <2>3, <2>4, <2>5 DEF Ranked, Sorted
  <2>7. Distinct(w)
    <3> SUFFICES ASSUME NEW i \in 1 .. Len(w), NEW j \in 1 .. Len(w), w[i].item = w[j].item
                 PROVE  i = j
      BY DEF Distinct
    <3>1. at(i) = at(j)
      BY <2>4 DEF Ranked, Distinct
    <3> QED BY <2>3, <2>4, <2>5, <3>1
  <2>8. item \notin Names(w)
    BY <2>1, <2>4 DEF Ranked, Distinct, Names
  <2> QED BY <2>2, <2>3, <2>6, <2>7, <2>8 DEF Ranked
<1> QED BY <1>1, <1>2

\* p is list with entry after the n elements that are no worse.
PlacedAt(n, list, entry, p) ==
    /\ n \in 0 .. Len(list) /\ p \in Seq(Entry) /\ Len(p) = Len(list) + 1
    /\ \A i \in 1 .. n : p[i] = list[i] /\ list[i].sort >= entry.sort
    /\ p[n + 1] = entry
    /\ \A i \in n + 1 .. Len(list) : p[i + 1] = list[i] /\ list[i].sort < entry.sort

LEMMA PlaceIs ==
  ASSUME NEW list, Ranked(list), NEW entry \in Entry
  PROVE  \E n : PlacedAt(n, list, entry, Place(list, entry))
<1> DEFINE P == {i \in 1 .. Len(list) : list[i].sort >= entry.sort}
           n == Cardinality(P)
           before == SubSeq(list, 1, n)
           after == SubSeq(list, n + 1, Len(list))
           p == before \o <<entry>> \o after
<1>1. list \in Seq(Entry) /\ Len(list) \in Nat
  BY DEF Ranked
<1>2. \A i \in 1 .. Len(list) : list[i] \in Entry /\ list[i].sort \in Nat
  BY <1>1, ElementIs
<1>3. \A i \in P, j \in 1 .. Len(list) : j < i => j \in P
  <2> TAKE i \in P, j \in 1 .. Len(list)
  <2>1. j < i => list[j].sort >= list[i].sort
    BY DEF Ranked, Sorted
  <2>2. list[i].sort \in Nat /\ list[j].sort \in Nat /\ entry.sort \in Nat
    BY <1>2, EntryIs
  <2> QED BY <2>1, <2>2
<1>4. n \in 0 .. Len(list) /\ P = 1 .. n
  BY <1>1, <1>3, Prefix
<1>5. \A i \in 1 .. n : list[i].sort >= entry.sort
  BY <1>4
<1>6. \A i \in n + 1 .. Len(list) : list[i].sort < entry.sort
  <2> TAKE i \in n + 1 .. Len(list)
  <2>1. i \in 1 .. Len(list) /\ i \notin 1 .. n
    BY <1>1, <1>4
  <2>2. ~(list[i].sort >= entry.sort)
    BY <1>4, <2>1
  <2>3. list[i].sort \in Nat /\ entry.sort \in Nat
    BY <1>2, <2>1, EntryIs
  <2> HIDE DEF P, n
  <2> QED BY <2>2, <2>3
<1>7. Place(list, entry) = p
  BY DEF Place
<1> HIDE DEF P, n
<1>8. before \in Seq(Entry) /\ Len(before) = n /\ \A i \in 1 .. n : before[i] = list[i]
  BY <1>1, <1>2, <1>4
<1>9. /\ after \in Seq(Entry) /\ Len(after) = Len(list) - n
      /\ \A i \in 1 .. Len(list) - n : after[i] = list[n + i]
  BY <1>1, <1>2, <1>4
<1> HIDE DEF before, after
<1>10. p \in Seq(Entry) /\ Len(p) = Len(list) + 1
  BY <1>1, <1>4, <1>8, <1>9
<1>11. \A i \in 1 .. n : p[i] = list[i]
  BY <1>1, <1>4, <1>8, <1>9
<1>12. p[n + 1] = entry
  BY <1>1, <1>4, <1>8, <1>9
<1>13. \A i \in n + 1 .. Len(list) : p[i + 1] = list[i]
  <2> TAKE i \in n + 1 .. Len(list)
  <2>1. p[i + 1] = after[i - n]
    BY <1>1, <1>4, <1>8, <1>9
  <2>2. after[i - n] = list[n + (i - n)] /\ n + (i - n) = i
    BY <1>1, <1>4, <1>9
  <2> QED BY <2>1, <2>2
<1>14. PlacedAt(n, list, entry, p)
  <2> HIDE DEF p
  <2> QED BY <1>1, <1>4, <1>5, <1>6, <1>10, <1>11, <1>12, <1>13 DEF PlacedAt
<1> QED BY <1>7, <1>14

LEMMA PlaceRanked ==
  ASSUME NEW list, Ranked(list), NEW entry \in Entry, entry.item \notin Names(list),
         NEW n, NEW p, PlacedAt(n, list, entry, p)
  PROVE  Ranked(p)
<1>1. list \in Seq(Entry) /\ Len(list) \in Nat /\ n \in 0 .. Len(list)
  BY DEF Ranked, PlacedAt
<1>2. \A i \in 1 .. Len(list) : list[i].sort \in Nat /\ list[i].item # entry.item
  BY <1>1, ElementIs DEF Names
<1>3. entry.sort \in Nat
  BY EntryIs
<1>4. \A i \in 1 .. Len(p) : \/ i <= n /\ p[i] = list[i]
                             \/ i = n + 1 /\ p[i] = entry
                             \/ i > n + 1 /\ p[i] = list[i - 1]
  <2> TAKE i \in 1 .. Len(p)
  <2>1. CASE i <= n
    BY <1>1, <2>1 DEF PlacedAt
  <2>2. CASE i = n + 1
    BY <1>1, <2>2 DEF PlacedAt
  <2>3. CASE i > n + 1
    <3>1. i - 1 \in n + 1 .. Len(list) /\ (i - 1) + 1 = i
      BY <1>1, <2>3 DEF PlacedAt
    <3> QED BY <2>3, <3>1 DEF PlacedAt
  <2> QED BY <1>1, <2>1, <2>2, <2>3 DEF PlacedAt
<1>5. p \in Seq(Entry) /\ Len(p) = Len(list) + 1
  BY DEF PlacedAt
<1>6. Sorted(p)
  <2> SUFFICES ASSUME NEW i \in 1 .. Len(p), NEW j \in 1 .. Len(p), i < j
               PROVE  p[i].sort >= p[j].sort
    BY DEF Sorted
  <2>1. \A k \in 1 .. n : list[k].sort >= entry.sort
    BY DEF PlacedAt
  <2>2. \A k \in n + 1 .. Len(list) : list[k].sort < entry.sort
    BY DEF PlacedAt
  <2>3. \A k, l \in 1 .. Len(list) : k < l => list[k].sort >= list[l].sort
    BY DEF Ranked, Sorted
  <2>4. CASE i <= n
    <3>1. p[i] = list[i] /\ i \in 1 .. Len(list) /\ list[i].sort >= entry.sort
      BY <1>1, <1>4, <2>1, <2>4
    <3>2. CASE j <= n
      BY <1>1, <1>4, <2>3, <3>1, <3>2
    <3>3. CASE j = n + 1
      BY <1>1, <1>4, <3>1, <3>3
    <3>4. CASE j > n + 1
      <4>1. p[j] = list[j - 1] /\ j - 1 \in 1 .. Len(list) /\ i < j - 1
        BY <1>1, <1>4, <1>5, <2>4, <3>4
      <4> QED BY <2>3, <3>1, <4>1
    <3> QED BY <1>1, <3>2, <3>3, <3>4
  <2>5. CASE i = n + 1
    <3>1. p[i] = entry /\ p[j] = list[j - 1] /\ j - 1 \in n + 1 .. Len(list)
      BY <1>1, <1>4, <1>5, <2>5
    <3>2. list[j - 1].sort < entry.sort /\ list[j - 1].sort \in Nat
      BY <1>1, <1>2, <2>2, <3>1
    <3> QED BY <1>3, <3>1, <3>2
  <2>6. CASE i > n + 1
    <3>1. /\ p[i] = list[i - 1] /\ i - 1 \in 1 .. Len(list)
          /\ p[j] = list[j - 1] /\ j - 1 \in 1 .. Len(list) /\ i - 1 < j - 1
      BY <1>1, <1>4, <1>5, <2>6
    <3> QED BY <2>3, <3>1
  <2> QED BY <1>1, <2>4, <2>5, <2>6
<1>7. Distinct(p)
  <2> SUFFICES ASSUME NEW i \in 1 .. Len(p), NEW j \in 1 .. Len(p), p[i].item = p[j].item
               PROVE  i = j
    BY DEF Distinct
  <2>1. \A k, l \in 1 .. Len(list) : list[k].item = list[l].item => k = l
    BY DEF Ranked, Distinct
  <2> DEFINE from(k) == IF k <= n THEN k ELSE k - 1
  <2>2. \A k \in 1 .. Len(p) : \/ k = n + 1 /\ p[k] = entry
                               \/ k # n + 1 /\ p[k] = list[from(k)] /\ from(k) \in 1 .. Len(list)
    <3> TAKE k \in 1 .. Len(p)
    <3>1. CASE k <= n
      BY <1>1, <1>4, <1>5, <3>1
    <3>2. CASE k = n + 1
      BY <1>1, <1>4, <1>5, <3>2
    <3>3. CASE k > n + 1
      <4>1. p[k] = list[k - 1] /\ k - 1 \in 1 .. Len(list) /\ from(k) = k - 1
        BY <1>1, <1>4, <1>5, <3>3
      <4> QED BY <1>1, <3>3, <4>1
    <3> QED BY <1>1, <1>5, <3>1, <3>2, <3>3
  <2>3. i # n + 1 /\ j # n + 1 => from(i) = from(j)
    <3> HIDE DEF from
    <3> QED BY <2>1, <2>2
  <2>4. i = n + 1 <=> j = n + 1
    <3> HIDE DEF from
    <3> QED BY <1>2, <2>2
  <2> QED BY <1>1, <2>3, <2>4
<1> QED BY <1>5, <1>6, <1>7 DEF Ranked

LEMMA TruncatedIs ==
  ASSUME NEW list, Ranked(list)
  PROVE  /\ Good(Truncated(list))
         /\ Len(Truncated(list)) = IF Len(list) > Limit THEN Limit ELSE Len(list)
         /\ \A i \in 1 .. Len(Truncated(list)) : Truncated(list)[i] = list[i]
<1> DEFINE m == IF Len(list) > Limit THEN Limit ELSE Len(list)
           t == SubSeq(list, 1, m)
<1>1. list \in Seq(Entry) /\ Len(list) \in Nat /\ m \in 0 .. Len(list) /\ m <= Limit
  BY ListingAssumption DEF Ranked
<1>2. t \in Seq(Entry) /\ Len(t) = m /\ \A i \in 1 .. m : t[i] = list[i]
  <2> HIDE DEF m
  <2> QED BY <1>1
<1>3. Sorted(t) /\ Distinct(t)
  <2> HIDE DEF t, m
  <2>1. 1 .. m \subseteq 1 .. Len(list)
    BY <1>1
  <2> QED BY <1>1, <1>2, <2>1 DEF Ranked, Sorted, Distinct
<1> QED BY <1>1, <1>2, <1>3 DEF Truncated, Good, Ranked

\* What _insert_tuples leaves is a listing.
LEMMA InsertedGood ==
  ASSUME NEW list, Good(list), NEW entry \in Entry
  PROVE  Good(Inserted(list, entry))
<1> DEFINE w == Without(list, entry.item)
           p == Place(w, entry)
<1>1. Ranked(w) /\ entry.item \notin Names(w)
  BY WithoutRanked DEF Good
<1>2. \E n : PlacedAt(n, w, entry, p)
  BY <1>1, PlaceIs
<1>3. Ranked(p)
  <2> HIDE DEF w, p
  <2> QED BY <1>1, <1>2, PlaceRanked
<1>4. Good(Truncated(p))
  BY <1>3, TruncatedIs
<1> HIDE DEF p, w
<1>5. Inserted(list, entry) \in {list, Truncated(p)}
  BY DEF Inserted, p, w
<1> QED BY <1>4, <1>5

-----------------------------------------------------------------------------
\* The type invariant.

ChangeOK(change) ==
    \/ change.op = "insert" /\ change.item \in Items /\ change.sort \in Sorts
    \/ change.op = "delete"
    \/ change.op \notin {"insert", "delete"} /\ Good(change.list)

GoodInv ==
    /\ Good(row) /\ Good(expected) /\ (mc # None => Good(mc))
    /\ \A w \in Writers : Good(writer[w].value) /\ ChangeOK(writer[w].change)
    /\ \A r \in Readers : Good(reader[r].value)

BoundsInv ==
    /\ timed \in BOOLEAN /\ load \in Loads /\ work \in 0 .. load.work
    /\ \A r \in Readers : reader[r].pc \in {"idle", "filling"}
    /\ spoilt \subseteq {"unlocked", "died", "filled"}

LEMMA ChangesOK == \A change \in Changes : ChangeOK(change)
  BY DumpsAreGood DEF Changes, ChangeOK

LEMMA ChangedGood ==
  ASSUME NEW change, ChangeOK(change), NEW list, Good(list)
  PROVE  Good(Changed(change, list))
<1>1. CASE change.op = "insert" /\ change.item \in Items /\ change.sort \in Sorts
  <2> DEFINE entry == [item |-> change.item, sort |-> change.sort]
  <2>1. entry \in Entry
    BY <1>1 DEF Entry
  <2>2. Changed(change, list) = Inserted(list, entry)
    BY <1>1 DEF Changed
  <2> QED BY <2>1, <2>2, InsertedGood
<1>2. CASE change.op = "delete"
  <2>1. Changed(change, list) = Without(list, change.item)
    BY <1>2 DEF Changed
  <2>2. Ranked(Without(list, change.item)) /\ Len(Without(list, change.item)) <= Len(list)
    BY WithoutRanked DEF Good
  <2>3. Len(list) \in Nat /\ Len(Without(list, change.item)) \in Nat
    BY <2>2 DEF Good, Ranked
  <2> QED BY <2>1, <2>2, <2>3, ListingAssumption DEF Good
<1>3. CASE change.op \notin {"insert", "delete"} /\ Good(change.list)
  BY <1>3 DEF Changed
<1> QED BY <1>1, <1>2, <1>3 DEF ChangeOK

LEMMA IdleGood == Good(Idle.value) /\ ChangeOK(Idle.change)
  BY EmptyIsGood DEF Idle, NoChange, ChangeOK

\* Whatever is stored or held stays a listing.
LEMMA GoodInductive == TypeInv /\ ReplaceInv /\ GoodInv /\ [Next]_vars => GoodInv'
<1> SUFFICES ASSUME TypeInv, ReplaceInv, GoodInv, [Next]_vars PROVE GoodInv'
  OBVIOUS
<1> USE DEF TypeInv, GoodInv
<1>1. ASSUME NEW w \in Writers, Start(w) PROVE GoodInv'
  <2>1. PICK change \in Changes :
           writer' = [writer EXCEPT ![w] =
              [pc |-> IF change.op # "replace" THEN "looking"
                      ELSE IF timed THEN "replacing" ELSE "storing",
               change |-> change, value |-> <<>>]]
    BY <1>1 DEF Start
  <2>2. ChangeOK(change)
    BY ChangesOK
  <2>3. writer'[w].value = <<>> /\ writer'[w].change = change
        /\ \A v \in Writers \ {w} : writer'[v] = writer[v]
    BY <2>1
  <2> QED BY <1>1, <2>2, <2>3, EmptyIsGood DEF Start, ghosts
<1>2. ASSUME NEW w \in Writers, Look(w) PROVE GoodInv'
  BY <1>2 DEF Look, Goto, Has, ghosts
<1>3. ASSUME NEW w \in Writers, Fetch(w) PROVE GoodInv'
  BY <1>3 DEF Fetch, Has, ghosts
<1>4. ASSUME NEW w \in Writers, Store(w) PROVE GoodInv'
  <2> DEFINE change == writer[w].change
             new == Changed(change, writer[w].value)
  <2>1. Good(new) /\ Good(Changed(change, expected))
    BY ChangedGood
  <2>2. row' \in {row, new} /\ expected' = Changed(change, expected)
    BY <1>4 DEF Store, Record
  <2>3. writer'[w].value = new /\ writer'[w].change = change
        /\ \A v \in Writers \ {w} : writer'[v] = writer[v]
    BY <1>4 DEF Store, Has
  <2> QED BY <1>4, <2>1, <2>2, <2>3 DEF Store
<1>5. ASSUME NEW w \in Writers, Cache(w) PROVE GoodInv'
  BY <1>5, IdleGood DEF Cache, ghosts
<1>6. ASSUME NEW w \in Writers, Replace(w) PROVE GoodInv'
  <2>1. Good(Changed(writer[w].change, expected))
    BY ChangedGood
  <2>2. Good(writer[w].change.list)
    BY <1>6 DEF Replace, ReplaceInv, ChangeOK
  <2> QED BY <1>6, <2>1, <2>2 DEF Replace, Record, Goto
<1>7. ASSUME NEW w \in Writers, Drop(w) PROVE GoodInv'
  BY <1>7, IdleGood DEF Drop, ghosts
<1>8. ASSUME NEW w \in Writers, Die(w) PROVE GoodInv'
  BY <1>8, IdleGood DEF Die, ghosts
<1>9. ASSUME NEW r \in Readers, Miss(r) PROVE GoodInv'
  BY <1>9 DEF Miss, ghosts
<1>10. ASSUME NEW r \in Readers, Fill(r) PROVE GoodInv'
  BY <1>10, EmptyIsGood DEF Fill, ghosts
<1>11. CASE Evict
  BY <1>11 DEF Evict, ghosts
<1>12. CASE UNCHANGED vars
  BY <1>12 DEF vars
<1> QED
  BY <1>1, <1>2, <1>3, <1>4, <1>5, <1>6, <1>7, <1>8, <1>9, <1>10, <1>11, <1>12 DEF Next

LEMMA BoundsInductive == TypeInv /\ BoundsInv /\ [Next]_vars => BoundsInv'
<1> SUFFICES ASSUME TypeInv, BoundsInv, [Next]_vars PROVE BoundsInv'
  OBVIOUS
<1> USE DEF TypeInv, BoundsInv
<1>1. load.work \in Nat
  BY ListingAssumption
<1>2. ASSUME NEW w \in Writers, Start(w) PROVE BoundsInv'
  BY <1>1, <1>2 DEF Start
<1>3. ASSUME NEW w \in Writers,
             \/ Look(w) \/ Fetch(w) \/ Store(w) \/ Cache(w) \/ Replace(w) \/ Drop(w) \/ Die(w)
      PROVE  BoundsInv'
  BY <1>3 DEF Look, Fetch, Store, Cache, Replace, Drop, Die
<1>4. ASSUME NEW r \in Readers, Miss(r) \/ Fill(r) PROVE BoundsInv'
  BY <1>4 DEF Miss, Fill
<1>5. CASE Evict \/ UNCHANGED vars
  BY <1>5 DEF Evict, vars
<1> QED BY <1>2, <1>3, <1>4, <1>5 DEF Next

LEMMA InitGood == Init => ListingInv /\ GoodInv /\ BoundsInv
<1> SUFFICES ASSUME Init PROVE ListingInv /\ GoodInv /\ BoundsInv
  OBVIOUS
<1>1. ListingInv
  BY DEF Init, ListingInv, TypeInv, LockInv, InLock, Locked, ReplaceInv, HandInv,
     CacheInv, Idle
<1>2. GoodInv
  BY EmptyIsGood, IdleGood DEF Init, GoodInv
<1>3. BoundsInv
  BY ListingAssumption DEF Init, BoundsInv
<1> QED BY <1>1, <1>2, <1>3

\* Whatever is stored in the row or memcached or is in the hands of a process is
\* sorted, holds no item twice and fits, and one mutation is under way at most,
\* for any number of processes, items and changes and any limit.
THEOREM TypeCorrect == Spec => []TypeOK
<1>1. ListingInv /\ GoodInv /\ BoundsInv => TypeOK
  <2> SUFFICES ASSUME ListingInv, GoodInv, BoundsInv PROVE TypeOK
    OBVIOUS
  <2>1. Cardinality(InLock) <= 1
    <3>1. CASE InLock = {}
      BY <3>1, FS_EmptySet
    <3>2. CASE InLock # {}
      <4>1. PICK w : InLock = {w}
        BY <3>2 DEF ListingInv, LockInv
      <4> QED BY <4>1, FS_Singleton
    <3> QED BY <3>1, <3>2
  <2> QED BY <2>1, GoodIsListing DEF ListingInv, TypeInv, GoodInv, BoundsInv, TypeOK
<1>2. (ListingInv /\ GoodInv /\ BoundsInv) /\ [Next]_vars => (ListingInv /\ GoodInv /\ BoundsInv)'
  BY Inductive, GoodInductive, BoundsInductive DEF ListingInv
<1> QED BY <1>1, <1>2, InitGood, PTL DEF Spec

-----------------------------------------------------------------------------
\* The best items are listed.

Listed(i, t, list) == \E k \in 1 .. Len(list) : list[k] = [item |-> i, sort |-> t]

\* All but one of the elements that fit are there and no worse than t.
Above(t, list) == \A k \in 1 .. Limit - 1 : k <= Len(list) /\ list[k].sort >= t

\* Had each change been made at once; what is listed has its last sort value.
BestInv ==
    /\ newest \in [Items -> Sorts \cup {0}]
    /\ ~narrowed =>
          /\ \A k \in 1 .. Len(expected) : expected[k].sort = newest[expected[k].item]
          /\ \A i \in Items : newest[i] > 0 =>
                Listed(i, newest[i], expected) \/ Above(newest[i], expected)

LEMMA AboveCount ==
  ASSUME NEW list, Ranked(list), NEW t \in Nat, Above(t, list)
  PROVE  Cardinality({k \in 1 .. Len(list) : list[k].sort >= t}) >= Limit - 1
<1> DEFINE P == {k \in 1 .. Len(list) : list[k].sort >= t}
<1>1. 1 .. Limit - 1 \subseteq P
  BY ListingAssumption DEF Above, Ranked
<1>2. IsFiniteSet(P)
  <2>1. IsFiniteSet(1 .. Len(list))
    BY CountTo DEF Ranked
  <2> QED BY <2>1, FS_Subset
<1>3. Cardinality(1 .. Limit - 1) = Limit - 1 /\ Limit - 1 \in Nat
  BY CountTo, ListingAssumption
<1>4. Cardinality(1 .. Limit - 1) <= Cardinality(P)
  BY <1>1, <1>2, FS_Subset
<1>5. Cardinality(P) \in Nat
  BY <1>2, FS_CardinalityType
<1> QED BY <1>3, <1>4, <1>5

\* Truncating a sorted list leaves those that are no worse than t, or as many as
\* fit.
LEMMA TruncatedBest ==
  ASSUME NEW p, Ranked(p), NEW i \in Items, NEW t \in Nat, Listed(i, t, p) \/ Above(t, p)
  PROVE  Listed(i, t, Truncated(p)) \/ Above(t, Truncated(p))
<1>1. /\ p \in Seq(Entry) /\ Len(p) \in Nat /\ Limit \in Nat \ {0}
      /\ Len(Truncated(p)) = IF Len(p) > Limit THEN Limit ELSE Len(p)
      /\ \A k \in 1 .. Len(Truncated(p)) : Truncated(p)[k] = p[k]
  BY TruncatedIs, ListingAssumption DEF Ranked
<1>2. CASE Above(t, p)
  BY <1>1, <1>2 DEF Above
<1>3. CASE Listed(i, t, p)
  <2>1. PICK k \in 1 .. Len(p) : p[k] = [item |-> i, sort |-> t]
    BY <1>3 DEF Listed
  <2>2. CASE k <= Limit
    BY <1>1, <2>1, <2>2 DEF Listed
  <2>3. CASE k > Limit
    <3>1. \A j \in 1 .. Limit : j \in 1 .. Len(p) /\ j < k
      BY <1>1, <2>3
    <3>2. \A j \in 1 .. Limit : p[j].sort >= t
      BY <2>1, <3>1 DEF Ranked, Sorted
    <3> QED BY <1>1, <2>3, <3>2 DEF Above
  <2> QED BY <1>1, <2>2, <2>3
<1> QED BY <1>2, <1>3

\* The new entry takes the place of the item's old one, which was no better.
LEMMA PlacedBest ==
  ASSUME NEW list, Ranked(list), NEW entry \in Entry, NEW i \in Items, NEW t \in Nat,
         \/ i = entry.item /\ t = entry.sort
         \/ /\ i # entry.item /\ (Listed(i, t, list) \/ Above(t, list))
            /\ \A k \in 1 .. Len(list) : list[k].item = entry.item => list[k].sort <= entry.sort,
         NEW w, w = Without(list, entry.item),
         NEW n, NEW p, PlacedAt(n, w, entry, p)
  PROVE  Listed(i, t, p) \/ Above(t, p)
<1>1. /\ list \in Seq(Entry) /\ Len(list) \in Nat /\ Limit \in Nat \ {0}
      /\ w \in Seq(Entry) /\ Len(w) \in Nat
  BY WithoutRanked, ListingAssumption DEF Ranked
<1>2. /\ n \in 0 .. Len(w) /\ p \in Seq(Entry) /\ Len(p) = Len(w) + 1
      /\ \A k \in 1 .. n : p[k] = w[k] /\ w[k].sort >= entry.sort
      /\ p[n + 1] = entry
      /\ \A k \in n + 1 .. Len(w) : p[k + 1] = w[k] /\ w[k].sort < entry.sort
  BY DEF PlacedAt
<1>3. /\ \A k \in 1 .. Len(list) : list[k] \in Entry /\ list[k].sort \in Nat
      /\ \A k \in 1 .. Len(w) : w[k] \in Entry /\ w[k].sort \in Nat
      /\ \A k \in 1 .. Len(p) : p[k] \in Entry /\ p[k].sort \in Nat
      /\ entry.sort \in Nat /\ entry.item \in Items
  BY <1>1, <1>2, ElementIs, EntryIs
<1>4. \A k \in 1 .. Len(w) : \E j \in 1 .. Len(p) : p[j] = w[k]
  <2> TAKE k \in 1 .. Len(w)
  <2>1. CASE k <= n
    BY <1>1, <1>2, <2>1
  <2>2. CASE k > n
    <3>1. p[k + 1] = w[k] /\ k + 1 \in 1 .. Len(p)
      BY <1>1, <1>2, <2>2
    <3> QED BY <3>1
  <2> QED BY <1>1, <1>2, <2>1, <2>2
<1>5. CASE i = entry.item /\ t = entry.sort
  <2>1. entry = [item |-> i, sort |-> t]
    BY <1>5 DEF Entry
  <2> QED BY <1>1, <1>2, <2>1 DEF Listed
<1>6. ASSUME i # entry.item, Listed(i, t, list) PROVE Listed(i, t, p)
  <2>1. PICK k \in 1 .. Len(list) : list[k] = [item |-> i, sort |-> t]
    BY <1>6 DEF Listed
  <2>2. \E m \in 1 .. Len(w) : w[m] = list[k]
    <3>1. CASE entry.item \notin Names(list)
      BY <1>1, <3>1, WithoutNone
    <3>2. ASSUME NEW q \in 1 .. Len(list), list[q].item = entry.item
          PROVE  \E m \in 1 .. Len(w) : w[m] = list[k]
      <4>1. w = [m \in 1 .. Len(list) - 1 |-> list[IF m < q THEN m ELSE m + 1]]
        BY <1>1, <3>2, WithoutOne DEF Ranked
      <4>2. k # q
        BY <1>6, <2>1, <3>2
      <4>3. Len(w) = Len(list) - 1
        BY <1>1, <4>1
      <4>4. CASE k < q
        BY <1>1, <4>1, <4>3, <4>4
      <4>5. CASE k > q
        <5>1. k - 1 \in 1 .. Len(w) /\ w[k - 1] = list[k]
          BY <1>1, <4>1, <4>3, <4>5
        <5> QED BY <5>1
      <4> QED BY <4>2, <4>4, <4>5
    <3> QED BY <3>1, <3>2 DEF Names
  <2> QED BY <1>4, <2>1, <2>2 DEF Listed
<1>7. ASSUME Above(t, list),
             \A k \in 1 .. Len(list) : list[k].item = entry.item => list[k].sort <= entry.sort
      PROVE  Above(t, p)
  <2>1. CASE entry.item \notin Names(list)
    <3>1. w = list
      BY <1>1, <2>1, WithoutNone
    <3> SUFFICES ASSUME NEW k \in 1 .. Limit - 1 PROVE k <= Len(p) /\ p[k].sort >= t
      BY DEF Above
    <3>2. k <= Len(list) /\ list[k].sort >= t
      BY <1>7 DEF Above
    <3>3. k > 1 => k - 1 \in 1 .. Limit - 1
      BY <1>1
    <3>4. k > 1 => k - 1 <= Len(list) /\ list[k - 1].sort >= t
      BY <1>7, <3>3 DEF Above
    <3>5. CASE k <= n
      BY <1>1, <1>2, <3>1, <3>2, <3>5
    <3>6. CASE k = n + 1
      <4>1. list[k].sort <= entry.sort
        BY <1>1, <1>2, <1>3, <3>1, <3>2, <3>6
      <4> QED BY <1>1, <1>2, <1>3, <3>1, <3>2, <3>6, <4>1
    <3>7. CASE k > n + 1
      <4>1. k - 1 \in n + 1 .. Len(w) /\ (k - 1) + 1 = k
        BY <1>1, <1>2, <3>1, <3>2, <3>7
      <4>2. p[k] = list[k - 1]
        BY <1>2, <3>1, <4>1
      <4> QED BY <1>1, <1>2, <3>1, <3>2, <3>4, <3>7, <4>2
    <3> QED BY <1>1, <1>2, <3>5, <3>6, <3>7
  <2>2. ASSUME NEW q \in 1 .. Len(list), list[q].item = entry.item PROVE Above(t, p)
    <3>1. w = [m \in 1 .. Len(list) - 1 |-> list[IF m < q THEN m ELSE m + 1]]
      BY <1>1, <2>2, WithoutOne DEF Ranked
    <3>2. Len(w) = Len(list) - 1
      BY <1>1, <3>1
    <3>3. list[q].sort <= entry.sort
      BY <1>7, <2>2
    <3> SUFFICES ASSUME NEW k \in 1 .. Limit - 1 PROVE k <= Len(p) /\ p[k].sort >= t
      BY DEF Above
    <3>4. \A j \in 1 .. k : j <= Len(list) /\ list[j].sort >= t
      BY <1>1, <1>7 DEF Above
    <3>5. k <= Len(list) /\ Len(p) = Len(list)
      BY <1>1, <1>2, <3>2, <3>4
    <3>6. \A m \in 1 .. k - 1 : m <= Len(w) /\ w[m].sort >= t
      <4> TAKE m \in 1 .. k - 1
      <4>1. m \in 1 .. Len(list) - 1 /\ m \in 1 .. k /\ m + 1 \in 1 .. k
        BY <1>1, <3>5
      <4>2. w[m] = list[IF m < q THEN m ELSE m + 1]
        BY <3>1, <4>1
      <4> QED BY <1>1, <3>2, <3>4, <4>1, <4>2
    <3>7. entry.sort >= t \/ (q > k /\ k <= Len(w) /\ w[k].sort >= t)
      <4>1. CASE q <= k
        BY <1>1, <1>3, <3>3, <3>4, <4>1
      <4>2. CASE q > k
        BY <1>1, <3>1, <3>2, <3>4, <4>2
      <4> QED BY <1>1, <4>1, <4>2
    <3>8. CASE k <= n
      <4>1. p[k] = w[k] /\ w[k].sort >= entry.sort /\ k \in 1 .. Len(w)
        BY <1>1, <1>2, <3>8
      <4> QED BY <1>3, <3>5, <3>7, <4>1
    <3>9. CASE k = n + 1
      <4>1. p[k] = entry
        BY <1>2, <3>9
      <4>2. k \in 1 .. Len(w) => w[k].sort < entry.sort
        BY <1>1, <1>2, <3>9
      <4> QED BY <1>1, <1>3, <3>5, <3>7, <4>1, <4>2
    <3>10. CASE k > n + 1
      <4>1. k - 1 \in n + 1 .. Len(w) /\ (k - 1) + 1 = k
        BY <1>1, <1>2, <3>5, <3>10
      <4>2. p[k] = w[k - 1]
        BY <1>2, <4>1
      <4> QED BY <1>1, <1>2, <3>5, <3>6, <4>1, <4>2
    <3> QED BY <1>1, <1>2, <3>8, <3>9, <3>10
  <2> QED BY <2>1, <2>2 DEF Names
<1> QED BY <1>5, <1>6, <1>7

\* Elements of what an insertion leaves are elements of the list, or the entry,
\* and no old entry of its item.
LEMMA InsertedFrom ==
  ASSUME NEW list, Good(list), NEW entry \in Entry,
         NEW k \in 1 .. Len(Inserted(list, entry))
  PROVE  \/ Inserted(list, entry)[k] = entry
         \/ /\ \E j \in 1 .. Len(list) : Inserted(list, entry)[k] = list[j]
            /\ Inserted(list, entry)[k].item # entry.item
<1> DEFINE w == Without(list, entry.item)
           p == Place(w, entry)
           t == Truncated(p)
           x == Inserted(list, entry)
<1>1. Ranked(w) /\ entry.item \notin Names(w)
  BY WithoutRanked DEF Good
<1>2. PICK n : PlacedAt(n, w, entry, p)
  BY <1>1, PlaceIs
<1> HIDE DEF w
<1>3. Ranked(p)
  BY <1>1, <1>2, PlaceRanked
<1> HIDE DEF p
<1>4. p \in Seq(Entry) /\ Len(p) \in Nat /\ w \in Seq(Entry) /\ Len(w) \in Nat
  BY <1>1, <1>3 DEF Ranked
<1>5. Len(t) <= Len(p) /\ Len(t) \in Nat /\ \A j \in 1 .. Len(t) : t[j] = p[j]
  BY <1>3, <1>4, TruncatedIs, ListingAssumption
<1>6. \A j \in 1 .. Len(p) : p[j] = entry \/ \E l \in 1 .. Len(w) : p[j] = w[l]
  <2> TAKE j \in 1 .. Len(p)
  <2>1. CASE j <= n
    BY <1>2, <1>4, <2>1 DEF PlacedAt
  <2>2. CASE j = n + 1
    BY <1>2, <2>2 DEF PlacedAt
  <2>3. CASE j > n + 1
    <3>1. j - 1 \in n + 1 .. Len(w) /\ (j - 1) + 1 = j /\ j - 1 \in 1 .. Len(w)
      BY <1>2, <1>4, <2>3 DEF PlacedAt
    <3>2. p[j] = w[j - 1]
      BY <1>2, <3>1 DEF PlacedAt
    <3> QED BY <3>1, <3>2
  <2> QED BY <1>2, <1>4, <2>1, <2>2, <2>3 DEF PlacedAt
<1>7. \A l \in 1 .. Len(w) : w[l].item # entry.item /\ \E j \in 1 .. Len(list) : w[l] = list[j]
  <2> TAKE l \in 1 .. Len(w)
  <2>1. w[l].item # entry.item
    BY <1>1 DEF Names
  <2>2. CASE entry.item \notin Names(list)
    BY <2>1, <2>2, WithoutNone DEF w, Good, Ranked
  <2>3. ASSUME NEW q \in 1 .. Len(list), list[q].item = entry.item
        PROVE  \E j \in 1 .. Len(list) : w[l] = list[j]
    <3>1. w = [m \in 1 .. Len(list) - 1 |-> list[IF m < q THEN m ELSE m + 1]]
      BY <2>3, WithoutOne DEF w, Good, Ranked
    <3>2. Len(list) \in Nat
      BY DEF Good, Ranked
    <3>3. l \in 1 .. Len(list) - 1
      BY <1>4, <3>1, <3>2
    <3>4. w[l] = list[IF l < q THEN l ELSE l + 1] /\ (IF l < q THEN l ELSE l + 1) \in 1 .. Len(list)
      BY <3>1, <3>2, <3>3
    <3> QED BY <3>4
  <2> QED BY <2>1, <2>2, <2>3 DEF Names
<1>8. CASE x = t
  <2>1. k \in 1 .. Len(p) /\ x[k] = p[k]
    <3> HIDE DEF t, x
    <3>1. k \in 1 .. Len(x)
      BY DEF x
    <3> QED BY <1>4, <1>5, <1>8, <3>1
  <2> QED BY <1>6, <1>7, <2>1
<1>9. CASE x = list /\ entry.item \notin Names(list)
  <2>1. k \in 1 .. Len(list) /\ x[k] = list[k]
    BY <1>9
  <2> QED BY <1>9, <2>1 DEF Names
<1>10. x = t \/ (x = list /\ entry.item \notin Names(list))
  BY DEF Inserted, p, w
<1> QED BY <1>8, <1>9, <1>10

\* An insertion that is not worse than the item's last one keeps the best.
LEMMA InsertedBest ==
  ASSUME NEW list, Good(list), NEW entry \in Entry, NEW i \in Items, NEW t \in Nat,
         \/ i = entry.item /\ t = entry.sort
         \/ /\ i # entry.item /\ (Listed(i, t, list) \/ Above(t, list))
            /\ \A k \in 1 .. Len(list) : list[k].item = entry.item => list[k].sort <= entry.sort
  PROVE  Listed(i, t, Inserted(list, entry)) \/ Above(t, Inserted(list, entry))
<1> DEFINE w == Without(list, entry.item)
           p == Place(w, entry)
           full == Cardinality(Names(list) \cup {entry.item}) >= Limit
           refused == /\ full /\ list # <<>> /\ entry.item \notin Names(list)
                      /\ entry.sort < list[Len(list)].sort
<1>1. CASE ~refused
  <2>1. Inserted(list, entry) = Truncated(p)
    BY <1>1 DEF Inserted
  <2>2. Ranked(list) /\ Ranked(w) /\ entry.item \notin Names(w)
    BY WithoutRanked DEF Good
  <2>3. PICK n : PlacedAt(n, w, entry, p)
    BY <2>2, PlaceIs
  <2>4. Ranked(p) /\ (Listed(i, t, p) \/ Above(t, p))
    <3> HIDE DEF p
    <3>1. Ranked(p)
      <4> HIDE DEF w
      <4> QED BY <2>2, <2>3, PlaceRanked
    <3>2. Listed(i, t, p) \/ Above(t, p)
      BY <2>2, <2>3, PlacedBest
    <3> QED BY <3>1, <3>2
  <2> HIDE DEF p
  <2> QED BY <2>1, <2>4, TruncatedBest
<1>2. CASE refused
  <2>1. Inserted(list, entry) = list
    BY <1>2 DEF Inserted
  <2>2. CASE i # entry.item
    BY <2>1, <2>2
  <2>3. CASE i = entry.item
    <3>1. list \in Seq(Entry) /\ Len(list) \in Nat /\ Len(list) > 0
      BY <1>2 DEF Good, Ranked
    <3>2. IsFiniteSet(Names(list)) /\ Cardinality(Names(list)) = Len(list)
      BY <3>1, NamesCount DEF Good, Ranked
    <3>3. Cardinality(Names(list) \cup {entry.item}) = Len(list) + 1
      BY <1>2, <3>2, FS_AddElement
    <3>4. Limit - 1 <= Len(list) /\ Limit \in Nat
      BY <1>2, <3>1, <3>3, ListingAssumption
    <3>5. entry.sort \in Nat /\ \A k \in 1 .. Len(list) : list[k].sort \in Nat
      BY <3>1, ElementIs, EntryIs
    <3>6. \A k \in 1 .. Len(list) : list[k].sort >= list[Len(list)].sort
      BY <3>1, <3>5 DEF Good, Ranked, Sorted
    <3>7. list[Len(list)].sort > entry.sort /\ Len(list) \in 1 .. Len(list)
      BY <1>2, <3>1, <3>5
    <3>8. \A k \in 1 .. Len(list) : list[k].sort >= entry.sort
      BY <3>5, <3>6, <3>7
    <3>9. Above(entry.sort, list)
      BY <3>1, <3>4, <3>8 DEF Above
    <3>10. t = entry.sort
      BY <2>3
    <3> QED BY <2>1, <3>9, <3>10
  <2> QED BY <2>2, <2>3
<1> QED BY <1>1, <1>2

LEMMA RecordBest ==
  ASSUME BestInv, Good(expected), NEW change, ChangeOK(change), Record(change)
  PROVE  BestInv'
<1>1. CASE change.op # "insert"
  <2>1. narrowed' /\ newest' = newest
    BY <1>1 DEF Record
  <2> QED BY <2>1 DEF BestInv
<1>2. CASE change.op = "insert"
  <2> DEFINE entry == [item |-> change.item, sort |-> change.sort]
  <2>1. entry \in Entry /\ change.item \in Items /\ change.sort \in Sorts /\ change.sort \in Nat
    <3>1. change.item \in Items /\ change.sort \in Sorts
      BY <1>2 DEF ChangeOK
    <3>2. entry \in Entry
      BY <3>1 DEF Entry
    <3> QED BY <3>1, <3>2, EntryIs
  <2>2. /\ expected' = Inserted(expected, entry)
        /\ newest' = [newest EXCEPT ![change.item] = change.sort]
        /\ narrowed' = (narrowed \/ change.sort < newest[change.item])
    BY <1>2 DEF Record, Changed
  <2>3. newest' \in [Items -> Sorts \cup {0}] /\ newest \in [Items -> Sorts \cup {0}]
    BY <2>1, <2>2 DEF BestInv
  <2>4. \A i \in Items : newest[i] \in Nat /\ newest'[i] \in Nat
    <3>1. Sorts \cup {0} \subseteq Nat
      BY ListingAssumption
    <3> QED BY <2>3, <3>1
  <2> SUFFICES ASSUME ~narrowed' PROVE
         /\ \A k \in 1 .. Len(expected') : expected'[k].sort = newest'[expected'[k].item]
         /\ \A i \in Items : newest'[i] > 0 =>
               Listed(i, newest'[i], expected') \/ Above(newest'[i], expected')
    BY <2>3 DEF BestInv, Listed, Above
  <2>5. ~narrowed /\ newest[change.item] <= change.sort
    <3>1. ~narrowed /\ ~(change.sort < newest[change.item])
      BY <2>2
    <3>2. newest[change.item] \in Nat
      BY <2>1, <2>4
    <3> QED BY <2>1, <3>1, <3>2
  <2>6. \A k \in 1 .. Len(expected) :
           expected[k].sort = newest[expected[k].item] /\ expected[k].item \in Items
    BY <2>5, ElementIs, EntryIs DEF BestInv, Good, Ranked
  <2>7. entry.item = change.item /\ entry.sort = change.sort
    OBVIOUS
  <2> HIDE DEF entry
  <2>8. ASSUME NEW k \in 1 .. Len(expected')
        PROVE  expected'[k].sort = newest'[expected'[k].item]
    <3> DEFINE x == Inserted(expected, entry)
    <3>1. \/ x[k] = entry
          \/ (\E j \in 1 .. Len(expected) : x[k] = expected[j]) /\ x[k].item # entry.item
      <4>1. k \in 1 .. Len(x)
        BY <2>2, <2>8
      <4> QED BY <2>1, <4>1, InsertedFrom
    <3> HIDE DEF x
    <3>2. x[k].sort = newest'[x[k].item]
      BY <2>1, <2>2, <2>3, <2>6, <2>7, <3>1
    <3>3. x = expected'
      BY <2>2 DEF x
    <3> QED BY <3>2, <3>3
  <2>9. ASSUME NEW i \in Items, newest'[i] > 0
        PROVE  Listed(i, newest'[i], expected') \/ Above(newest'[i], expected')
    <3>1. \A k \in 1 .. Len(expected) :
             expected[k].item = entry.item => expected[k].sort <= entry.sort
      BY <2>5, <2>6, <2>7
    <3>2. CASE i = change.item
      <4>1. newest'[i] = entry.sort
        BY <2>2, <2>3, <2>7, <3>2
      <4> QED BY <2>1, <2>2, <2>4, <2>7, <3>2, <4>1, InsertedBest
    <3>3. CASE i # change.item
      <4>1. newest'[i] = newest[i]
        BY <2>2, <2>3, <3>3
      <4>2. Listed(i, newest[i], expected) \/ Above(newest[i], expected)
        BY <2>5, <2>9, <4>1 DEF BestInv
      <4> QED BY <2>1, <2>2, <2>4, <2>7, <3>1, <3>3, <4>1, <4>2, InsertedBest
    <3> QED BY <3>2, <3>3
  <2> QED BY <2>8, <2>9
<1> QED BY <1>1, <1>2

LEMMA BestInductive == TypeInv /\ GoodInv /\ BestInv /\ [Next]_vars => BestInv'
<1> SUFFICES ASSUME TypeInv, GoodInv, BestInv, [Next]_vars PROVE BestInv'
  OBVIOUS
<1>1. ASSUME NEW w \in Writers, Store(w) \/ Replace(w) PROVE BestInv'
  BY <1>1, RecordBest DEF Store, Replace, GoodInv
<1>2. CASE UNCHANGED ghosts
  BY <1>2 DEF ghosts, BestInv, Listed, Above
<1> QED
  BY <1>1, <1>2 DEF Next, Start, Look, Fetch, Cache, Drop, Die, Miss, Fill, Evict, vars, ghosts

\* The best items are listed: the short cut that refuses an item of a list about
\* to be full, and the truncation, lose no item but those with which the listing
\* is full, for any number of writers, readers, items and changes and any limit.
THEOREM BestListed == Spec => []BestAreListed
<1>1. ListingInv /\ GoodInv /\ BestInv => BestAreListed
  <2> SUFFICES ASSUME ListingInv, GoodInv, BestInv, spoilt = {}, ~narrowed,
                      NEW i \in Items, newest[i] > 0
               PROVE  \/ \E k \in 1 .. Len(row) : row[k] = [item |-> i, sort |-> newest[i]]
                      \/ Cardinality({k \in 1 .. Len(row) : row[k].sort >= newest[i]}) >= Limit - 1
    BY DEF BestAreListed
  <2>1. row = expected /\ Ranked(row)
    BY DEF ListingInv, GoodInv, Good
  <2>2. newest[i] \in Nat
    <3>1. Sorts \cup {0} \subseteq Nat
      BY ListingAssumption
    <3> QED BY <3>1 DEF BestInv
  <2>3. Listed(i, newest[i], row) \/ Above(newest[i], row)
    BY <2>1 DEF BestInv
  <2> QED BY <2>1, <2>2, <2>3, AboveCount DEF Listed
<1>2. Init => BestInv
  BY DEF Init, BestInv
<1>3. (ListingInv /\ GoodInv /\ BestInv) /\ [Next]_vars => (ListingInv /\ GoodInv /\ BestInv)'
  BY Inductive, GoodInductive, BestInductive DEF ListingInv
<1> QED BY <1>1, <1>2, <1>3, InitGood, PTL DEF Spec
=============================================================================
