-------------------------- MODULE CommentTreeProofs --------------------------
(***************************************************************************)
(* ListedOnce, proved for any number of consumers and pages and all        *)
(* faults; AckedAreListed, for one consumer and the faults but "late" and  *)
(* "stranded".                                                             *)
(***************************************************************************)
EXTENDS CommentTree, FiniteSetTheorems, TLAPS

\* A tree that may be missing lists nothing twice.
Once(t) == t # Missing => \A c \in Comments : t[c] <= 1

OnceInv ==
    /\ Once(row) /\ Once(mem)
    /\ \A p \in Procs : Once(local[p]) /\ Once(seen[p])

\* The comments a tree lists, and the tree a page would show.
Listed(t) == {c \in Comments : t[c] > 0}
Current == IF mem = Missing THEN row ELSE mem

\* What the processes hold of the tree, when w alone writes it.  Memcached may
\* be behind the row once w died between the two, but then no other copy is
\* about and the tree stays in memcached until w has written both; so what was
\* acknowledged is in whatever tree w may load.
LoadInv(q) ==
    seen[q] # Missing => /\ pc[q] \in Loads
                         /\ Acked \subseteq Listed(seen[q])
                         /\ Listed(seen[q]) \subseteq Listed(row)

QuietInv(q) == seen[q] # Missing => seen[q] = row /\ Current = row

WriterInv(w) ==
    /\ pc[w] # "reading" /\ (pc[w] = "idle" => batch[w] = {})
    /\ pc[w] # "caching" => local[w] \in {Missing, Current}
    /\ pc[w] # "caching" => \A q \in Procs : QuietInv(q)
    /\ pc[w] = "adding" /\ local[w] = Missing => row = Empty
    /\ pc[w] = "caching" => local[w] = row /\ batch[w] \subseteq Listed(row)
    /\ pc[w] = "acking" => batch[w] \subseteq Listed(Current)

TreeInv(w) ==
    /\ TypeOK
    /\ Acked \subseteq Listed(Current) /\ Listed(Current) \subseteq Listed(row)
    /\ \A q \in Procs : LoadInv(q)
    /\ WriterInv(w)

-----------------------------------------------------------------------------

LEMMA MissingIsNoTree == Missing \notin Tree
  BY TreeAssumption DEF Tree

LEMMA EmptyIsTree == Empty \in Tree
  BY DEF Empty, Tree

LEMMA InitTypeOK == Init => TypeOK
<1> SUFFICES ASSUME Init PROVE TypeOK
  OBVIOUS
<1>1. Cardinality({}) = 0
  BY FS_EmptySet
<1>2. \A p \in Consumers : Cardinality(batch[p]) <= Limit
  BY <1>1, TreeAssumption DEF Init
<1>3. deaths \in 0 .. MaxDeaths
  BY TreeAssumption DEF Init
<1>. QED
  BY <1>2, <1>3, EmptyIsTree DEF Init, TypeOK, Procs

\* What a death leaves of the queue and the process.
LEMMA GiveBackTypeOK ==
  ASSUME TypeOK, NEW p \in Procs, p \in Consumers, GiveBack(p),
         lock' \in Consumers \cup {Missing, Orphan}, deaths' \in 0 .. MaxDeaths
  PROVE  TypeOK'
<1>1. Cardinality({}) = 0
  BY FS_EmptySet
<1>2. \A q \in Consumers : Cardinality(batch'[q]) <= Limit
  BY <1>1, TreeAssumption DEF GiveBack, TypeOK
<1>. QED
  BY <1>2 DEF GiveBack, TypeOK

LEMMA NextTypeOK == TypeOK /\ [Next]_vars => TypeOK'
<1> SUFFICES ASSUME TypeOK, [Next]_vars PROVE TypeOK'
  OBVIOUS
<1>1. ASSUME NEW c \in Comments, Post(c) PROVE TypeOK'
  BY <1>1 DEF Post, TypeOK, caches
<1>2. ASSUME NEW p \in Procs, LoadCached(p) PROVE TypeOK'
  BY <1>2, MissingIsNoTree DEF LoadCached, Loads, Kept, After, TypeOK, queue
<1>3. ASSUME NEW p \in Procs, ReadRow(p) PROVE TypeOK'
  BY <1>3 DEF ReadRow, TypeOK, queue
<1>4. ASSUME NEW p \in Procs, Fill(p) PROVE TypeOK'
  <2>1. pc' \in [Procs -> Loads \cup {"idle", "waiting", "adding", "caching", "acking"}]
    BY <1>4 DEF Fill, TypeOK, After, Loads
  <2>2. seen[p] \in Tree
    BY <1>4 DEF Fill, TypeOK
  <2>3. /\ mem' \in Tree \cup {Missing}
        /\ local' \in [Procs -> Tree \cup {Missing}]
        /\ seen' \in [Procs -> Tree \cup {Missing}]
    BY <1>4, <2>2 DEF Fill, Kept, TypeOK
  <2>. QED
    BY <1>4, <2>1, <2>3 DEF Fill, TypeOK, queue
<1>5. ASSUME NEW p \in Procs, OpenPage(p) PROVE TypeOK'
  BY <1>5 DEF OpenPage, Goto, Loads, TypeOK, queue, caches
<1>6. ASSUME NEW p \in Consumers, GetBatch(p) PROVE TypeOK'
  BY <1>6 DEF GetBatch, Goto, Loads, TypeOK, Procs
<1>7. ASSUME NEW p \in Consumers, TakeLock(p) PROVE TypeOK'
  BY <1>7 DEF TakeLock, Goto, Loads, TypeOK, queue, caches
<1>8. ASSUME NEW p \in Consumers, AddNothing(p) PROVE TypeOK'
  BY <1>8 DEF AddNothing, Unlock, Goto, TypeOK, queue, caches
<1>9. ASSUME NEW p \in Consumers, WriteRow(p) PROVE TypeOK'
  <2>1. Loaded(p) \in Tree
    BY EmptyIsTree DEF Loaded, TypeOK, Procs
  <2>2. row' \in Tree
    BY <1>9, <2>1 DEF WriteRow, Tree
  <2>. QED
    BY <1>9, <2>2 DEF WriteRow, Goto, TypeOK, queue
<1>10. ASSUME NEW p \in Consumers, WriteCaches(p) PROVE TypeOK'
  BY <1>10 DEF WriteCaches, Unlock, Goto, TypeOK, queue, Procs
<1>11. ASSUME NEW p \in Consumers, Ack(p) PROVE TypeOK'
  <2>1. Cardinality({}) = 0
    BY FS_EmptySet
  <2>2. \A q \in Consumers : Cardinality(batch'[q]) <= Limit
    BY <1>11, <2>1, TreeAssumption DEF Ack, TypeOK
  <2>. QED
    BY <1>11, <2>2 DEF Ack, Goto, TypeOK, caches
<1>12. ASSUME NEW p \in Consumers, TimeOut(p) PROVE TypeOK'
  BY <1>12, GiveBackTypeOK DEF TimeOut, TypeOK, Procs
<1>13. ASSUME NEW p \in Consumers, Raise(p) PROVE TypeOK'
  <2>1. deaths' \in 0 .. MaxDeaths
    BY <1>13, TreeAssumption DEF Raise, Dies, TypeOK
  <2>. QED
    BY <1>13, <2>1, GiveBackTypeOK DEF Raise, Dies, Unlock, TypeOK, Procs
<1>14. ASSUME NEW p \in Consumers, Kill(p) PROVE TypeOK'
  <2>1. deaths' \in 0 .. MaxDeaths
    BY <1>14, TreeAssumption DEF Kill, Dies, TypeOK
  <2>. QED
    BY <1>14, <2>1, GiveBackTypeOK DEF Kill, Dies, TypeOK, Procs
<1>15. ASSUME LockExpires PROVE TypeOK'
  BY <1>15 DEF LockExpires, TypeOK, queue, caches
<1>16. ASSUME Evict PROVE TypeOK'
  BY <1>16 DEF Evict, TypeOK, queue
<1>17. ASSUME UNCHANGED vars PROVE TypeOK'
  BY <1>17 DEF vars, queue, caches, TypeOK
<1>. QED
  BY <1>1, <1>2, <1>3, <1>4, <1>5, <1>6, <1>7, <1>8, <1>9, <1>10, <1>11, <1>12,
     <1>13, <1>14, <1>15, <1>16, <1>17 DEF Next, Load, Add

\* Every state of the comment tree has its type, for any number of consumers,
\* pages, comments and deaths.
THEOREM TypeCorrect == Spec => []TypeOK
  BY InitTypeOK, NextTypeOK, PTL DEF Spec

-----------------------------------------------------------------------------

LEMMA EmptyOnce == Once(Empty)
  BY DEF Once, Empty

LEMMA InitOnce == Init => OnceInv
  BY EmptyOnce DEF Init, OnceInv, Once, Procs

LEMMA NextOnce == TypeOK /\ OnceInv /\ [Next]_vars => OnceInv'
<1> SUFFICES ASSUME TypeOK, OnceInv, [Next]_vars PROVE OnceInv'
  OBVIOUS
<1>1. ASSUME NEW p \in Procs, LoadCached(p) PROVE OnceInv'
  BY <1>1 DEF LoadCached, Kept, OnceInv, Once, TypeOK
<1>2. ASSUME NEW p \in Procs, ReadRow(p) PROVE OnceInv'
  BY <1>2 DEF ReadRow, OnceInv, Once, TypeOK
<1>3. ASSUME NEW p \in Procs, Fill(p) PROVE OnceInv'
  BY <1>3 DEF Fill, Kept, OnceInv, Once, TypeOK
<1>4. ASSUME NEW p \in Consumers, GetBatch(p) PROVE OnceInv'
  BY <1>4 DEF GetBatch, OnceInv, Once, TypeOK, Procs
<1>5. ASSUME NEW p \in Consumers, WriteRow(p) PROVE OnceInv'
  <2>1. Loaded(p) \in Tree /\ Once(Loaded(p))
    BY EmptyIsTree, EmptyOnce DEF Loaded, OnceInv, TypeOK, Procs
  <2>2. \A c \in Comments : row'[c] <= 1
    BY <1>5, <2>1, MissingIsNoTree DEF WriteRow, New, Once, Tree
  <2>3. Once(row)'
    BY <2>2 DEF Once
  <2>. QED
    BY <1>5, <2>2, <2>3 DEF WriteRow, OnceInv, Once, TypeOK, Procs
<1>6. ASSUME NEW p \in Consumers, WriteCaches(p) PROVE OnceInv'
  BY <1>6 DEF WriteCaches, OnceInv, Once, TypeOK, Procs
<1>7. ASSUME NEW p \in Consumers, GiveBack(p) PROVE OnceInv'
  BY <1>7 DEF GiveBack, OnceInv, Once, TypeOK, Procs
<1>8. ASSUME Evict PROVE OnceInv'
  BY <1>8 DEF Evict, OnceInv, Once
<1>9. ASSUME UNCHANGED <<row, caches>> PROVE OnceInv'
  BY <1>9 DEF caches, OnceInv, Once
<1>10. ASSUME NEW p \in Consumers, Add(p) PROVE OnceInv'
  BY <1>5, <1>6, <1>9, <1>10 DEF Add, TakeLock, AddNothing, Ack
<1>11. ASSUME NEW p \in Consumers, TimeOut(p) \/ Raise(p) \/ Kill(p) PROVE OnceInv'
  BY <1>7, <1>11 DEF TimeOut, Raise, Kill, Dies
<1>12. ASSUME NEW p \in Procs, Load(p) \/ OpenPage(p) PROVE OnceInv'
  BY <1>1, <1>2, <1>3, <1>9, <1>12 DEF Load, OpenPage
<1>13. ASSUME NEW c \in Comments, Post(c) PROVE OnceInv'
  BY <1>9, <1>13 DEF Post
<1>. QED
  BY <1>4, <1>8, <1>9, <1>10, <1>11, <1>12, <1>13 DEF Next, vars, LockExpires

\* "skip any comments that are already in the stored tree": no tree lists a
\* comment twice, whoever loads, writes, dies, or takes a message again.
THEOREM StoredOnce == Spec => []ListedOnce
<1>1. TypeOK /\ OnceInv => ListedOnce
  BY MissingIsNoTree DEF OnceInv, ListedOnce, Once, TypeOK
<1>2. Init => TypeOK /\ OnceInv
  BY InitTypeOK, InitOnce
<1>3. (TypeOK /\ OnceInv) /\ [Next]_vars => (TypeOK /\ OnceInv)'
  BY NextTypeOK, NextOnce
<1>. QED
  BY <1>1, <1>2, <1>3, PTL DEF Spec

-----------------------------------------------------------------------------
\* One consumer, and neither "late" nor "stranded".

OneWriter(w) == Consumers = {w} /\ "late" \notin Faults /\ "stranded" \notin Faults

LEMMA AckedIs ==
  ASSUME NEW w, OneWriter(w)
  PROVE  /\ Acked = posted \ (ready \cup batch[w])
         /\ Acked' = posted' \ (ready' \cup batch'[w])
  BY DEF OneWriter, Acked

LEMMA InitTree ==
  ASSUME NEW w, OneWriter(w), Init
  PROVE  TreeInv(w)
<1>1. Acked = {}
  BY DEF Init, Acked
<1>2. Current = row
  BY DEF Init, Current
<1>. QED
  BY <1>1, <1>2, InitTypeOK DEF Init, TreeInv, LoadInv, WriterInv, QuietInv, OneWriter, Procs

\* A tree listed by nobody lists nothing new.
LEMMA TreeIsNotMissing ==
  ASSUME TypeOK
  PROVE  /\ row \in Tree /\ row # Missing /\ Current \in Tree /\ Current # Missing
         /\ Empty # Missing
         /\ mem # Missing => Current = mem
         /\ mem = Missing => Current = row
  BY MissingIsNoTree, EmptyIsTree DEF TypeOK, Current

LEMMA LoadCachedTree ==
  ASSUME NEW w, OneWriter(w), TreeInv(w), TypeOK', NEW p \in Procs, LoadCached(p)
  PROVE  TreeInv(w)'
<1>1. Acked' = Acked /\ Current' = Current
  BY DEF LoadCached, Acked, Current, queue
<1>2. \A q \in Procs : LoadInv(q)'
  BY <1>1 DEF LoadCached, TreeInv, LoadInv, TypeOK
<1>3. p # w => WriterInv(w)'
  BY <1>1 DEF LoadCached, Kept, TreeInv, WriterInv, QuietInv, TypeOK, queue, OneWriter, Procs
<1>4. ASSUME p = w PROVE WriterInv(w)'
  <2>1. local'[w] = Current /\ local'[w] # Missing
    BY <1>4, TreeIsNotMissing, TreeAssumption
    DEF LoadCached, Kept, TreeInv, WriterInv, TypeOK, Loads, OneWriter, Procs
  <2>2. pc[w] # "caching" /\ pc'[w] \in {"waiting", "adding"}
    BY <1>4 DEF LoadCached, After, Loads, TreeInv, WriterInv, TypeOK
  <2>. QED
    BY <1>1, <2>1, <2>2 DEF LoadCached, TreeInv, WriterInv, QuietInv, queue
<1>. QED
  BY <1>1, <1>2, <1>3, <1>4 DEF LoadCached, TreeInv

LEMMA ReadRowTree ==
  ASSUME NEW w, OneWriter(w), TreeInv(w), TypeOK', NEW p \in Procs, ReadRow(p)
  PROVE  TreeInv(w)'
<1>1. Acked' = Acked /\ Current' = Current /\ Current = row
  BY DEF ReadRow, Acked, Current, queue
<1>2. \A q \in Procs : LoadInv(q)'
  BY <1>1 DEF ReadRow, TreeInv, LoadInv, TypeOK
<1>3. WriterInv(w)'
  BY <1>1 DEF ReadRow, TreeInv, WriterInv, QuietInv, TypeOK, queue
<1>. QED
  BY <1>1, <1>2, <1>3 DEF ReadRow, TreeInv

LEMMA FillTree ==
  ASSUME NEW w, OneWriter(w), TreeInv(w), TypeOK', NEW p \in Procs, Fill(p)
  PROVE  TreeInv(w)'
<1>1. /\ Acked' = Acked /\ row' = row /\ batch' = batch
      /\ seen[p] # Missing /\ seen[p] \in Tree /\ pc[p] \in Loads
      /\ seen' = [seen EXCEPT ![p] = Missing]
      /\ pc' = [pc EXCEPT ![p] = After(p)]
      /\ w \in Procs /\ w \in Consumers /\ w \notin Readers
  BY TreeAssumption DEF Fill, Acked, queue, TreeInv, TypeOK, OneWriter, Procs
<1>2. Current' \in {Current, seen[p]}
  BY <1>1 DEF Fill, Current
<1>3. Acked \subseteq Listed(Current') /\ Listed(Current') \subseteq Listed(row)
  BY <1>1, <1>2 DEF TreeInv, LoadInv
<1>4. pc[w] # "caching" => Current' = Current /\ seen[p] = Current /\ row = Current
  BY <1>1, <1>2 DEF TreeInv, WriterInv, QuietInv
<1>5. \A q \in Procs : LoadInv(q)'
  BY <1>1 DEF TreeInv, LoadInv, TypeOK
<1>6. ASSUME p # w PROVE WriterInv(w)'
  <2>1. local'[w] = local[w] /\ pc'[w] = pc[w]
    BY <1>1, <1>6 DEF Fill, Kept, TreeInv, TypeOK
  <2>2. pc[w] = "acking" => Current' = Current
    BY <1>4
  <2>. QED
    BY <1>1, <1>4, <2>1, <2>2 DEF TreeInv, WriterInv, QuietInv, TypeOK
<1>7. ASSUME p = w PROVE WriterInv(w)'
  <2>1. pc[w] # "caching" /\ pc'[w] \in {"waiting", "adding"}
    BY <1>1, <1>7 DEF After, Loads, TreeInv, WriterInv, TypeOK
  <2>2. local'[w] = (IF seen[w] = Empty THEN Missing ELSE seen[w])
    BY <1>1, <1>7 DEF Fill, Kept, TreeInv, TypeOK
  <2>3. seen[w] = Empty => row = Empty
    BY <1>4, <1>7, <2>1
  <2>. QED
    BY <1>1, <1>4, <1>7, <2>1, <2>2, <2>3 DEF TreeInv, WriterInv, QuietInv, TypeOK
<1>. QED
  BY <1>1, <1>3, <1>5, <1>6, <1>7 DEF TreeInv

LEMMA GetBatchTree ==
  ASSUME NEW w, OneWriter(w), TreeInv(w), TypeOK', GetBatch(w)
  PROVE  TreeInv(w)'
<1>1. /\ row' = row /\ mem' = mem /\ seen' = seen /\ posted' = posted /\ Current' = Current
      /\ w \in Procs /\ pc[w] = "idle" /\ pc' = [pc EXCEPT ![w] = "scoring"]
      /\ local' = [local EXCEPT ![w] = Missing] /\ batch[w] = {}
  BY DEF GetBatch, Goto, Current, TreeInv, WriterInv, OneWriter, Procs
<1>2. ready' \cup batch'[w] = ready
  BY DEF GetBatch, TreeInv, TypeOK, OneWriter
<1>3. Acked' = Acked
  BY <1>1, <1>2, AckedIs
<1>4. \A q \in Procs : LoadInv(q)'
  BY <1>1, <1>3 DEF TreeInv, LoadInv, TypeOK, Loads
<1>5. WriterInv(w)'
  BY <1>1 DEF TreeInv, WriterInv, QuietInv, TypeOK
<1>. QED
  BY <1>1, <1>3, <1>4, <1>5 DEF TreeInv

LEMMA WriteRowTree ==
  ASSUME NEW w, OneWriter(w), TreeInv(w), TypeOK', WriteRow(w)
  PROVE  TreeInv(w)'
<1>1. /\ mem' = mem /\ seen' = seen /\ Acked' = Acked /\ batch' = batch /\ w \in Procs
      /\ pc[w] = "adding" /\ pc' = [pc EXCEPT ![w] = "caching"]
      /\ local' = [local EXCEPT ![w] = row']
  BY DEF WriteRow, Goto, Acked, queue, OneWriter, Procs
<1>2. Loaded(w) \in Tree /\ Listed(Current) \subseteq Listed(Loaded(w))
  BY <1>1, TreeIsNotMissing, EmptyIsTree DEF Loaded, TreeInv, WriterInv, TypeOK
<1>3. Listed(Loaded(w)) \subseteq Listed(row') /\ batch[w] \subseteq Listed(row')
  BY <1>2, MissingIsNoTree DEF WriteRow, New, Work, Listed, Tree, TreeInv, TypeOK, OneWriter
<1>4. Acked \subseteq Listed(row') /\ Listed(Current) \subseteq Listed(row')
  BY <1>2, <1>3 DEF TreeInv
<1>5. Acked \subseteq Listed(Current') /\ Listed(Current') \subseteq Listed(row')
  BY <1>1, <1>4 DEF TreeInv, Current
<1>6. \A q \in Procs : LoadInv(q)'
  BY <1>1, <1>4 DEF TreeInv, LoadInv, WriterInv, QuietInv, TypeOK, Loads
<1>7. WriterInv(w)'
  BY <1>1, <1>3 DEF TreeInv, WriterInv, TypeOK
<1>. QED
  BY <1>1, <1>5, <1>6, <1>7 DEF TreeInv

LEMMA WriteCachesTree ==
  ASSUME NEW w, OneWriter(w), TreeInv(w), TypeOK', WriteCaches(w)
  PROVE  TreeInv(w)'
<1>1. /\ row' = row /\ local' = local /\ seen' = seen /\ Acked' = Acked /\ batch' = batch
      /\ w \in Procs /\ pc[w] = "caching" /\ pc' = [pc EXCEPT ![w] = "acking"]
      /\ local[w] = row /\ mem' = row /\ row # Missing
  BY TreeIsNotMissing DEF WriteCaches, Goto, Acked, queue, OneWriter, Procs, TreeInv, WriterInv
<1>2. Current' = row
  BY <1>1 DEF Current
<1>3. Acked \subseteq Listed(row)
  BY DEF TreeInv
<1>4. \A q \in Procs : seen[q] \in {Missing, row}
  <2>1. seen[w] = Missing
    BY <1>1 DEF TreeInv, LoadInv, Loads
  <2>. QED
    BY <2>1 DEF WriteCaches, FillsInTime, OneWriter
<1>5. \A q \in Procs : LoadInv(q)'
  BY <1>1, <1>4 DEF TreeInv, LoadInv, TypeOK, Loads
<1>6. WriterInv(w)'
  BY <1>1, <1>2, <1>4 DEF TreeInv, WriterInv, QuietInv, TypeOK
<1>. QED
  BY <1>1, <1>2, <1>3, <1>5, <1>6 DEF TreeInv

LEMMA AddNothingTree ==
  ASSUME NEW w, OneWriter(w), TreeInv(w), TypeOK', AddNothing(w)
  PROVE  TreeInv(w)'
<1>1. /\ row' = row /\ mem' = mem /\ local' = local /\ seen' = seen /\ Acked' = Acked
      /\ batch' = batch /\ Current' = Current
      /\ w \in Procs /\ pc[w] = "adding" /\ pc' = [pc EXCEPT ![w] = "acking"]
  BY DEF AddNothing, Goto, Acked, queue, caches, Current, OneWriter, Procs
<1>2. batch[w] \subseteq Listed(Loaded(w))
  <2>1. Loaded(w) \in Tree
    BY <1>1, EmptyIsTree DEF Loaded, TreeInv, TypeOK
  <2>. QED
    BY <2>1 DEF AddNothing, New, Work, Listed, Tree, TreeInv, TypeOK, OneWriter
<1>3. Loaded(w) \in {Current, Empty}
  BY <1>1 DEF Loaded, TreeInv, WriterInv
<1>4. batch[w] \subseteq Listed(Current)
  <2>1. Listed(Empty) = {}
    BY DEF Listed, Empty
  <2>. QED
    BY <1>2, <1>3, <2>1
<1>5. \A q \in Procs : LoadInv(q)'
  BY <1>1 DEF TreeInv, LoadInv, TypeOK, Loads
<1>6. WriterInv(w)'
  BY <1>1, <1>4 DEF TreeInv, WriterInv, QuietInv, TypeOK
<1>. QED
  BY <1>1, <1>5, <1>6 DEF TreeInv

LEMMA AckTree ==
  ASSUME NEW w, OneWriter(w), TreeInv(w), TypeOK', Ack(w)
  PROVE  TreeInv(w)'
<1>1. /\ row' = row /\ mem' = mem /\ local' = local /\ seen' = seen /\ Current' = Current
      /\ posted' = posted /\ ready' = ready /\ batch' = [batch EXCEPT ![w] = {}]
      /\ w \in Procs /\ pc[w] = "acking" /\ pc' = [pc EXCEPT ![w] = "idle"]
  BY DEF Ack, Goto, caches, Current, OneWriter, Procs
<1>2. Acked' \subseteq Acked \cup batch[w]
  BY <1>1, AckedIs DEF TreeInv, TypeOK
<1>3. Acked' \subseteq Listed(Current) /\ Acked' \subseteq Listed(row)
  BY <1>1, <1>2 DEF TreeInv, WriterInv
<1>4. \A q \in Procs : LoadInv(q)'
  BY <1>1, <1>3 DEF TreeInv, LoadInv, WriterInv, QuietInv, TypeOK, Loads
<1>5. WriterInv(w)'
  BY <1>1 DEF TreeInv, WriterInv, QuietInv, TypeOK, OneWriter
<1>. QED
  BY <1>1, <1>3, <1>4, <1>5 DEF TreeInv

LEMMA GiveBackTree ==
  ASSUME NEW w, OneWriter(w), TreeInv(w), TypeOK', GiveBack(w),
         pc[w] = "caching" => \A q \in Procs \ {w} : seen[q] = Missing
  PROVE  TreeInv(w)'
<1>1. /\ row' = row /\ mem' = mem /\ Current' = Current /\ posted' = posted
      /\ local' = [local EXCEPT ![w] = Missing] /\ seen' = [seen EXCEPT ![w] = Missing]
      /\ batch' = [batch EXCEPT ![w] = {}] /\ ready' = ready \cup batch[w]
      /\ w \in Procs /\ w \in Consumers /\ pc' = [pc EXCEPT ![w] = "idle"]
  BY DEF GiveBack, Current, OneWriter, Procs
<1>2. batch'[w] = {}
  BY <1>1 DEF TreeInv, TypeOK
<1>3. Acked' = Acked
  BY <1>1, <1>2, AckedIs
<1>4. \A q \in Procs : LoadInv(q)'
  BY <1>1, <1>3 DEF TreeInv, LoadInv, TypeOK
<1>5. \A q \in Procs : QuietInv(q)'
  BY <1>1 DEF TreeInv, WriterInv, QuietInv, TypeOK
<1>6. WriterInv(w)'
  BY <1>1, <1>2, <1>5 DEF TreeInv, WriterInv, TypeOK
<1>. QED
  BY <1>1, <1>3, <1>4, <1>6 DEF TreeInv

LEMMA EvictTree ==
  ASSUME NEW w, OneWriter(w), TreeInv(w), TypeOK', Evict
  PROVE  TreeInv(w)'
<1>1. /\ row' = row /\ local' = local /\ seen' = seen /\ Acked' = Acked /\ batch' = batch
      /\ pc' = pc /\ Current' = row
      /\ mem = row \/ pc[w] = "caching"
  BY DEF Evict, Acked, queue, Current, OneWriter
<1>2. mem = row => Current = row
  BY DEF Current
<1>3. Acked \subseteq Listed(row)
  BY DEF TreeInv
<1>4. WriterInv(w)'
  BY <1>1, <1>2 DEF TreeInv, WriterInv, QuietInv
<1>. QED
  BY <1>1, <1>3, <1>4 DEF TreeInv, LoadInv

\* Steps that leave the trees alone, and move w from "waiting" at most.
LEMMA OtherTree ==
  ASSUME NEW w, OneWriter(w), TreeInv(w), TypeOK', UNCHANGED <<row, caches, batch>>,
         Acked' = Acked,
         \/ UNCHANGED pc
         \/ TakeLock(w)
         \/ \E p \in Procs : OpenPage(p)
  PROVE  TreeInv(w)'
<1>1. Current' = Current /\ row' = row /\ mem' = mem /\ local' = local /\ seen' = seen
      /\ batch' = batch
  BY DEF Current, caches
<1>2. w \in Procs /\ w \notin Readers
  BY TreeAssumption DEF OneWriter, Procs
<1>3. pc'[w] = pc[w] \/ (pc[w] = "waiting" /\ pc'[w] = "loading")
  <2>1. TakeLock(w) => pc[w] = "waiting" /\ pc'[w] = "loading"
    BY <1>2 DEF TakeLock, Goto, TreeInv, TypeOK
  <2>2. ASSUME NEW p \in Procs, OpenPage(p) PROVE pc'[w] = pc[w]
    BY <1>2, <2>2 DEF OpenPage, Goto, TreeInv, TypeOK
  <2>. QED
    BY <2>1, <2>2
<1>4. \A q \in Procs : pc[q] \in Loads => pc'[q] \in Loads
  BY DEF TakeLock, OpenPage, Goto, Loads, TreeInv, TypeOK
<1>5. \A q \in Procs : LoadInv(q)'
  BY <1>1, <1>4 DEF TreeInv, LoadInv
<1>6. WriterInv(w)'
  BY <1>1, <1>3 DEF TreeInv, WriterInv, QuietInv
<1>. QED
  BY <1>1, <1>5, <1>6 DEF TreeInv

LEMMA NextTree ==
  ASSUME NEW w, OneWriter(w), TreeInv(w), [Next]_vars
  PROVE  TreeInv(w)'
<1>1. TypeOK'
  BY NextTypeOK DEF TreeInv
<1>2. ASSUME NEW c \in Comments, Post(c) PROVE TreeInv(w)'
  <2>1. Acked' = Acked
    BY <1>2, AckedIs DEF Post
  <2>. QED
    BY <1>1, <1>2, <2>1, OtherTree DEF Post
<1>3. ASSUME NEW p \in Procs, Load(p) PROVE TreeInv(w)'
  BY <1>1, <1>3, LoadCachedTree, ReadRowTree, FillTree DEF Load
<1>4. ASSUME NEW p \in Procs, OpenPage(p) PROVE TreeInv(w)'
  BY <1>1, <1>4, OtherTree DEF OpenPage, Acked, queue
<1>5. ASSUME GetBatch(w) PROVE TreeInv(w)'
  BY <1>1, <1>5, GetBatchTree
<1>6. ASSUME TakeLock(w) PROVE TreeInv(w)'
  BY <1>1, <1>6, OtherTree DEF TakeLock, Acked, queue
<1>7. ASSUME Add(w), ~TakeLock(w) PROVE TreeInv(w)'
  BY <1>1, <1>7, AddNothingTree, WriteRowTree, WriteCachesTree, AckTree DEF Add
<1>8. ASSUME TimeOut(w) PROVE TreeInv(w)'
  BY <1>1, <1>8, GiveBackTree DEF TimeOut
<1>9. ASSUME Raise(w) \/ Kill(w) PROVE TreeInv(w)'
  BY <1>1, <1>9, GiveBackTree DEF Raise, Kill, Dies, OneWriter
<1>10. ASSUME Evict PROVE TreeInv(w)'
  BY <1>1, <1>10, EvictTree
<1>11. ASSUME LockExpires \/ UNCHANGED vars PROVE TreeInv(w)'
  BY <1>1, <1>11, OtherTree DEF LockExpires, vars, Acked, queue, caches
<1>. QED
  BY <1>2, <1>3, <1>4, <1>5, <1>6, <1>7, <1>8, <1>9, <1>10, <1>11 DEF Next, OneWriter

\* "adding comments requires read-modify-write": with one consumer, whatever
\* pages are shown, comments answer which, and whenever it dies, the comments it
\* acknowledged are in the tree and stay there, unless memcached loses the tree
\* or a page fills it at the wrong moment.
THEOREM NothingLost ==
  ASSUME NEW w, Consumers = {w}, "late" \notin Faults, "stranded" \notin Faults
  PROVE  Spec => []AckedAreListed
<1>1. OneWriter(w)
  BY DEF OneWriter
<1>2. TreeInv(w) => AckedAreListed
  BY DEF TreeInv, AckedAreListed, Listed
<1>3. Init => TreeInv(w)
  BY <1>1, InitTree
<1>4. TreeInv(w) /\ [Next]_vars => TreeInv(w)'
  BY <1>1, NextTree
<1>. QED
  BY <1>2, <1>3, <1>4, PTL DEF Spec

-----------------------------------------------------------------------------
\* What pages show once the queue is empty.

\* The comments a batch asks for, see Work.
WorkOf(b) == b \cup ({Parent[c] : c \in b \cap Responses} \ {0})

\* A tree is the row, or adding the comments b would still change it.
Short(t, b) == t = row \/ ~ WorkOf(b) \subseteq Listed(t)

\* Memcached is behind the row only while there are comments to come that it
\* does not list: those w wrote before it died, in the queue or in hand again.
\* While w is between its two writes, this is so of every copy on its way.
PageInv(w) ==
    /\ pc[w] # "caching" => Short(Current, ready \cup batch[w])
    /\ pc[w] = "caching" => /\ WorkOf(batch[w]) \subseteq Listed(row)
                            /\ Short(Current, batch[w])
                            /\ \A q \in Procs : seen[q] # Missing => Short(seen[q], batch[w])
    /\ pc[w] = "acking" => WorkOf(batch[w]) \subseteq Listed(Current)

LEMMA WorkIs == \A w : Work(w) = WorkOf(batch[w])
  BY DEF Work, WorkOf

\* What two batches ask for together is what each of them does.
LEMMA WorkOfUnion ==
  ASSUME NEW a, NEW b, NEW t, WorkOf(a) \subseteq t, WorkOf(b) \subseteq t
  PROVE  WorkOf(a \cup b) \subseteq t
  BY DEF WorkOf

LEMMA WorkOfMore ==
  ASSUME NEW a, NEW b, a \subseteq b
  PROVE  WorkOf(a) \subseteq WorkOf(b)
  BY DEF WorkOf

\* A batch of posted comments asks for comments.
LEMMA WorkInComments ==
  ASSUME NEW b, b \subseteq Comments
  PROVE  WorkOf(b) \subseteq Comments
<1>1. \A c \in b : Parent[c] \in 0 .. N
  BY TreeAssumption
<1>2. 0 .. N \ {0} = Comments
  BY TreeAssumption DEF Comments
<1>3. {Parent[c] : c \in b \cap Responses} \subseteq 0 .. N
  BY <1>1
<1>. QED
  BY <1>2, <1>3 DEF WorkOf

LEMMA InitPage ==
  ASSUME NEW w, OneWriter(w), Init
  PROVE  PageInv(w)
  BY DEF Init, PageInv, Short, Current, OneWriter, Procs

\* Steps that leave the trees alone and let comments in the queue only grow.
LEMMA SamePage ==
  ASSUME NEW w, PageInv(w), row' = row, Current' = Current,
         ready \cup batch[w] \subseteq ready' \cup batch'[w],
         \A q \in Procs : seen'[q] \in {seen[q], Missing, row},
         pc'[w] \in {"caching", "acking"} => pc'[w] = pc[w] /\ batch'[w] = batch[w],
         pc[w] = "caching" => pc'[w] = "caching"
  PROVE  PageInv(w)'
<1>1. WorkOf(ready \cup batch[w]) \subseteq WorkOf(ready' \cup batch'[w])
  BY WorkOfMore
<1>2. WorkOf(batch'[w]) = WorkOf(batch[w]) \/ pc'[w] \notin {"caching", "acking"}
  OBVIOUS
<1>3. pc'[w] # "caching" => Short(Current, ready \cup batch[w])'
  BY <1>1 DEF PageInv, Short, Listed, WorkOf
<1>4. pc'[w] = "caching" => \A q \in Procs : seen'[q] # Missing => Short(seen[q], batch[w])'
  BY <1>2 DEF PageInv, Short, Listed, WorkOf
<1>. QED
  BY <1>2, <1>3, <1>4 DEF PageInv, Short, Listed, WorkOf

LEMMA FillPage ==
  ASSUME NEW w, OneWriter(w), TreeInv(w), PageInv(w), NEW p \in Procs, Fill(p)
  PROVE  PageInv(w)'
<1>1. /\ row' = row /\ batch' = batch /\ ready' = ready
      /\ seen[p] # Missing /\ seen[p] \in Tree /\ pc[p] \in Loads
      /\ seen' = [seen EXCEPT ![p] = Missing]
      /\ pc' = [pc EXCEPT ![p] = After(p)]
      /\ w \in Procs
  BY DEF Fill, queue, TreeInv, TypeOK, OneWriter, Procs
<1>2. Current' \in {Current, seen[p]}
  BY <1>1 DEF Fill, Current
<1>3. pc[w] # "caching" => Current' = Current
  BY <1>1, <1>2 DEF TreeInv, WriterInv, QuietInv
<1>4. pc'[w] \in {"caching", "acking"} => pc'[w] = pc[w]
  BY <1>1 DEF After, Loads, TreeInv, WriterInv, TypeOK
<1>5. pc[w] = "caching" => pc'[w] = "caching"
  BY <1>1 DEF Loads, TreeInv, TypeOK
<1>6. \A q \in Procs : seen'[q] # Missing => seen'[q] = seen[q]
  BY <1>1 DEF TreeInv, TypeOK
<1>7. pc[w] = "caching" => Short(Current, batch[w])' /\ \A q \in Procs : seen'[q] # Missing => Short(seen[q], batch[w])'
  BY <1>1, <1>2, <1>6 DEF PageInv, Short, Listed, WorkOf
<1>8. WorkOf(batch[w])' = WorkOf(batch[w]) /\ WorkOf(ready \cup batch[w])' = WorkOf(ready \cup batch[w])
      /\ Listed(row)' = Listed(row)
      /\ (pc[w] # "caching" => Listed(Current)' = Listed(Current))
  BY <1>1, <1>3 DEF WorkOf, Listed
<1>. QED
  BY <1>1, <1>3, <1>4, <1>5, <1>6, <1>7, <1>8 DEF PageInv, Short

LEMMA WriteRowPage ==
  ASSUME NEW w, OneWriter(w), TreeInv(w), WriteRow(w)
  PROVE  PageInv(w)'
<1>1. /\ mem' = mem /\ seen' = seen /\ batch' = batch /\ w \in Procs /\ w \in Consumers
      /\ pc[w] = "adding" /\ pc'[w] = "caching"
  BY DEF WriteRow, Goto, queue, OneWriter, Procs, TreeInv, TypeOK
<1>2. Loaded(w) \in Tree /\ Listed(Current) \subseteq Listed(Loaded(w))
      /\ \A q \in Procs : seen[q] # Missing => Listed(seen[q]) \subseteq Listed(Loaded(w))
  <2>1. Loaded(w) \in Tree
    BY <1>1, EmptyIsTree DEF Loaded, TreeInv, TypeOK
  <2>2. CASE local[w] # Missing
    BY <1>1, <2>2, TreeIsNotMissing DEF Loaded, TreeInv, WriterInv, QuietInv
  <2>3. CASE local[w] = Missing
    <3>1. Loaded(w) = Empty /\ row = Empty
      BY <1>1, <2>3 DEF Loaded, TreeInv, WriterInv
    <3>. QED
      BY <1>1, <2>1, <3>1 DEF TreeInv, LoadInv
  <2>. QED
    BY <2>1, <2>2, <2>3
<1>3. WorkOf(batch[w]) \subseteq Comments
  BY <1>1, WorkInComments DEF TreeInv, TypeOK
<1>4. ~ WorkOf(batch[w]) \subseteq Listed(Loaded(w))
  BY <1>2, WorkIs DEF WriteRow, New, Listed, Tree
<1>5. WorkOf(batch[w]) \subseteq Listed(row)'
  BY <1>2, <1>3, WorkIs DEF WriteRow, New, Listed, Tree
<1>6. Current' \in {Current, row'}
  BY <1>1 DEF Current
<1>7. WorkOf(batch[w])' = WorkOf(batch[w])
  BY <1>1 DEF WorkOf
<1>8. \A t : ~ WorkOf(batch[w]) \subseteq Listed(t) => Short(t, batch[w])'
  BY <1>7 DEF Short, Listed
<1>9. Short(Current, batch[w])'
  BY <1>2, <1>4, <1>6, <1>7 DEF Short, Listed
<1>10. \A q \in Procs : seen'[q] # Missing => Short(seen[q], batch[w])'
  BY <1>1, <1>2, <1>4, <1>7 DEF Short, Listed
<1>. QED
  BY <1>1, <1>5, <1>7, <1>9, <1>10 DEF PageInv

LEMMA WriteCachesPage ==
  ASSUME NEW w, OneWriter(w), TreeInv(w), PageInv(w), WriteCaches(w)
  PROVE  PageInv(w)'
<1>1. /\ row' = row /\ batch' = batch /\ w \in Procs
      /\ pc[w] = "caching" /\ pc'[w] = "acking"
      /\ Current' = row
  BY TreeIsNotMissing
  DEF WriteCaches, Goto, queue, OneWriter, Procs, TreeInv, WriterInv, TypeOK, Current
<1>. QED
  BY <1>1 DEF PageInv, Short, WorkOf, Listed

LEMMA AddNothingPage ==
  ASSUME NEW w, OneWriter(w), TreeInv(w), PageInv(w), AddNothing(w)
  PROVE  PageInv(w)'
<1>1. /\ row' = row /\ Current' = Current /\ batch' = batch /\ ready' = ready
      /\ w \in Procs /\ w \in Consumers /\ pc[w] = "adding" /\ pc'[w] = "acking"
  BY DEF AddNothing, Goto, queue, caches, Current, OneWriter, Procs, TreeInv, TypeOK
<1>2. Loaded(w) \in Tree /\ Loaded(w) \in {Current, Empty}
  BY <1>1, EmptyIsTree DEF Loaded, TreeInv, WriterInv, TypeOK
<1>3. WorkOf(batch[w]) \subseteq Comments
  BY <1>1, WorkInComments DEF TreeInv, TypeOK
<1>4. WorkOf(batch[w]) \subseteq Listed(Loaded(w))
  BY <1>2, <1>3, WorkIs DEF AddNothing, New, Listed, Tree
<1>5. Listed(Empty) = {}
  BY DEF Listed, Empty
<1>6. WorkOf(batch[w]) \subseteq Listed(Current)
  BY <1>2, <1>4, <1>5
<1>. QED
  BY <1>1, <1>6 DEF PageInv, Short, WorkOf, Listed

\* What is acknowledged is in the tree that pages show, so if that tree is
\* behind the row, what it lacks is still in the queue.
LEMMA AckPage ==
  ASSUME NEW w, OneWriter(w), TreeInv(w), PageInv(w), Ack(w)
  PROVE  PageInv(w)'
<1>1. /\ row' = row /\ Current' = Current /\ ready' = ready /\ batch'[w] = {}
      /\ w \in Procs /\ pc[w] = "acking" /\ pc'[w] = "idle"
  BY DEF Ack, Goto, caches, Current, OneWriter, Procs, TreeInv, TypeOK
<1>2. WorkOf(ready) \subseteq Listed(Current) => WorkOf(ready \cup batch[w]) \subseteq Listed(Current)
  BY <1>1, WorkOfUnion DEF PageInv
<1>3. Short(Current, ready)
  BY <1>1, <1>2 DEF PageInv, Short
<1>4. ready' \cup batch'[w] = ready
  BY <1>1
<1>. QED
  BY <1>1, <1>3, <1>4 DEF PageInv, Short, WorkOf, Listed

LEMMA GiveBackPage ==
  ASSUME NEW w, OneWriter(w), TreeInv(w), PageInv(w), GiveBack(w)
  PROVE  PageInv(w)'
<1>1. /\ row' = row /\ Current' = Current /\ ready' = ready \cup batch[w] /\ batch'[w] = {}
      /\ w \in Procs /\ pc'[w] = "idle"
  BY DEF GiveBack, Current, OneWriter, Procs, TreeInv, TypeOK
<1>2. Short(Current, ready \cup batch[w])
  <2>1. WorkOf(batch[w]) \subseteq WorkOf(ready \cup batch[w])
    BY WorkOfMore
  <2>. QED
    BY <2>1 DEF PageInv, Short
<1>3. ready' \cup batch'[w] = ready \cup batch[w]
  BY <1>1
<1>. QED
  BY <1>1, <1>2, <1>3 DEF PageInv, Short, WorkOf, Listed

LEMMA EvictPage ==
  ASSUME NEW w, OneWriter(w), PageInv(w), Evict
  PROVE  PageInv(w)'
<1>1. /\ row' = row /\ Current' = row /\ seen' = seen /\ batch' = batch /\ ready' = ready
      /\ pc' = pc
      /\ mem = row \/ pc[w] = "caching"
  BY DEF Evict, queue, Current, OneWriter
<1>2. mem = row => Current = row
  BY DEF Current
<1>. QED
  BY <1>1, <1>2 DEF PageInv, Short, WorkOf, Listed

LEMMA NextPage ==
  ASSUME NEW w, OneWriter(w), TreeInv(w), PageInv(w), [Next]_vars
  PROVE  PageInv(w)'
<1>1. w \in Procs /\ w \in Consumers /\ w \notin Readers /\ Procs = {w} \cup Readers
  BY TreeAssumption DEF OneWriter, Procs
<1>2. ASSUME NEW c \in Comments, Post(c) PROVE PageInv(w)'
  BY <1>2, SamePage DEF Post, caches, Current
<1>3. ASSUME NEW p \in Procs, LoadCached(p) PROVE PageInv(w)'
  <2>1. /\ pc'[w] \in {"caching", "acking"} => pc'[w] = pc[w]
        /\ pc[w] = "caching" => pc'[w] = "caching"
    BY <1>1, <1>3 DEF LoadCached, After, Loads, TreeInv, TypeOK
  <2>. QED
    BY <1>3, <2>1, SamePage DEF LoadCached, queue, Current
<1>4. ASSUME NEW p \in Procs, ReadRow(p) PROVE PageInv(w)'
  <2>1. \A q \in Procs : seen'[q] \in {seen[q], Missing, row}
    BY <1>4 DEF ReadRow, TreeInv, TypeOK
  <2>. QED
    BY <1>4, <2>1, SamePage DEF ReadRow, queue, Current
<1>5. ASSUME NEW p \in Procs, Fill(p) PROVE PageInv(w)'
  BY <1>5, FillPage
<1>6. ASSUME NEW p \in Procs, OpenPage(p) PROVE PageInv(w)'
  <2>1. pc'[w] = pc[w]
    BY <1>1, <1>6 DEF OpenPage, Goto, TreeInv, TypeOK
  <2>. QED
    BY <1>6, <2>1, SamePage DEF OpenPage, queue, caches, Current
<1>7. ASSUME GetBatch(w) PROVE PageInv(w)'
  <2>1. pc[w] = "idle" /\ pc'[w] = "scoring" /\ batch[w] = {}
    BY <1>1, <1>7 DEF GetBatch, Goto, TreeInv, WriterInv, TypeOK
  <2>2. ready \cup batch[w] \subseteq ready' \cup batch'[w]
    BY <1>1, <1>7, <2>1 DEF GetBatch, TreeInv, TypeOK
  <2>. QED
    BY <1>7, <2>1, <2>2, SamePage DEF GetBatch, Current
<1>8. ASSUME TakeLock(w) PROVE PageInv(w)'
  <2>1. pc[w] = "waiting" /\ pc'[w] = "loading"
    BY <1>1, <1>8 DEF TakeLock, Goto, TreeInv, TypeOK
  <2>. QED
    BY <1>8, <2>1, SamePage DEF TakeLock, queue, caches, Current
<1>9. ASSUME Add(w), ~TakeLock(w) PROVE PageInv(w)'
  BY <1>9, AddNothingPage, WriteRowPage, WriteCachesPage, AckPage DEF Add
<1>10. ASSUME TimeOut(w) \/ Raise(w) \/ Kill(w) PROVE PageInv(w)'
  BY <1>10, GiveBackPage DEF TimeOut, Raise, Kill, Dies
<1>11. ASSUME Evict PROVE PageInv(w)'
  BY <1>11, EvictPage
<1>12. ASSUME LockExpires \/ UNCHANGED vars PROVE PageInv(w)'
  BY <1>12, SamePage DEF LockExpires, vars, queue, caches, Current
<1>. QED
  BY <1>2, <1>3, <1>4, <1>5, <1>6, <1>7, <1>8, <1>9, <1>10, <1>11, <1>12
  DEF Next, Load, OneWriter

\* Pages catch up: with one consumer, once no comment is on its way memcached
\* has the row or nothing, although the consumer may have died between its
\* writes of the two, memcached may have dropped the tree, and pages have filled
\* it with what they read; what it died with comes again and is written to both.
THEOREM PagesCatchUp ==
  ASSUME NEW w, Consumers = {w}, "late" \notin Faults, "stranded" \notin Faults
  PROVE  Spec => []PagesAreCurrent
<1>1. OneWriter(w)
  BY DEF OneWriter
<1>2. TreeInv(w) /\ PageInv(w) => PagesAreCurrent
  <2> SUFFICES ASSUME TreeInv(w), PageInv(w), ready = {}, \A p \in Consumers : batch[p] = {}
               PROVE  mem \in {Missing, row}
    BY DEF PagesAreCurrent
  <2>1. WorkOf(ready \cup batch[w]) = {} /\ WorkOf(batch[w]) = {}
    BY <1>1 DEF WorkOf, OneWriter
  <2>. QED
    BY <2>1 DEF PageInv, Short, Current
<1>3. Init => TreeInv(w) /\ PageInv(w)
  BY <1>1, InitTree, InitPage
<1>4. (TreeInv(w) /\ PageInv(w)) /\ [Next]_vars => (TreeInv(w) /\ PageInv(w))'
  BY <1>1, NextTree, NextPage
<1>. QED
  BY <1>2, <1>3, <1>4, PTL DEF Spec
=============================================================================
