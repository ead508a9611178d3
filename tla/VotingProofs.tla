----------------------------- MODULE VotingProofs -----------------------------
(* For any number of voters, votes and consumers: the state is well typed; the *)
(* counters are the recorded votes; with one consumer the last vote of an      *)
(* account is the one on record; no listing shows a vote that is not on        *)
(* record, while no consumer has died; the author's listing follows the thing's *)
(* counters; and the author's karma is what the votes have given.              *)
EXTENDS Voting, FiniteSetTheorems, SequenceTheorems, WellFoundedInduction, TLAPS

\* A consumer at work has a message, and only the queue's own consumers have any.
BusyInv == \A c \in Consumers :
    /\ pc[c] # "waiting" => held[c] # <<>>
    /\ held[c] # <<>> => c \in queue.staff

BaseInv == TypeOK /\ BusyInv

\* A queue and a message have their parts.
LEMMA Parts ==
    /\ \A q \in Queues : q.staff \subseteq Consumers /\ q.kind \in {"link", "comment"}
    /\ \A m \in Message : m.voter \in Voters /\ m.dir \in Directions
    /\ \A v \in Vote : v.dir \in Directions /\ v.score \in BOOLEAN /\ v.karma \in BOOLEAN
BY VotingAssumption DEF Queue, Message, Vote

\* The message in hand is one of the log's.
LEMMA InHand ==
    ASSUME TypeOK, NEW c \in Consumers, held[c] # <<>>
    PROVE  /\ Head(held[c]) \in 1 .. Len(log) /\ Head(held[c]) = held[c][1]
           /\ 1 \in 1 .. Len(held[c])
           /\ log[Head(held[c])] \in Message
           /\ VoterOf(c) \in Voters /\ VoterOf(c) = log[held[c][1]].voter
           /\ Tail(held[c]) \in Seq(1 .. Len(log))
<1>1. held[c] \in Seq(1 .. Len(log)) /\ log \in Seq(Message)
  BY DEF TypeOK
<1>2. /\ Head(held[c]) \in 1 .. Len(log) /\ Head(held[c]) = held[c][1]
      /\ 1 \in 1 .. Len(held[c])
  BY <1>1
<1>4. Tail(held[c]) \in Seq(1 .. Len(log))
  BY <1>1, HeadTailProperties
<1>3. log[Head(held[c])] \in Message
  BY <1>1, <1>2
<1> QED BY <1>2, <1>3, <1>4, Parts DEF VoterOf

\* RabbitMQ's oldest message.
LEMMA ReadyMin ==
    ASSUME NEW S \in SUBSET Nat, S # {}
    PROVE  Min(S) \in S /\ \A n \in S : Min(S) <= n
<1> DEFINE R == OpToRel(<, Nat)
<1>1. PICK m \in S : \A n \in S : <<n, m>> \notin R
  BY NatLessThanWellFounded, WFMin, Zenon
<1>2. \A n \in S : ~(n < m)
  BY <1>1 DEF OpToRel
<1>3. m \in S /\ \A n \in S : m <= n
  BY <1>2
<1> QED BY <1>3 DEF Min

\* A step that no message moves in keeps what is in hand.
LEMMA BaseKept ==
    ASSUME BaseInv, UNCHANGED <<queue, held>>,
           \A c \in Consumers : pc'[c] # "waiting" => pc[c] # "waiting" \/ held[c] # <<>>
    PROVE  BusyInv'
BY DEF BaseInv, BusyInv

\* Every step keeps the state well typed.
LEMMA BaseInductive == BaseInv /\ [Next]_vars => BaseInv'
<1> SUFFICES ASSUME BaseInv, [Next]_vars PROVE BaseInv'
  OBVIOUS
<1>0. TypeOK /\ BusyInv
  BY DEF BaseInv
<1>1. ASSUME NEW c \in Consumers, Start(c) PROVE BaseInv'
  <2>1. held[c] # <<>> \/ c \in unsent
    BY <1>0, <1>1 DEF Start, Goto, BusyInv
  <2>2. TypeOK'
    BY <1>0, <1>1, <2>1, InHand DEF Start, Goto, TypeOK, delivery, work, records, listings
  <2>3. BusyInv'
    BY <1>1, <2>1, BaseKept DEF Start, Goto, TypeOK, BaseInv, delivery, work, records, listings
  <2> QED BY <2>2, <2>3 DEF BaseInv
<1>2. ASSUME NEW c \in Consumers, Undo(c) PROVE BaseInv'
  <2>1. held[c] # <<>> \/ c \in unsent
    BY <1>0, <1>2 DEF Undo, Goto, BusyInv
  <2>2. TypeOK'
    BY <1>0, <1>2, <2>1, InHand DEF Undo, Goto, TypeOK, Counts, delivery, work, records, listings
  <2>3. BusyInv'
    BY <1>2, <2>1, BaseKept DEF Undo, Goto, TypeOK, BaseInv, delivery, work, records, listings
  <2> QED BY <2>2, <2>3 DEF BaseInv
<1>3. ASSUME NEW c \in Consumers, Add(c) PROVE BaseInv'
  <2>1. held[c] # <<>> \/ c \in unsent
    BY <1>0, <1>3 DEF Add, Goto, BusyInv
  <2>2. TypeOK'
    BY <1>0, <1>3, <2>1, InHand DEF Add, Goto, TypeOK, Counts, delivery, work, records, listings
  <2>3. BusyInv'
    BY <1>3, <2>1, BaseKept DEF Add, Goto, TypeOK, BaseInv, delivery, work, records, listings
  <2> QED BY <2>2, <2>3 DEF BaseInv
<1>4. ASSUME NEW c \in Consumers, FindNoKarma(c) PROVE BaseInv'
  <2>1. held[c] # <<>> \/ c \in unsent
    BY <1>0, <1>4 DEF FindNoKarma, Goto, BusyInv
  <2>2. TypeOK'
    BY <1>0, <1>4, <2>1, InHand DEF FindNoKarma, Goto, TypeOK, delivery, work, records, listings
  <2>3. BusyInv'
    BY <1>4, <2>1, BaseKept DEF FindNoKarma, Goto, TypeOK, BaseInv, delivery, work, records, listings
  <2> QED BY <2>2, <2>3 DEF BaseInv
<1>5. ASSUME NEW c \in Consumers, WriteRelation(c) PROVE BaseInv'
  <2>1. held[c] # <<>> \/ c \in unsent
    BY <1>0, <1>5 DEF WriteRelation, Goto, BusyInv
  <2>2. TypeOK'
    <3>1. vote[c].dir \in Directions /\ VoterOf(c) \in Voters
      BY <1>0, <1>5, InHand, Parts DEF WriteRelation, Goto, TypeOK, BusyInv
    <3> QED BY <1>0, <1>5, <3>1 DEF WriteRelation, Goto, TypeOK, delivery, work, listings
  <2>3. BusyInv'
    BY <1>5, <2>1, BaseKept DEF WriteRelation, Goto, TypeOK, BaseInv, delivery, work, records, listings
  <2> QED BY <2>2, <2>3 DEF BaseInv
<1>6. ASSUME NEW c \in Consumers, WriteDetails(c) PROVE BaseInv'
  <2>1. held[c] # <<>> \/ c \in unsent
    BY <1>0, <1>6 DEF WriteDetails, Goto, BusyInv
  <2>2. TypeOK'
    BY <1>0, <1>6, <2>1, InHand DEF WriteDetails, Goto, TypeOK, delivery, work, records, listings
  <2>3. BusyInv'
    BY <1>6, <2>1, BaseKept DEF WriteDetails, Goto, TypeOK, BaseInv, delivery, work, records, listings
  <2> QED BY <2>2, <2>3 DEF BaseInv
<1>7. ASSUME NEW c \in Consumers, UpdateLiked(c) PROVE BaseInv'
  <2>1. held[c] # <<>> \/ c \in unsent
    BY <1>0, <1>7 DEF UpdateLiked, Goto, BusyInv
  <2>2. TypeOK'
    <3>1. VoterOf(c) \in Voters
      BY <1>0, <1>7, InHand DEF UpdateLiked, Goto, TypeOK, BusyInv
    <3>2. listed' \in [{"up", "down"} -> SUBSET Voters]
      <4>1. \A d \in {"up", "down"} : ListingAfter(c, d) \subseteq Voters
        BY <1>0, <3>1 DEF ListingAfter, TypeOK
      <4> QED BY <1>0, <1>7, <4>1 DEF UpdateLiked, TypeOK
    <3>3. lock' \in [Voters -> Consumers \cup {None, Orphan}]
      BY <1>0, <1>7 DEF UpdateLiked, Unlock, TypeOK
    <3> QED BY <1>0, <1>7, <3>2, <3>3 DEF UpdateLiked, Goto, TypeOK, delivery, records, listings
  <2>3. BusyInv'
    BY <1>7, <2>1, BaseKept DEF UpdateLiked, Goto, TypeOK, BaseInv, delivery, work, records, listings
  <2> QED BY <2>2, <2>3 DEF BaseInv
<1>8. ASSUME NEW c \in Consumers, QueueUpdate(c) PROVE BaseInv'
  <2>1. held[c] # <<>> \/ c \in unsent
    BY <1>0, <1>8 DEF QueueUpdate, UpdateListing, Goto, BusyInv
  <2>2. TypeOK'
    BY <1>0, <1>8, <2>1, InHand DEF QueueUpdate, UpdateListing, Goto, TypeOK, delivery, work, records, listings
  <2>3. BusyInv'
    BY <1>8, <2>1, BaseKept DEF QueueUpdate, UpdateListing, Goto, TypeOK, BaseInv, delivery, work, records, listings
  <2> QED BY <2>2, <2>3 DEF BaseInv
<1>9. ASSUME NEW c \in Consumers, Publish(c) PROVE BaseInv'
  <2>1. held[c] # <<>> \/ c \in unsent
    BY <1>0, <1>9 DEF Publish, Goto, BusyInv
  <2>2. TypeOK'
    BY <1>0, <1>9, <2>1, InHand DEF Publish, Goto, TypeOK, delivery, work, records, listings
  <2>3. BusyInv'
    BY <1>9, <2>1, BaseKept DEF Publish, Goto, TypeOK, BaseInv, delivery, work, records, listings
  <2> QED BY <2>2, <2>3 DEF BaseInv
<1>10. ASSUME NEW c \in Consumers, Make(c) PROVE BaseInv'
  <2>1. held[c] # <<>> /\ VoterOf(c) \in Voters /\ log[Head(held[c])].dir \in Directions
    BY <1>0, <1>10, InHand, Parts DEF Make, Goto, BusyInv
  <2> DEFINE u == VoterOf(c)
  <2>2. details[u] \in Vote \cup {None}
    BY <1>0, <2>1 DEF TypeOK
  <2>3. AffectsScore(u, details[u]) \in BOOLEAN /\ AffectsKarma(u, details[u]) \in BOOLEAN
    BY <2>2, Parts DEF AffectsScore, AffectsKarma
  <2>4. [dir |-> log[Head(held[c])].dir, score |-> AffectsScore(u, details[u]),
         karma |-> AffectsKarma(u, details[u])] \in Vote
    BY <2>1, <2>3 DEF Vote
  <2>5. prev' \in [Consumers -> Vote \cup {None}] /\ vote' \in [Consumers -> Vote]
    BY <1>0, <1>10, <2>2, <2>4 DEF Make, TypeOK
  <2>6. TypeOK'
    BY <1>0, <1>10, <2>5 DEF Make, Goto, TypeOK, delivery, records, listings
  <2>7. BusyInv'
    BY <1>10, <2>1, BaseKept DEF Make, Goto, TypeOK, BaseInv, delivery
  <2> QED BY <2>6, <2>7 DEF BaseInv
<1>11. ASSUME NEW c \in Consumers, Reward(c) \/ SetKarma(c) PROVE BaseInv'
  <2>1. held[c] # <<>> /\ VoterOf(c) \in Voters
    BY <1>0, <1>11, InHand DEF Reward, SetKarma, Goto, BusyInv
  <2>2. KarmaChange(c) \in Int /\ DefaultKarma \in Int
    <3>1. \A v \in Vote \cup {None} : KarmaOf(v) \in Int
      BY DEF KarmaOf
    <3>2. vote[c] \in Vote /\ prev[c] \in Vote \cup {None}
      BY <1>0 DEF TypeOK
    <3> QED BY <3>1, <3>2, VotingAssumption DEF KarmaChange
  <2>3. karma' \in Int \cup {None} /\ given' \in [Voters -> Int]
    BY <1>0, <1>11, <2>1, <2>2 DEF Reward, SetKarma, TypeOK
  <2>4. TypeOK'
    BY <1>0, <1>11, <2>3 DEF Reward, SetKarma, Goto, TypeOK, delivery, records, listings
  <2>5. BusyInv'
    BY <1>11, <2>1, BaseKept DEF Reward, SetKarma, Goto, TypeOK, BaseInv, delivery
  <2> QED BY <2>4, <2>5 DEF BaseInv
<1>12. ASSUME NEW c \in Consumers, Ack(c) PROVE BaseInv'
  <2>1. held[c] # <<>> /\ Tail(held[c]) \in Seq(1 .. Len(log))
    BY <1>0, <1>12, InHand DEF Ack, Goto, BusyInv
  <2>2. Blank \in Vote
    BY DEF Blank, Vote, Directions
  <2>3. held' \in [Consumers -> Seq(1 .. Len(log))]
    BY <1>0, <1>12, <2>1 DEF Ack, TypeOK
  <2>4. TypeOK'
    BY <1>0, <1>12, <2>2, <2>3 DEF Ack, Forget, Goto, TypeOK, records, listings
  <2>5. BusyInv'
    BY <1>0, <1>12, <2>1 DEF Ack, Goto, TypeOK, BusyInv
  <2> QED BY <2>4, <2>5 DEF BaseInv
<1>13. ASSUME NEW c \in Consumers, Requeue(c),
              TimeOut(c) \/ Raise(c) \/ Kill(c)
       PROVE  BaseInv'
  <2>1. Indices(c) \subseteq 1 .. Len(log)
    <3>1. held[c] \in Seq(1 .. Len(log))
      BY <1>0 DEF TypeOK
    <3> QED BY <3>1 DEF Indices
  <2>2. Blank \in Vote
    BY DEF Blank, Vote, Directions
  <2>3. /\ ready' \subseteq 1 .. Len(log') /\ held' \in [Consumers -> Seq(1 .. Len(log'))]
        /\ log' \in Seq(Message) /\ queue' \in Queues
        /\ pc' \in [Consumers -> {"waiting", "making", "undoing", "adding", "rewarding",
                                 "setting", "recording", "detailing", "listing",
                                 "queueing", "acking"}]
        /\ prev' \in [Consumers -> Vote \cup {None}] /\ vote' \in [Consumers -> Vote]
    <3>1. <<>> \in Seq(1 .. Len(log))
      OBVIOUS
    <3> QED BY <1>0, <1>13, <2>1, <2>2, <3>1 DEF Requeue, Forget, TypeOK
  <2>4. BusyInv'
    BY <1>0, <1>13 DEF Requeue, TypeOK, BusyInv
  <2>5. lock' \in [Voters -> Consumers \cup {None, Orphan}]
    BY <1>0, <1>13 DEF TimeOut, Raise, Kill, Unlock, TypeOK
  <2>6. listed' \in [{"up", "down"} -> SUBSET Voters] /\ retries' \in Nat
    <3>1. CASE TimeOut(c)
      BY <1>0, <3>1 DEF TimeOut, TypeOK
    <3>2. CASE Dies(c)
      <4>1. VoterOf(c) \in Voters
        BY <1>0, <3>2, InHand DEF Dies, BusyInv
      <4>2. \A d \in {"up", "down"} : ListingAfter(c, d) \subseteq Voters
        BY <1>0, <4>1 DEF ListingAfter, TypeOK
      <4>3. Half(c) \subseteq [{"up", "down"} -> SUBSET Voters]
        <5>1. \A d \in {"up", "down"} :
                 [listed EXCEPT ![d] = ListingAfter(c, d)] \in [{"up", "down"} -> SUBSET Voters]
          BY <1>0, <4>2 DEF TypeOK
        <5> QED BY <5>1 DEF Half
      <4> QED BY <1>0, <3>2, <4>3 DEF Dies, TypeOK
    <3> QED BY <1>13, <3>1, <3>2 DEF Raise, Kill
  <2>7. UNCHANGED <<count, karma, sticky, records, reading, sorted, skipped, given>>
        /\ unsent' \subseteq unsent /\ updates' \in BOOLEAN
    BY <1>0, <1>13 DEF TimeOut, Raise, Kill, listings, TypeOK
  <2>8. TypeOK'
    BY <1>0, <2>3, <2>5, <2>6, <2>7 DEF TypeOK, records
  <2> QED BY <2>4, <2>8 DEF BaseInv
<1>14. ASSUME NEW c \in Consumers, Deliver(c) PROVE BaseInv'
  <2>1. Min(ready) \in 1 .. Len(log)
    <3>1. ready \in SUBSET Nat /\ ready # {}
      BY <1>0, <1>14 DEF Deliver, TypeOK
    <3>2. Min(ready) \in ready
      BY <3>1, ReadyMin
    <3> QED BY <1>0, <3>2 DEF TypeOK
  <2>2. Append(held[c], Min(ready)) \in Seq(1 .. Len(log))
    <3>1. held[c] \in Seq(1 .. Len(log))
      BY <1>0 DEF TypeOK
    <3> QED BY <2>1, <3>1, AppendProperties
  <2>3. TypeOK'
    BY <1>0, <1>14, <2>2 DEF Deliver, TypeOK, work, records, listings
  <2>4. BusyInv'
    <3>1. Append(held[c], Min(ready)) # <<>>
      <4>1. held[c] \in Seq(1 .. Len(log))
        BY <1>0 DEF TypeOK
      <4> QED BY <2>1, <4>1, AppendProperties
    <3> QED BY <1>0, <1>14, <3>1 DEF Deliver, TypeOK, BusyInv, work
  <2> QED BY <2>3, <2>4 DEF BaseInv
<1>15. ASSUME NEW u \in Voters, NEW d \in Directions, CastVote(u, d) PROVE BaseInv'
  <2>1. /\ log' \in Seq(Message) /\ Len(log') = Len(log) + 1
    <3>1. [voter |-> u, dir |-> d] \in Message
      BY DEF Message
    <3> QED BY <1>0, <1>15, <3>1, AppendProperties DEF CastVote, TypeOK
  <2>2. 1 .. Len(log) \subseteq 1 .. Len(log')
    BY <1>0, <2>1 DEF TypeOK
  <2>3. held' \in [Consumers -> Seq(1 .. Len(log'))]
    <3>1. Seq(1 .. Len(log)) \subseteq Seq(1 .. Len(log'))
      BY <2>2, SeqMonotonic
    <3> QED BY <1>0, <1>15, <3>1 DEF CastVote, TypeOK
  <2>4. ready' \subseteq 1 .. Len(log')
    <3>1. Len(log) + 1 \in 1 .. Len(log')
      BY <1>0, <2>1 DEF TypeOK
    <3>2. ready \subseteq 1 .. Len(log')
      BY <1>0, <2>2 DEF TypeOK
    <3> QED BY <1>15, <3>1, <3>2 DEF CastVote
  <2>5. TypeOK'
    BY <1>0, <1>15, <2>1, <2>3, <2>4 DEF CastVote, TypeOK, work, records, listings
  <2>6. BusyInv'
    BY <1>0, <1>15 DEF CastVote, BusyInv, work
  <2> QED BY <2>5, <2>6 DEF BaseInv
<1>16. CASE (\E u \in Voters : LockExpires(u)) \/ Sticky \/ UpdateQueries \/ UNCHANGED vars
  BY <1>0, <1>16 DEF LockExpires, Sticky, UpdateQueries, ReadUpdate, SortListing, SortingFails, vars, BaseInv, TypeOK, BusyInv,
     delivery, work, records, listings
<1>17. \A c \in Consumers : Raise(c) \/ Kill(c) \/ TimeOut(c) => Requeue(c)
  BY DEF Raise, Kill, TimeOut, Dies
<1> QED
  BY <1>1, <1>2, <1>3, <1>4, <1>5, <1>6, <1>7, <1>8, <1>9, <1>10, <1>11, <1>12, <1>13,
     <1>14, <1>15, <1>16, <1>17 DEF Next, Process

\* It holds at the start, when only the author's own vote is queued.
LEMMA BaseInit == Init => BaseInv
<1> SUFFICES ASSUME Init PROVE BaseInv
  OBVIOUS
<1>1. log \in Seq(Message) /\ Len(log) = 1
  <2>1. [voter |-> Author, dir |-> "up"] \in Message
    BY VotingAssumption DEF Message, Directions
  <2> QED BY <2>1 DEF Init
<1>2. /\ Blank \in Vote
      /\ held \in [Consumers -> Seq(1 .. Len(log))]
  BY <1>1 DEF Init, Blank, Vote, Directions
<1>3. TypeOK
  <2>1. ready \subseteq 1 .. Len(log)
    BY <1>1 DEF Init
  <2>2. /\ count \in Counts /\ sorted \in Counts /\ reading = None /\ skipped = FALSE
        /\ listed \in [{"up", "down"} -> SUBSET Voters]
    BY DEF Init, Counts
  <2>3. /\ prev \in [Consumers -> Vote \cup {None}] /\ vote \in [Consumers -> Vote]
        /\ details \in [Voters -> Vote \cup {None}] /\ rel \in [Voters -> Directions \cup {None}]
        /\ lock \in [Voters -> Consumers \cup {None, Orphan}]
    BY <1>2 DEF Init
  <2>4. /\ pc \in [Consumers -> {"waiting", "making", "undoing", "adding", "rewarding",
                                 "setting", "recording", "detailing", "listing",
                                 "queueing", "acking"}]
        /\ queue \in Queues /\ karma \in Int \cup {None}
    BY DEF Init
  <2>5. sticky \in BOOLEAN /\ updates \in BOOLEAN /\ unsent \subseteq Consumers
    BY Zenon DEF Init
  <2>6. retries \in Nat /\ given \in [Voters -> Int]
    BY DEF Init
  <2> QED BY <1>1, <1>2, <2>1, <2>2, <2>3, <2>4, <2>5, <2>6 DEF TypeOK
<1> QED BY <1>3 DEF Init, BaseInv, BusyInv

\* The state is well typed whatever is voted, delivered again or expires: a
\* message a consumer works on is one that is in the log and that it still holds.
THEOREM TypeCorrect == Spec => []TypeOK
<1>1. BaseInv => TypeOK
  BY DEF BaseInv
<1> QED BY BaseInit, BaseInductive, <1>1, PTL DEF Spec

\* The consumer w has acknowledged the first n messages, and has or will get the
\* others in their order.
OrderInv(w, n) ==
    /\ n + Len(held[w]) <= Len(log)
    /\ \A k \in 1 .. Len(held[w]) : held[w][k] = n + k
    /\ ready = n + Len(held[w]) + 1 .. Len(log)

\* The message after the first n is u's, and it asks for d.
Pending(u, d, n) == n < Len(log) /\ log[n + 1] = [voter |-> u, dir |-> d]

\* The relation's row is written first, so the two records agree or the row is
\* the pending vote's.
AgreeInv(n) == \A u \in Voters :
    details[u] # None => rel[u] = details[u].dir \/ Pending(u, rel[u], n)

\* The last of u's votes among the first n is on record, or the pending one is.
RecordInv(n) == \A i \in 1 .. n :
    LET u == log[i].voter
    IN  (\A j \in i + 1 .. n : log[j].voter # u) =>
            details[u] # None /\ (details[u].dir = log[i].dir \/ Pending(u, details[u].dir, n))

\* What w has written of its message so far.
WrittenInv(w) ==
    LET u == VoterOf(w)
        d == log[Head(held[w])].dir
    IN  /\ pc[w] \notin {"waiting", "making"} => vote[w].dir = d
        /\ pc[w] \in {"detailing", "listing", "queueing", "acking"} => rel[u] = d
        /\ pc[w] \in {"listing", "queueing", "acking"} => details[u] # None /\ details[u].dir = d

AloneInv(w, n) == OrderInv(w, n) /\ AgreeInv(n) /\ RecordInv(n) /\ WrittenInv(w)

SoleInv == \A w \in Consumers : queue.staff = {w} => \E n \in 0 .. Len(log) : AloneInv(w, n)

\* The message w works on is the pending one.
LEMMA PendingIsHeld ==
    ASSUME TypeOK, NEW w \in Consumers, NEW n \in Nat, OrderInv(w, n), held[w] # <<>>
    PROVE  /\ Head(held[w]) = n + 1 /\ n < Len(log)
           /\ VoterOf(w) \in Voters
           /\ Pending(VoterOf(w), log[Head(held[w])].dir, n)
           /\ \A u, d : Pending(u, d, n) => u = VoterOf(w) /\ d = log[Head(held[w])].dir
<1>1. Head(held[w]) = n + 1 /\ log[n + 1] \in Message /\ n + 1 \in 1 .. Len(log)
  BY InHand DEF OrderInv
<1>2. n < Len(log)
  BY <1>1 DEF TypeOK
<1>3. log[n + 1] = [voter |-> log[n + 1].voter, dir |-> log[n + 1].dir]
  BY <1>1 DEF Message
<1> QED BY <1>1, <1>2, <1>3, InHand DEF VoterOf, Pending

\* Only the one consumer has a message, and so is at work.
LEMMA OnlyOneWorks ==
    ASSUME BaseInv, NEW w \in Consumers, queue.staff = {w}, NEW c \in Consumers
    PROVE  held[c] # <<>> \/ pc[c] # "waiting" => c = w
BY DEF BaseInv, BusyInv

\* A step that no record and no message moves in keeps what w has written, if the
\* message it is at is the same.
LEMMA AloneKept ==
    ASSUME NEW w \in Consumers, NEW n \in Nat, AloneInv(w, n),
           UNCHANGED <<delivery, records>>, WrittenInv(w)'
    PROVE  AloneInv(w, n)'
<1>1. OrderInv(w, n)'
  BY DEF AloneInv, OrderInv, delivery
<1>2. AgreeInv(n)'
  BY DEF AloneInv, AgreeInv, Pending, delivery, records
<1>3. RecordInv(n)'
  BY DEF AloneInv, RecordInv, Pending, delivery, records
<1> QED BY <1>1, <1>2, <1>3 DEF AloneInv

\* Every step keeps the order, and what is on record follows it.
LEMMA AloneInductive ==
    ASSUME BaseInv, NEW w \in Consumers, queue.staff = {w}, NEW n \in 0 .. Len(log),
           AloneInv(w, n), [Next]_vars
    PROVE  \E m \in 0 .. Len(log') : AloneInv(w, m)'
<1>0. /\ TypeOK /\ BusyInv /\ n \in Nat /\ Len(log) \in Nat
      /\ OrderInv(w, n) /\ AgreeInv(n) /\ RecordInv(n) /\ WrittenInv(w)
  BY DEF BaseInv, AloneInv, TypeOK
<1> DEFINE v == VoterOf(w)
           d == log[Head(held[w])].dir
<1>1. ASSUME NEW c \in Consumers,
             Start(c) \/ Undo(c) \/ Add(c) \/ Reward(c) \/ FindNoKarma(c) \/ SetKarma(c)
             \/ UpdateLiked(c) \/ QueueUpdate(c)
      PROVE  AloneInv(w, n)'
  <2>1. c = w
    BY <1>1, OnlyOneWorks DEF Start, Undo, Add, Reward, FindNoKarma, SetKarma, UpdateLiked,
       QueueUpdate, UpdateListing, Goto
  <2>2. UNCHANGED <<delivery, records, vote>>
    BY <1>1 DEF Start, Undo, Add, Reward, FindNoKarma, SetKarma, UpdateLiked, QueueUpdate, UpdateListing,
       records
  <2>3. /\ pc'[w] \in {"waiting", "making"} \/ pc[w] \notin {"waiting", "making"}
        /\ pc'[w] \in {"detailing", "listing", "queueing", "acking"} =>
              pc[w] \in {"detailing", "listing", "queueing", "acking"}
        /\ pc'[w] \in {"listing", "queueing", "acking"} =>
              pc[w] \in {"listing", "queueing", "acking"}
    BY <1>0, <1>1, <2>1 DEF Start, Undo, Add, Reward, FindNoKarma, SetKarma, UpdateLiked,
       QueueUpdate, UpdateListing, Goto, TypeOK
  <2>4. WrittenInv(w)'
    BY <1>0, <2>2, <2>3 DEF WrittenInv, VoterOf, delivery, records
  <2> QED BY <1>0, <2>2, <2>4, AloneKept
<1>2. CASE (\E c \in Consumers : Publish(c)) \/ (\E u \in Voters : LockExpires(u))
           \/ Sticky \/ UpdateQueries \/ UNCHANGED vars
  <2>1. UNCHANGED <<delivery, records, pc, vote>>
    BY <1>2 DEF Publish, LockExpires, Sticky, UpdateQueries, ReadUpdate, SortListing, SortingFails, vars, work
  <2>2. WrittenInv(w)'
    BY <1>0, <2>1 DEF WrittenInv, VoterOf, delivery, records
  <2>3. AloneInv(w, n)'
    BY <1>0, <2>1, <2>2, AloneKept
  <2> QED BY <2>1, <2>3 DEF delivery
<1>3. ASSUME NEW c \in Consumers, Make(c) PROVE AloneInv(w, n)'
  <2>1. c = w /\ held[w] # <<>>
    BY <1>0, <1>3, OnlyOneWorks DEF Make, Goto, BusyInv
  <2>2. UNCHANGED <<delivery, records>> /\ vote'[w].dir = d
    BY <1>0, <1>3, <2>1 DEF Make, TypeOK
  <2>3. /\ pc'[w] \in {"listing", "undoing"}
        /\ pc'[w] = "listing" => details[v] # None /\ details[v].dir = d
    BY <1>0, <1>3, <2>1 DEF Make, Goto, TypeOK
  <2>4. pc'[w] = "listing" => rel[v] = d
    BY <1>0, <2>1, <2>3, PendingIsHeld DEF AgreeInv
  <2>5. WrittenInv(w)'
    BY <2>2, <2>3, <2>4 DEF WrittenInv, VoterOf, delivery, records
  <2> QED BY <1>0, <2>2, <2>5, AloneKept
<1>4. ASSUME NEW c \in Consumers, WriteRelation(c) PROVE AloneInv(w, n)'
  <2>1. c = w /\ held[w] # <<>> /\ vote[w].dir = d
    BY <1>0, <1>4, OnlyOneWorks DEF WriteRelation, Goto, BusyInv, WrittenInv
  <2>2. UNCHANGED <<delivery, details, vote>> /\ rel' = [rel EXCEPT ![v] = d]
    BY <1>4, <2>1 DEF WriteRelation
  <2>3. v \in Voters /\ Pending(v, d, n)
    BY <1>0, <2>1, PendingIsHeld
  <2>4. pc'[w] = "detailing" /\ rel'[v] = d
    BY <1>0, <1>4, <2>1, <2>2, <2>3 DEF WriteRelation, Goto, TypeOK
  <2>5. AgreeInv(n)'
    BY <1>0, <2>2, <2>3, <2>4 DEF AgreeInv, Pending, delivery, TypeOK
  <2>6. OrderInv(w, n)' /\ RecordInv(n)'
    BY <1>0, <2>2 DEF OrderInv, RecordInv, Pending, delivery
  <2>7. WrittenInv(w)'
    BY <2>1, <2>2, <2>4 DEF WrittenInv, VoterOf, delivery
  <2> QED BY <2>5, <2>6, <2>7 DEF AloneInv
<1>5. ASSUME NEW c \in Consumers, WriteDetails(c) PROVE AloneInv(w, n)'
  <2>1. c = w /\ held[w] # <<>> /\ vote[w].dir = d /\ rel[v] = d
    BY <1>0, <1>5, OnlyOneWorks DEF WriteDetails, Goto, BusyInv, WrittenInv
  <2>2. UNCHANGED <<delivery, rel, vote>> /\ details' = [details EXCEPT ![v] = vote[w]]
    BY <1>5, <2>1 DEF WriteDetails
  <2>3. v \in Voters /\ Pending(v, d, n)
    BY <1>0, <2>1, PendingIsHeld
  <2>4. pc'[w] = "listing" /\ details'[v] # None /\ details'[v].dir = d
    BY <1>0, <1>5, <2>1, <2>2, <2>3, NoneIsNoVote DEF WriteDetails, Goto, TypeOK
  <2>5. \A u \in Voters : u # v => details'[u] = details[u]
    BY <1>0, <2>2 DEF TypeOK
  <2>6. AgreeInv(n)'
    BY <1>0, <2>1, <2>2, <2>4, <2>5 DEF AgreeInv, Pending, delivery
  <2>7. RecordInv(n)'
    <3> SUFFICES ASSUME NEW i \in 1 .. n, \A j \in i + 1 .. n : log[j].voter # log[i].voter
                 PROVE  /\ details'[log[i].voter] # None
                        /\ \/ details'[log[i].voter].dir = log[i].dir
                           \/ Pending(log[i].voter, details'[log[i].voter].dir, n)
      BY <2>2 DEF RecordInv, Pending, delivery
    <3>1. CASE log[i].voter = v
      BY <2>3, <2>4, <3>1
    <3>2. CASE log[i].voter # v
      <4>1. log[i].voter \in Voters
        <5>1. log \in Seq(Message) /\ i \in 1 .. Len(log)
          BY <1>0 DEF TypeOK
        <5> QED BY <5>1, Parts
      <4> QED BY <1>0, <2>5, <3>2, <4>1 DEF RecordInv
    <3> QED BY <3>1, <3>2
  <2>8. OrderInv(w, n)'
    BY <1>0, <2>2 DEF OrderInv, delivery
  <2>9. WrittenInv(w)'
    BY <2>1, <2>2, <2>4 DEF WrittenInv, VoterOf, delivery
  <2> QED BY <2>6, <2>7, <2>8, <2>9 DEF AloneInv
<1>6. ASSUME NEW c \in Consumers, Ack(c) PROVE n + 1 \in 0 .. Len(log') /\ AloneInv(w, n + 1)'
  <2>1. /\ c = w /\ held[w] # <<>> /\ rel[v] = d
        /\ details[v] # None /\ details[v].dir = d
    BY <1>0, <1>6, OnlyOneWorks DEF Ack, Goto, BusyInv, WrittenInv
  <2>2. /\ UNCHANGED <<queue, log, ready, records>> /\ held'[w] = Tail(held[w])
        /\ pc'[w] = "waiting"
    BY <1>0, <1>6, <2>1 DEF Ack, Goto, TypeOK
  <2>3. /\ v \in Voters /\ Pending(v, d, n) /\ n < Len(log)
        /\ \A u, e : Pending(u, e, n) => u = v
    BY <1>0, <2>1, PendingIsHeld
  <2>4. /\ held[w] \in Seq(1 .. Len(log)) /\ Len(Tail(held[w])) = Len(held[w]) - 1
        /\ \A k \in 1 .. Len(Tail(held[w])) : Tail(held[w])[k] = held[w][k + 1]
        /\ Len(held[w]) \in Nat \ {0}
    <3>1. held[w] \in Seq(1 .. Len(log))
      BY <1>0 DEF TypeOK
    <3> QED BY <2>1, <3>1
  <2>5. OrderInv(w, n + 1)'
    <3>1. n + 1 + Len(held'[w]) = n + Len(held[w])
      <4>1. Len(held'[w]) = Len(held[w]) - 1 /\ Len(held[w]) \in Nat
        BY <2>2, <2>4
      <4>2. \A x, y \in Nat : x + 1 + (y - 1) = x + y
        OBVIOUS
      <4> QED BY <1>0, <4>1, <4>2
    <3>2. ASSUME NEW k \in 1 .. Len(held'[w]) PROVE held'[w][k] = n + 1 + k
      <4>1. k \in Nat /\ k + 1 \in 1 .. Len(held[w]) /\ held'[w][k] = held[w][k + 1]
        BY <2>2, <2>4
      <4>2. held[w][k + 1] = n + (k + 1)
        BY <1>0, <4>1 DEF OrderInv
      <4> QED BY <1>0, <4>1, <4>2
    <3> QED BY <1>0, <2>2, <3>1, <3>2 DEF OrderInv
  <2>6. AgreeInv(n + 1)'
    BY <1>0, <2>1, <2>2, <2>3 DEF AgreeInv, records
  <2>7. RecordInv(n + 1)'
    <3> SUFFICES ASSUME NEW i \in 1 .. n + 1,
                        \A j \in i + 1 .. n + 1 : log[j].voter # log[i].voter
                 PROVE  /\ details[log[i].voter] # None
                        /\ details[log[i].voter].dir = log[i].dir
      BY <2>2 DEF RecordInv, records
    <3>1. log[n + 1].voter = v /\ log[n + 1].dir = d
      BY <2>3 DEF Pending
    <3>2. CASE i = n + 1
      BY <2>1, <3>1, <3>2
    <3>3. CASE i # n + 1
      <4>1. i \in 1 .. n /\ log[i].voter # v
        BY <1>0, <3>1, <3>3
      <4>2. \A j \in i + 1 .. n : log[j].voter # log[i].voter
        BY <1>0
      <4> QED BY <1>0, <2>3, <4>1, <4>2 DEF RecordInv
    <3> QED BY <3>2, <3>3
  <2>8. WrittenInv(w)'
    BY <2>2 DEF WrittenInv
  <2> QED BY <1>0, <2>2, <2>3, <2>5, <2>6, <2>7, <2>8 DEF AloneInv
<1>7. ASSUME NEW c \in Consumers, Deliver(c) PROVE AloneInv(w, n)'
  <2>1. c = w /\ UNCHANGED <<queue, log, records, vote, pc>>
    BY <1>7 DEF Deliver, work
  <2>2. /\ held[w] \in Seq(1 .. Len(log)) /\ Len(held[w]) \in Nat
        /\ ready \in SUBSET Nat /\ ready # {}
    BY <1>0, <1>7 DEF Deliver, TypeOK
  <2>3. Min(ready) = n + Len(held[w]) + 1 /\ Min(ready) \in 1 .. Len(log)
    <3>1. Min(ready) \in ready /\ \A m \in ready : Min(ready) <= m
      BY <2>2, ReadyMin
    <3>2. n + Len(held[w]) + 1 \in ready
      BY <1>0, <2>2, <3>1 DEF OrderInv
    <3> QED BY <1>0, <2>2, <3>1, <3>2 DEF OrderInv
  <2>4. held'[w] = Append(held[w], Min(ready)) /\ ready' = ready \ {Min(ready)}
    BY <1>0, <1>7, <2>1 DEF Deliver, TypeOK
  <2>5. /\ Len(held'[w]) = Len(held[w]) + 1
        /\ \A k \in 1 .. Len(held[w]) : held'[w][k] = held[w][k]
        /\ held'[w][Len(held[w]) + 1] = Min(ready)
    BY <2>2, <2>3, <2>4, AppendProperties
  <2>6. OrderInv(w, n)'
    <3>1. n + Len(held'[w]) <= Len(log')
      BY <1>0, <2>1, <2>2, <2>3, <2>5
    <3>2. ASSUME NEW k \in 1 .. Len(held'[w]) PROVE held'[w][k] = n + k
      <4>1. CASE k = Len(held[w]) + 1
        BY <1>0, <2>2, <2>3, <2>5, <4>1
      <4>2. CASE k # Len(held[w]) + 1
        <5>1. k \in 1 .. Len(held[w])
          BY <2>2, <2>5, <4>2
        <5> QED BY <1>0, <2>5, <5>1 DEF OrderInv
      <4> QED BY <4>1, <4>2
    <3>3. ready' = n + Len(held'[w]) + 1 .. Len(log')
      <4>1. ready = n + Len(held[w]) + 1 .. Len(log)
        BY <1>0 DEF OrderInv
      <4>2. \A a, b \in Int : (a .. b) \ {a} = a + 1 .. b
        OBVIOUS
      <4>3. n + Len(held[w]) + 1 \in Int /\ Len(log) \in Int
        BY <1>0, <2>2
      <4>4. ready' = n + Len(held[w]) + 1 + 1 .. Len(log)
        BY <2>3, <2>4, <4>1, <4>2, <4>3
      <4> QED BY <1>0, <2>1, <2>2, <2>5, <4>4
    <3> QED BY <3>1, <3>2, <3>3 DEF OrderInv
  <2>7. AgreeInv(n)' /\ RecordInv(n)'
    BY <1>0, <2>1 DEF AgreeInv, RecordInv, Pending, records
  <2>8. WrittenInv(w)'
    <3>1. CASE held[w] = <<>>
      BY <1>0, <2>1, <3>1 DEF BusyInv, WrittenInv
    <3>2. CASE held[w] # <<>>
      <4>1. Head(held'[w]) = Head(held[w])
        BY <2>2, <2>3, <2>4, <3>2, <2>5
      <4> QED BY <1>0, <2>1, <4>1 DEF WrittenInv, VoterOf, records
    <3> QED BY <3>1, <3>2
  <2> QED BY <2>6, <2>7, <2>8 DEF AloneInv
<1>8. ASSUME NEW u \in Voters, NEW e \in Directions, CastVote(u, e)
      PROVE  n \in 0 .. Len(log') /\ AloneInv(w, n)'
  <2>1. /\ UNCHANGED <<queue, held, records, vote, pc>>
        /\ ready' = ready \cup {Len(log) + 1}
    BY <1>8 DEF CastVote, work
  <2>2. Len(log') = Len(log) + 1 /\ \A i \in 1 .. Len(log) : log'[i] = log[i]
    BY <1>0, <1>8, AppendProperties DEF CastVote, TypeOK
  <2>3. Len(held[w]) \in Nat
    BY <1>0 DEF TypeOK
  <2>4. OrderInv(w, n)'
    BY <1>0, <2>1, <2>2, <2>3 DEF OrderInv
  <2>5. \A x, y : Pending(x, y, n) => Pending(x, y, n)'
    BY <1>0, <2>2 DEF Pending
  <2>6. AgreeInv(n)'
    BY <1>0, <2>1, <2>5 DEF AgreeInv, records
  <2>7. RecordInv(n)'
    <3>1. \A i \in 1 .. n : log'[i] = log[i]
      BY <1>0, <2>2
    <3> SUFFICES ASSUME NEW i \in 1 .. n, \A j \in i + 1 .. n : log'[j].voter # log'[i].voter
                 PROVE  /\ details'[log'[i].voter] # None
                        /\ \/ details'[log'[i].voter].dir = log'[i].dir
                           \/ Pending(log[i].voter, details[log[i].voter].dir, n)'
      BY DEF RecordInv
    <3>2. \A j \in i + 1 .. n : log[j].voter # log[i].voter
      BY <1>0, <3>1
    <3>3. /\ details[log[i].voter] # None
          /\ \/ details[log[i].voter].dir = log[i].dir
             \/ Pending(log[i].voter, details[log[i].voter].dir, n)
      BY <1>0, <3>2 DEF RecordInv
    <3> QED BY <2>1, <2>5, <3>1, <3>3 DEF records
  <2>8. WrittenInv(w)'
    <3>1. CASE held[w] = <<>>
      BY <1>0, <2>1, <3>1 DEF BusyInv, WrittenInv
    <3>2. CASE held[w] # <<>>
      <4>1. log'[Head(held[w])] = log[Head(held[w])]
        BY <1>0, <2>2, <3>2, InHand
      <4> QED BY <1>0, <2>1, <4>1 DEF WrittenInv, VoterOf, records
    <3> QED BY <3>1, <3>2
  <2> QED BY <1>0, <2>2, <2>4, <2>6, <2>7, <2>8 DEF AloneInv
<1>9. ASSUME NEW c \in Consumers, TimeOut(c) \/ Raise(c) \/ Kill(c) PROVE AloneInv(w, n)'
  <2>1. Requeue(c) /\ c = w /\ UNCHANGED records
    BY <1>9, OnlyOneWorks DEF TimeOut, Raise, Kill, Dies
  <2>2. /\ UNCHANGED <<queue, log, records>> /\ held'[w] = <<>> /\ pc'[w] = "waiting"
        /\ ready' = ready \cup Indices(w)
    BY <1>0, <2>1 DEF Requeue, TypeOK
  <2>3. ready' = n + 1 .. Len(log)
    <3>1. Len(held[w]) \in Nat
      BY <1>0 DEF TypeOK
    <3>2. Indices(w) = {n + i : i \in 1 .. Len(held[w])}
      BY <1>0 DEF OrderInv, Indices
    <3>3. {n + i : i \in 1 .. Len(held[w])} = n + 1 .. n + Len(held[w])
      <4>1. ASSUME NEW x \in n + 1 .. n + Len(held[w])
            PROVE  x \in {n + i : i \in 1 .. Len(held[w])}
        <5>1. x - n \in 1 .. Len(held[w]) /\ x = n + (x - n)
          BY <1>0, <3>1
        <5> QED BY <5>1
      <4> QED BY <1>0, <3>1, <4>1
    <3> QED BY <1>0, <2>2, <3>1, <3>2, <3>3 DEF OrderInv
  <2>4. OrderInv(w, n)'
    BY <1>0, <2>2, <2>3 DEF OrderInv
  <2>5. AgreeInv(n)' /\ RecordInv(n)'
    BY <1>0, <2>2 DEF AgreeInv, RecordInv, Pending, records
  <2>6. WrittenInv(w)'
    BY <2>2 DEF WrittenInv
  <2> QED BY <2>4, <2>5, <2>6 DEF AloneInv
<1>10. \A c \in Consumers : Process(c) \/ Deliver(c) \/ TimeOut(c) \/ Raise(c) \/ Kill(c) \/ Publish(c)
                           => (Ack(c) \/ UNCHANGED log)
  BY DEF Process, Start, Make, Undo, Add, Reward, FindNoKarma, SetKarma, WriteRelation,
     WriteDetails, UpdateLiked, QueueUpdate, UpdateListing, Deliver, TimeOut, Raise, Kill, Publish, Requeue,
     Dies, delivery
<1> QED
  BY <1>0, <1>1, <1>2, <1>3, <1>4, <1>5, <1>6, <1>7, <1>8, <1>9, <1>10 DEF Next, Process

\* With one consumer the last vote of an account that got into the queue is the
\* one on record, in both column families, for any number of votes and of
\* messages delivered again.
THEOREM LastVoteCounts == Spec => []LastVoteStands
<1>1. Init => SoleInv
  <2> SUFFICES ASSUME Init, NEW w \in Consumers, queue.staff = {w} PROVE AloneInv(w, 0)
    <3>1. 0 \in 0 .. Len(log)
      BY DEF Init
    <3> QED BY <3>1 DEF SoleInv
  <2>1. held[w] = <<>> /\ ready = {1} /\ Len(log) = 1 /\ pc[w] = "waiting"
    BY DEF Init
  <2>2. OrderInv(w, 0)
    BY <2>1 DEF OrderInv
  <2>3. AgreeInv(0) /\ RecordInv(0)
    BY DEF Init, AgreeInv, RecordInv
  <2>4. WrittenInv(w)
    BY <2>1 DEF WrittenInv
  <2> QED BY <2>2, <2>3, <2>4 DEF AloneInv
<1>2. BaseInv /\ SoleInv /\ [Next]_vars => SoleInv'
  <2> SUFFICES ASSUME BaseInv, SoleInv, [Next]_vars, NEW w \in Consumers, queue'.staff = {w}
               PROVE  \E m \in 0 .. Len(log') : AloneInv(w, m)'
    BY DEF SoleInv
  <2>1. queue' = queue
    BY DEF Next, Process, Start, Make, Undo, Add, Reward, FindNoKarma, SetKarma,
       WriteRelation, WriteDetails, UpdateLiked, QueueUpdate, UpdateListing, Ack, Deliver, CastVote, TimeOut,
       Raise, Kill, Publish, Requeue, Dies, LockExpires, Sticky, UpdateQueries, ReadUpdate, SortListing, SortingFails, vars, delivery
  <2>2. PICK n \in 0 .. Len(log) : AloneInv(w, n)
    BY <2>1 DEF SoleInv
  <2> QED BY <2>1, <2>2, AloneInductive
<1>3. BaseInv /\ SoleInv => LastVoteStands
  <2> SUFFICES ASSUME BaseInv, SoleInv, OneConsumer, Settled, NEW i \in 1 .. Len(log),
                      \A j \in i + 1 .. Len(log) : log[j].voter # log[i].voter
               PROVE  /\ rel[log[i].voter] = log[i].dir
                      /\ details[log[i].voter] # None
                      /\ details[log[i].voter].dir = rel[log[i].voter]
    BY DEF LastVoteStands
  <2>1. PICK w \in Consumers : queue.staff = {w}
    BY DEF OneConsumer
  <2>2. PICK n \in 0 .. Len(log) : AloneInv(w, n)
    BY <2>1 DEF SoleInv
  <2>3. Len(log) \in Nat /\ log \in Seq(Message)
    BY DEF BaseInv, TypeOK
  <2>4. n = Len(log)
    BY <2>2, <2>3 DEF Settled, AloneInv, OrderInv
  <2>5. \A x, y : ~Pending(x, y, n)
    BY <2>3, <2>4 DEF Pending
  <2>6. log[i].voter \in Voters
    BY <2>3, Parts
  <2> QED BY <2>2, <2>4, <2>5, <2>6 DEF AloneInv, AgreeInv, RecordInv
<1> QED BY BaseInit, BaseInductive, <1>1, <1>2, <1>3, PTL DEF Spec

\* Where a consumer of links holds the lock of its message's voter, and where it
\* has read the recorded vote and not yet replaced it.
Midway == {"undoing", "adding", "rewarding", "setting", "recording", "detailing"}
Locked == Midway \cup {"making", "listing"}

\* Only the listing that p names has u.
Matches(u, p) == \A d \in {"up", "down"} : u \in listed[d] => p # None /\ p.dir = d

\* A lock is held by the consumer that works on a vote of its voter, and while no
\* consumer has died by nobody else.
LockInv ==
    /\ \A c \in Consumers : pc[c] \in Locked => lock[VoterOf(c)] = c
    /\ \A u \in Voters : lock[u] # None =>
          lock[u] \in Consumers /\ pc[lock[u]] \in Locked /\ VoterOf(lock[u]) = u

\* What a consumer has read is still so: the listings agree with the recorded vote
\* until it is replaced, and with the vote it has replaced until they follow.
HandInv(c) ==
    LET u == VoterOf(c)
    IN  /\ pc[c] \in Midway => prev[c] = details[u]
        /\ pc[c] \in Midway \cup {"making"} => Matches(u, details[u])
        /\ pc[c] = "listing" => /\ Matches(u, prev[c])
                                /\ details[u] # None /\ details[u].dir = vote[c].dir

LinkInv ==
    retries = 0 /\ queue.kind = "link" =>
        /\ LockInv
        /\ \A c \in Consumers : HandInv(c)
        /\ \A u \in Voters : lock[u] = None => Matches(u, details[u])

\* A comment is in no such listing.
CommentInv == retries = 0 /\ queue.kind = "comment" => \A d \in {"up", "down"} : listed[d] = {}

ListInv == LinkInv /\ CommentInv

\* Two consumers under the lock work on votes of different accounts.
LEMMA Apart ==
    ASSUME LockInv, NEW c \in Consumers, NEW e \in Consumers,
           pc[c] \in Locked, pc[e] \in Locked, VoterOf(c) = VoterOf(e)
    PROVE  c = e
BY DEF LockInv

\* A step that moves no lock and no message, and takes nobody into the locked part or
\* out of it, keeps the locks' invariant.
LEMMA LocksKept ==
    ASSUME LockInv, UNCHANGED <<lock, log, held>>,
           \A e \in Consumers : pc'[e] \in Locked <=> pc[e] \in Locked
    PROVE  LockInv'
BY DEF LockInv, VoterOf

\* Every step keeps the listings and the recorded votes together.
LEMMA ListInductive == BaseInv /\ BaseInv' /\ ListInv /\ [Next]_vars => ListInv'
<1> SUFFICES ASSUME BaseInv, BaseInv', ListInv, [Next]_vars, retries' = 0
             PROVE  ListInv'
  BY DEF ListInv, LinkInv, CommentInv
<1>0. TypeOK /\ BusyInv
  BY DEF BaseInv
<1>a. \A c \in Consumers : ~Dies(c)
  <2> SUFFICES ASSUME NEW c \in Consumers, Dies(c) PROVE FALSE
    OBVIOUS
  <2>1. retries \in Nat /\ retries' = retries + 1
    BY <1>0 DEF Dies, TypeOK
  <2> QED BY <2>1
<1>b. retries = 0 /\ queue' = queue
  BY <1>a DEF Next, Process, Start, Make, Undo, Add, Reward, FindNoKarma, SetKarma,
     WriteRelation, WriteDetails, UpdateLiked, QueueUpdate, UpdateListing, Ack, Deliver, CastVote, TimeOut,
     Raise, Kill, Publish, Requeue, LockExpires, Sticky, UpdateQueries, ReadUpdate, SortListing, SortingFails, vars, delivery
<1>c. queue.kind \in {"link", "comment"}
  BY <1>0, Parts DEF TypeOK
<1>d. CASE queue.kind = "comment"
  <2>1. listed' = listed
    BY <1>a, <1>d DEF Next, Process, Start, Make, Undo, Add, Reward, FindNoKarma, SetKarma,
       WriteRelation, WriteDetails, UpdateLiked, QueueUpdate, UpdateListing, Ack, Deliver, CastVote, TimeOut,
       Raise, Kill, Publish, Requeue, LockExpires, Sticky, UpdateQueries, ReadUpdate, SortListing, SortingFails, vars
  <2> QED BY <1>b, <1>d, <2>1 DEF ListInv, LinkInv, CommentInv
<1>e. CASE queue.kind = "link"
  <2> SUFFICES /\ LockInv' /\ \A c \in Consumers : HandInv(c)'
               /\ \A u \in Voters : lock'[u] = None => Matches(u, details[u])'
    BY <1>b, <1>e DEF ListInv, LinkInv, CommentInv
  <2>0. /\ LockInv /\ \A c \in Consumers : HandInv(c)
        /\ \A u \in Voters : lock[u] = None => Matches(u, details[u])
        /\ None \notin Consumers
    BY <1>b, <1>e, VotingAssumption DEF ListInv, LinkInv
  <2>p. \A c \in Consumers : pc[c] \in Locked =>
           held[c] # <<>> /\ VoterOf(c) \in Voters
    BY <1>0, InHand DEF Locked, Midway, BusyInv
  \* Steps that only move on between the first read and the last write, or after it.
  <2>1. ASSUME NEW c \in Consumers,
               Undo(c) \/ Add(c) \/ Reward(c) \/ FindNoKarma(c) \/ SetKarma(c)
               \/ WriteRelation(c) \/ QueueUpdate(c)
        PROVE  /\ LockInv' /\ \A e \in Consumers : HandInv(e)'
               /\ \A u \in Voters : lock'[u] = None => Matches(u, details[u])'
    <3>1. UNCHANGED <<lock, log, held, prev, details, listed>>
      BY <2>1 DEF Undo, Add, Reward, FindNoKarma, SetKarma, WriteRelation, QueueUpdate, UpdateListing,
         delivery, records
    <3>2. \A e \in Consumers : /\ pc'[e] \in Midway <=> pc[e] \in Midway
                               /\ pc'[e] = "making" <=> pc[e] = "making"
                               /\ pc'[e] = "listing" <=> pc[e] = "listing"
      BY <1>0, <2>1 DEF Undo, Add, Reward, FindNoKarma, SetKarma, WriteRelation, QueueUpdate, UpdateListing,
         Goto, TypeOK, Midway
    <3>3. UNCHANGED vote
      BY <2>1 DEF Undo, Add, Reward, FindNoKarma, SetKarma, WriteRelation, QueueUpdate, UpdateListing
    <3>4. LockInv'
      BY <2>0, <3>1, <3>2, LocksKept DEF Locked
    <3>5. \A e \in Consumers : HandInv(e)'
      BY <2>0, <3>1, <3>2, <3>3 DEF HandInv, Matches, VoterOf
    <3> QED BY <2>0, <3>1, <3>4, <3>5 DEF Matches
  <2>2. CASE (\E c \in Consumers : Publish(c)) \/ Sticky \/ UpdateQueries \/ UNCHANGED vars
    <3>1. UNCHANGED <<lock, log, held, prev, vote, pc, details, listed>>
      BY <2>2 DEF Publish, Sticky, UpdateQueries, ReadUpdate, SortListing, SortingFails, vars, delivery, work, records
    <3>2. LockInv' /\ \A e \in Consumers : HandInv(e)'
      BY <2>0, <3>1 DEF LockInv, HandInv, Matches, VoterOf
    <3> QED BY <2>0, <3>1, <3>2 DEF Matches
  <2>3. ASSUME NEW u \in Voters, LockExpires(u) PROVE FALSE
    BY <2>0, <2>3, VotingAssumption DEF LockExpires, LockInv
  <2>4. ASSUME NEW c \in Consumers, Start(c)
        PROVE  /\ LockInv' /\ \A e \in Consumers : HandInv(e)'
               /\ \A u \in Voters : lock'[u] = None => Matches(u, details[u])'
    <3> DEFINE v == VoterOf(c)
    <3>1. /\ UNCHANGED <<log, held, prev, vote, details, listed>> /\ v \in Voters
          /\ lock[v] = None /\ lock' = [lock EXCEPT ![v] = c]
          /\ pc[c] = "waiting" /\ pc' = [pc EXCEPT ![c] = "making"]
      BY <1>0, <1>e, <2>4, InHand DEF Start, Goto, delivery, records
    <3>2. /\ lock'[v] = c /\ \A u \in Voters : u # v => lock'[u] = lock[u]
          /\ pc'[c] = "making" /\ \A e \in Consumers : e # c => pc'[e] = pc[e]
      BY <1>0, <3>1 DEF TypeOK
    <3>3. \A e \in Consumers : VoterOf(e)' = VoterOf(e)
      BY <3>1 DEF VoterOf
    <3>4. \A e \in Consumers : e # c /\ pc[e] \in Locked => VoterOf(e) # v
      BY <2>0, <3>1 DEF LockInv
    <3>5. LockInv'
      <4>1. \A e \in Consumers : pc'[e] \in Locked => lock'[VoterOf(e)] = e
        BY <2>0, <2>p, <3>1, <3>2, <3>4 DEF LockInv
      <4>2. \A u \in Voters : lock'[u] # None =>
               lock'[u] \in Consumers /\ pc'[lock'[u]] \in Locked /\ VoterOf(lock'[u]) = u
        BY <2>0, <3>1, <3>2 DEF LockInv, Locked, Midway
      <4> QED BY <3>1, <4>1, <4>2 DEF LockInv, VoterOf
    <3>6. \A e \in Consumers : HandInv(e)'
      <4>1. HandInv(c)'
        BY <2>0, <3>1, <3>2, <3>3 DEF HandInv, Matches, Midway
      <4>2. \A e \in Consumers : e # c => HandInv(e)'
        BY <2>0, <3>1, <3>2, <3>3 DEF HandInv, Matches
      <4> QED BY <4>1, <4>2
    <3> QED BY <2>0, <3>1, <3>2, <3>5, <3>6 DEF Matches
  <2>5. ASSUME NEW c \in Consumers, Make(c)
        PROVE  /\ LockInv' /\ \A e \in Consumers : HandInv(e)'
               /\ \A u \in Voters : lock'[u] = None => Matches(u, details[u])'
    <3> DEFINE v == VoterOf(c)
    <3>1. /\ UNCHANGED <<lock, log, held, details, listed>> /\ pc[c] = "making"
          /\ pc'[c] \in {"listing", "undoing"}
          /\ pc'[c] = "listing" => details[v] # None /\ details[v].dir = vote'[c].dir
          /\ prev'[c] = details[v]
      BY <1>0, <2>5 DEF Make, Goto, delivery, records, TypeOK
    <3>2. \A e \in Consumers : e # c =>
             pc'[e] = pc[e] /\ prev'[e] = prev[e] /\ vote'[e] = vote[e]
      BY <1>0, <2>5 DEF Make, Goto, TypeOK
    <3>3. \A e \in Consumers : VoterOf(e)' = VoterOf(e)
      BY <3>1 DEF VoterOf
    <3>4. LockInv'
      <4>1. \A e \in Consumers : pc'[e] \in Locked <=> pc[e] \in Locked
        BY <3>1, <3>2 DEF Locked, Midway
      <4> QED BY <2>0, <3>1, <4>1, LocksKept
    <3>5. HandInv(c)'
      BY <2>0, <3>1, <3>3 DEF HandInv, Matches, Midway
    <3>6. \A e \in Consumers : e # c => HandInv(e)'
      BY <2>0, <3>1, <3>2, <3>3 DEF HandInv, Matches
    <3> QED BY <2>0, <3>1, <3>4, <3>5, <3>6 DEF Matches
  <2>6. ASSUME NEW c \in Consumers, WriteDetails(c)
        PROVE  /\ LockInv' /\ \A e \in Consumers : HandInv(e)'
               /\ \A u \in Voters : lock'[u] = None => Matches(u, details[u])'
    <3> DEFINE v == VoterOf(c)
    <3>1. /\ UNCHANGED <<lock, log, held, prev, vote, listed>>
          /\ pc[c] = "detailing" /\ pc' = [pc EXCEPT ![c] = "listing"]
          /\ details' = [details EXCEPT ![v] = vote[c]]
      BY <2>6 DEF WriteDetails, Goto, delivery
    <3>2. /\ pc'[c] = "listing" /\ \A e \in Consumers : e # c => pc'[e] = pc[e]
          /\ pc[c] \in Locked /\ pc[c] \in Midway
      BY <1>0, <3>1 DEF TypeOK, Locked, Midway
    <3>3. v \in Voters /\ lock[v] = c
      BY <2>0, <2>p, <3>2 DEF LockInv
    <3>4. /\ details'[v] = vote[c] /\ \A u \in Voters : u # v => details'[u] = details[u]
          /\ vote[c] # None
      BY <1>0, <3>1, <3>3, NoneIsNoVote DEF TypeOK
    <3>5. \A e \in Consumers : VoterOf(e)' = VoterOf(e)
      BY <3>1 DEF VoterOf
    <3>6. LockInv'
      <4>1. \A e \in Consumers : pc'[e] \in Locked <=> pc[e] \in Locked
        BY <3>2 DEF Locked
      <4> QED BY <2>0, <3>1, <4>1, LocksKept
    <3>7. HandInv(c)'
      BY <2>0, <3>1, <3>2, <3>4, <3>5 DEF HandInv, Matches, Midway
    <3>8. ASSUME NEW e \in Consumers, e # c PROVE HandInv(e)'
      <4>1. CASE pc[e] \in Locked
        <5>1. VoterOf(e) \in Voters /\ VoterOf(e) # v
          BY <2>0, <2>p, <3>2, <3>8, <4>1, Apart
        <5> QED BY <2>0, <3>1, <3>2, <3>4, <3>5, <3>8, <5>1 DEF HandInv, Matches
      <4>2. CASE pc[e] \notin Locked
        BY <3>2, <3>8, <4>2 DEF HandInv, Locked, Midway
      <4> QED BY <4>1, <4>2
    <3>9. ASSUME NEW u \in Voters, lock[u] = None PROVE Matches(u, details[u])'
      <4>1. u # v
        BY <2>0, <3>3, <3>9
      <4> QED BY <2>0, <3>1, <3>4, <3>9, <4>1 DEF Matches
    <3> QED BY <3>1, <3>6, <3>7, <3>8, <3>9
  <2>7. ASSUME NEW c \in Consumers, UpdateLiked(c)
        PROVE  /\ LockInv' /\ \A e \in Consumers : HandInv(e)'
               /\ \A u \in Voters : lock'[u] = None => Matches(u, details[u])'
    <3> DEFINE v == VoterOf(c)
    <3>1. /\ UNCHANGED <<log, held, prev, vote, details>>
          /\ pc[c] = "listing" /\ pc' = [pc EXCEPT ![c] = "queueing"]
          /\ listed' = [d \in {"up", "down"} |-> ListingAfter(c, d)]
          /\ lock' = [u \in Voters |-> IF lock[u] = c THEN None ELSE lock[u]]
      BY <1>e, <2>7 DEF UpdateLiked, Unlock, Goto, delivery, records
    <3>2. /\ pc'[c] = "queueing" /\ \A e \in Consumers : e # c => pc'[e] = pc[e]
          /\ pc[c] \in Locked /\ pc'[c] \notin Locked
      BY <1>0, <3>1 DEF TypeOK, Locked, Midway
    <3>3. v \in Voters /\ lock[v] = c /\ \A u \in Voters : lock[u] = c => u = v
      BY <2>0, <2>p, <3>2 DEF LockInv
    <3>4. lock'[v] = None /\ \A u \in Voters : u # v => lock'[u] = lock[u]
      BY <3>1, <3>3
    <3>5. \A e \in Consumers : VoterOf(e)' = VoterOf(e)
      BY <3>1 DEF VoterOf
    <3>6. \A u \in Voters, d \in {"up", "down"} : u # v /\ u \in listed'[d] => u \in listed[d]
      BY <3>1 DEF ListingAfter
    <3>7. Matches(v, details[v])'
      <4> SUFFICES ASSUME NEW d \in {"up", "down"}, v \in listed'[d]
                   PROVE  details[v] # None /\ details[v].dir = d
        BY <3>1, <3>5 DEF Matches
      <4>1. /\ Matches(v, prev[c]) /\ details[v] # None /\ details[v].dir = vote[c].dir
        BY <2>0, <3>1 DEF HandInv
      <4>2. v \in ListingAfter(c, d)
        BY <3>1
      <4>3. vote[c].dir = d
        BY <4>1, <4>2 DEF ListingAfter, Matches
      <4> QED BY <4>1, <4>3
    <3>8. LockInv'
      <4>1. \A e \in Consumers : pc'[e] \in Locked => lock'[VoterOf(e)] = e
        <5> SUFFICES ASSUME NEW e \in Consumers, pc'[e] \in Locked PROVE lock'[VoterOf(e)] = e
          OBVIOUS
        <5>1. e # c /\ pc[e] \in Locked
          BY <3>2
        <5>2. VoterOf(e) \in Voters /\ VoterOf(e) # v /\ lock[VoterOf(e)] = e
          BY <2>0, <2>p, <3>2, <5>1, Apart DEF LockInv
        <5> QED BY <3>4, <5>2
      <4>2. \A u \in Voters : lock'[u] # None =>
               lock'[u] \in Consumers /\ pc'[lock'[u]] \in Locked /\ VoterOf(lock'[u]) = u
        <5> SUFFICES ASSUME NEW u \in Voters, lock'[u] # None
                     PROVE  lock'[u] \in Consumers /\ pc'[lock'[u]] \in Locked
                            /\ VoterOf(lock'[u]) = u
          OBVIOUS
        <5>1. u # v /\ lock'[u] = lock[u] /\ lock[u] # c
          BY <3>3, <3>4
        <5> QED BY <2>0, <3>2, <5>1 DEF LockInv
      <4> QED BY <3>1, <4>1, <4>2 DEF LockInv, VoterOf
    <3>9. \A e \in Consumers : HandInv(e)'
      <4> SUFFICES ASSUME NEW e \in Consumers PROVE HandInv(e)'
        OBVIOUS
      <4>1. CASE pc'[e] \in Locked
        <5>1. e # c /\ pc[e] \in Locked /\ pc'[e] = pc[e]
          BY <3>2, <4>1
        <5>2. VoterOf(e) \in Voters /\ VoterOf(e) # v
          BY <2>0, <2>p, <3>2, <5>1, Apart
        <5>3. \A p : Matches(VoterOf(e), p) => Matches(VoterOf(e), p)'
          BY <3>5, <3>6, <5>2 DEF Matches
        <5>4. HandInv(e)
          BY <2>0
        <5>5. /\ pc[e] \in Midway => prev'[e] = details'[VoterOf(e)']
              /\ pc[e] \in Midway \cup {"making"} => Matches(VoterOf(e), details[VoterOf(e)])'
              /\ pc[e] = "listing" => /\ Matches(VoterOf(e), prev[e])'
                                      /\ details'[VoterOf(e)'] # None
                                      /\ details'[VoterOf(e)'].dir = vote'[e].dir
          BY <3>1, <3>5, <3>6, <5>2, <5>4 DEF HandInv, Matches
        <5> QED BY <5>1, <5>5 DEF HandInv
      <4>2. CASE pc'[e] \notin Locked
        BY <4>2 DEF HandInv, Locked, Midway
      <4> QED BY <4>1, <4>2
    <3>10. ASSUME NEW u \in Voters, lock'[u] = None PROVE Matches(u, details[u])'
      <4>1. CASE u = v
        BY <3>1, <3>7, <4>1 DEF Matches, VoterOf
      <4>2. CASE u # v
        <5>1. Matches(u, details[u])
          BY <2>0, <3>4, <3>10, <4>2
        <5> QED BY <3>1, <3>6, <4>2, <5>1 DEF Matches
      <4> QED BY <4>1, <4>2
    <3> QED BY <3>8, <3>9, <3>10
  \* Steps that move messages: who works on what stays.
  <2>8. ASSUME UNCHANGED <<lock, details, listed>>,
               \A e \in Consumers :
                  \/ pc'[e] \notin Locked /\ pc[e] \notin Locked
                  \/ /\ pc'[e] = pc[e] /\ prev'[e] = prev[e] /\ vote'[e] = vote[e]
                     /\ VoterOf(e)' = VoterOf(e)
        PROVE  /\ LockInv' /\ \A e \in Consumers : HandInv(e)'
               /\ \A u \in Voters : lock'[u] = None => Matches(u, details[u])'
    <3>1. LockInv'
      BY <2>0, <2>8 DEF LockInv
    <3>2. \A e \in Consumers : HandInv(e)'
      <4> SUFFICES ASSUME NEW e \in Consumers PROVE HandInv(e)'
        OBVIOUS
      <4>1. CASE pc'[e] \notin Locked
        BY <4>1 DEF HandInv, Locked, Midway
      <4>2. CASE pc'[e] \in Locked
        BY <2>0, <2>8, <4>2 DEF HandInv, Matches
      <4> QED BY <4>1, <4>2
    <3> QED BY <2>0, <2>8, <3>1, <3>2 DEF Matches
  <2>9. ASSUME NEW c \in Consumers, Ack(c) \/ TimeOut(c) \/ Deliver(c)
        PROVE  /\ UNCHANGED <<lock, details, listed>>
               /\ \A e \in Consumers :
                  \/ pc'[e] \notin Locked /\ pc[e] \notin Locked
                  \/ /\ pc'[e] = pc[e] /\ prev'[e] = prev[e] /\ vote'[e] = vote[e]
                     /\ VoterOf(e)' = VoterOf(e)
    <3>1. UNCHANGED <<lock, details, listed, log>>
      BY <2>9 DEF Ack, TimeOut, Deliver, Requeue, records
    <3>2. CASE Ack(c) \/ TimeOut(c)
      <4>1. /\ pc'[c] = "waiting" /\ pc[c] \in {"acking", "waiting"}
            /\ \A e \in Consumers : e # c =>
                  pc'[e] = pc[e] /\ prev'[e] = prev[e] /\ vote'[e] = vote[e] /\ held'[e] = held[e]
        BY <1>0, <3>2 DEF Ack, TimeOut, Requeue, Forget, Goto, TypeOK
      <4>2. \A e \in Consumers : e # c => VoterOf(e)' = VoterOf(e)
        BY <3>1, <4>1 DEF VoterOf
      <4>3. pc'[c] \notin Locked /\ pc[c] \notin Locked
        BY <4>1 DEF Locked, Midway
      <4> QED BY <3>1, <4>1, <4>2, <4>3
    <3>3. CASE Deliver(c)
      <4>1. /\ UNCHANGED <<pc, prev, vote>> /\ held'[c] = Append(held[c], Min(ready))
            /\ \A e \in Consumers : e # c => held'[e] = held[e]
        BY <1>0, <3>3 DEF Deliver, TypeOK, work
      <4>2. \A e \in Consumers : e # c => VoterOf(e)' = VoterOf(e)
        BY <3>1, <4>1 DEF VoterOf
      <4>3. CASE held[c] = <<>>
        <5>1. pc[c] \notin Locked
          BY <2>p, <4>3
        <5> QED BY <3>1, <4>1, <4>2, <5>1
      <4>4. CASE held[c] # <<>>
        <5>1. held[c] \in Seq(1 .. Len(log)) /\ Min(ready) \in 1 .. Len(log)
          <6>1. ready \in SUBSET Nat /\ ready # {} /\ ready \subseteq 1 .. Len(log)
            BY <1>0, <3>3 DEF Deliver, TypeOK
          <6>2. Min(ready) \in ready
            BY <6>1, ReadyMin
          <6> QED BY <1>0, <6>1, <6>2 DEF TypeOK
        <5>2. Head(held'[c]) = Head(held[c])
          BY <4>1, <4>4, <5>1
        <5>3. VoterOf(c)' = VoterOf(c)
          BY <3>1, <5>2 DEF VoterOf
        <5> QED BY <3>1, <4>1, <4>2, <5>3
      <4> QED BY <4>3, <4>4
    <3> QED BY <2>9, <3>2, <3>3
  <2>10. ASSUME NEW u \in Voters, NEW d \in Directions, CastVote(u, d)
         PROVE  /\ UNCHANGED <<lock, details, listed>>
                /\ \A e \in Consumers :
                   \/ pc'[e] \notin Locked /\ pc[e] \notin Locked
                   \/ /\ pc'[e] = pc[e] /\ prev'[e] = prev[e] /\ vote'[e] = vote[e]
                      /\ VoterOf(e)' = VoterOf(e)
    <3>1. /\ UNCHANGED <<lock, details, listed, held, pc, prev, vote>>
          /\ \A i \in 1 .. Len(log) : log'[i] = log[i]
      BY <1>0, <2>10, AppendProperties DEF CastVote, TypeOK, work, records
    <3>2. \A e \in Consumers : held[e] # <<>> => VoterOf(e)' = VoterOf(e)
      <4> SUFFICES ASSUME NEW e \in Consumers, held[e] # <<>> PROVE VoterOf(e)' = VoterOf(e)
        OBVIOUS
      <4>1. Head(held[e]) \in 1 .. Len(log)
        BY <1>0, InHand
      <4> QED BY <3>1, <4>1 DEF VoterOf
    <3> QED BY <2>p, <3>1, <3>2
  <2>11. \A c \in Consumers : ~Raise(c) /\ ~Kill(c)
    BY <1>a DEF Raise, Kill
  <2> QED
    BY <2>1, <2>2, <2>3, <2>4, <2>5, <2>6, <2>7, <2>8, <2>9, <2>10, <2>11 DEF Next, Process
<1> QED BY <1>c, <1>d, <1>e

\* No listing shows a vote that is not on record, whenever nobody holds the voter's
\* lock and no consumer has died: for any number of consumers, voters and votes.
THEOREM NoWrongListing == Spec => []ListedAreVotes
<1>1. Init => ListInv
  <2> SUFFICES ASSUME Init PROVE ListInv
    OBVIOUS
  <2>1. /\ \A c \in Consumers : pc[c] = "waiting"
        /\ \A u \in Voters : lock[u] = None
        /\ \A d \in {"up", "down"} : listed[d] = {}
    BY DEF Init
  <2>2. LockInv /\ \A c \in Consumers : HandInv(c)
    BY <2>1 DEF LockInv, HandInv, Locked, Midway
  <2> QED BY <2>1, <2>2 DEF ListInv, LinkInv, CommentInv, Matches
<1>2. BaseInv /\ ListInv => ListedAreVotes
  <2>1. BaseInv => queue.kind \in {"link", "comment"}
    BY Parts DEF BaseInv, TypeOK
  <2> QED BY <2>1 DEF ListInv, LinkInv, CommentInv, Matches, ListedAreVotes
<1> QED BY BaseInit, BaseInductive, ListInductive, <1>1, <1>2, PTL DEF Spec

\* Votes that count are those of the others: the score of a vote is the voter's.
ScoreInv ==
    /\ \A u \in Voters : details[u] # None => (details[u].score <=> u # Author)
    /\ \A c \in Consumers : pc[c] \notin {"waiting", "making"} =>
          /\ vote[c].score <=> VoterOf(c) # Author
          /\ prev[c] # None => (prev[c].score <=> VoterOf(c) # Author)

\* While the listing is not sorted by the counters, nor will be once its consumer is
\* done with what it has read, an update is on its way, or a vote that counts is still
\* to be worked on, or the last one was left out on purpose.
Waits ==
    \/ \E i \in ready : log[i].voter # Author
    \/ \E c \in Consumers : \E k \in 1 .. Len(held[c]) :
          log[held[c][k]].voter # Author /\ (k = 1 => pc[c] # "acking")

Coming == IF reading = None THEN sorted ELSE reading

Catching == Coming = count \/ updates \/ unsent # {} \/ skipped \/ Waits

\* A comment's listing is no other consumer's.
NoUpdates == queue.kind = "comment" => unsent = {} /\ ~updates /\ reading = None

FollowInv == NoUpdates /\ ("kill" \notin queue.faults => Catching)

\* A step that takes nobody past the first read of the votes keeps what the votes in
\* hand score.
LEMMA ScoreKept ==
    ASSUME ScoreInv, UNCHANGED details,
           \A c \in Consumers : pc'[c] \notin {"waiting", "making"} =>
              /\ pc[c] \notin {"waiting", "making"}
              /\ vote'[c] = vote[c] /\ prev'[c] = prev[c] /\ VoterOf(c)' = VoterOf(c)
    PROVE  ScoreInv'
<1>1. \A u \in Voters : details'[u] # None => (details'[u].score <=> u # Author)
  BY DEF ScoreInv
<1>2. ASSUME NEW c \in Consumers, pc'[c] \notin {"waiting", "making"}
      PROVE  /\ vote'[c].score <=> VoterOf(c)' # Author
             /\ prev'[c] # None => (prev'[c].score <=> VoterOf(c)' # Author)
  <2>1. /\ vote[c].score <=> VoterOf(c) # Author
        /\ prev[c] # None => (prev[c].score <=> VoterOf(c) # Author)
    BY <1>2 DEF ScoreInv
  <2> QED BY <1>2, <2>1
<1> QED BY <1>1, <1>2 DEF ScoreInv

\* The message in hand stays the same while more are sent ahead or published.
LEMMA SameVoter ==
    ASSUME BaseInv, [Next]_vars, NEW c \in Consumers, held[c] # <<>>,
           ~Ack(c), ~TimeOut(c), ~Raise(c), ~Kill(c)
    PROVE  /\ Head(held'[c]) = Head(held[c]) /\ VoterOf(c)' = VoterOf(c)
           /\ held'[c] # <<>>
<1>0. TypeOK /\ log \in Seq(Message) /\ held[c] \in Seq(1 .. Len(log))
  BY DEF BaseInv, TypeOK
<1>1. Head(held[c]) \in 1 .. Len(log)
  BY <1>0, InHand
<1>2. CASE UNCHANGED <<log, held>>
  BY <1>2 DEF VoterOf
<1>3. ASSUME NEW e \in Consumers, Deliver(e) PROVE Head(held'[c]) = Head(held[c]) /\ log' = log
                                                   /\ held'[c] # <<>>
  <2>1. CASE e # c
    BY <1>0, <1>3, <2>1 DEF Deliver, TypeOK
  <2>2. CASE e = c
    <3>1. ready \in SUBSET Nat /\ ready # {} /\ ready \subseteq 1 .. Len(log)
      BY <1>0, <1>3 DEF Deliver, TypeOK
    <3>2. Min(ready) \in 1 .. Len(log)
      BY <3>1, ReadyMin
    <3>3. held'[c] = Append(held[c], Min(ready)) /\ log' = log
      BY <1>0, <1>3, <2>2 DEF Deliver, TypeOK
    <3> QED BY <1>0, <3>2, <3>3, AppendProperties
  <2> QED BY <2>1, <2>2
<1>4. ASSUME NEW u \in Voters, NEW d \in Directions, CastVote(u, d)
      PROVE  held' = held /\ log'[Head(held[c])] = log[Head(held[c])]
  BY <1>0, <1>1, <1>4, AppendProperties DEF CastVote
<1>5. ASSUME NEW e \in Consumers, e # c, Ack(e) \/ Requeue(e)
      PROVE  held'[c] = held[c] /\ log' = log
  BY <1>0, <1>5 DEF Ack, Requeue, TypeOK
<1>6. CASE \E e \in Consumers : Deliver(e)
  BY <1>3, <1>6 DEF VoterOf
<1>7. CASE \E u \in Voters, d \in Directions : CastVote(u, d)
  BY <1>4, <1>7 DEF VoterOf
<1>8. CASE \E e \in Consumers : e # c /\ (Ack(e) \/ TimeOut(e) \/ Raise(e) \/ Kill(e))
  <2>1. held'[c] = held[c] /\ log' = log
    BY <1>5, <1>8 DEF TimeOut, Raise, Kill, Dies
  <2> QED BY <2>1 DEF VoterOf
<1>9. CASE /\ \A e \in Consumers : ~Deliver(e) /\ ~Ack(e) /\ ~TimeOut(e) /\ ~Raise(e) /\ ~Kill(e)
           /\ \A u \in Voters, d \in Directions : ~CastVote(u, d)
  <2>1. UNCHANGED <<log, held>>
    BY <1>9 DEF Next, Process, Start, Make, Undo, Add, Reward, FindNoKarma, SetKarma,
       WriteRelation, WriteDetails, UpdateLiked, QueueUpdate, UpdateListing, Publish, LockExpires, Sticky,
       UpdateQueries, ReadUpdate, SortListing, SortingFails, vars, delivery
  <2> QED BY <1>2, <2>1
<1> QED BY <1>6, <1>7, <1>8, <1>9

\* Every step keeps what a voter's votes score.
LEMMA ScoreInductive == BaseInv /\ ScoreInv /\ [Next]_vars => ScoreInv'
<1> SUFFICES ASSUME BaseInv, ScoreInv, [Next]_vars PROVE ScoreInv'
  OBVIOUS
<1>0. TypeOK /\ BusyInv
  BY DEF BaseInv
<1>1. ASSUME NEW c \in Consumers, Make(c) PROVE ScoreInv'
  <2> DEFINE u == VoterOf(c)
  <2>1. held[c] # <<>> /\ u \in Voters /\ UNCHANGED <<log, held, details>>
    BY <1>0, <1>1, InHand DEF Make, Goto, BusyInv, delivery, records
  <2>2. VoterOf(c)' = u
    BY <2>1 DEF VoterOf
  <2>3. prev'[c] = details[u] /\ vote'[c].score = AffectsScore(u, details[u])
    BY <1>0, <1>1 DEF Make, TypeOK
  <2>4. details[u] # None => (details[u].score <=> u # Author)
    BY <2>1 DEF ScoreInv
  <2>5. AffectsScore(u, details[u]) <=> u # Author
    BY <2>4, Zenon DEF AffectsScore
  <2>6. \A e \in Consumers : e # c => /\ pc'[e] = pc[e] /\ vote'[e] = vote[e]
                                      /\ prev'[e] = prev[e] /\ VoterOf(e)' = VoterOf(e)
    BY <1>0, <1>1, <2>1 DEF Make, Goto, TypeOK, VoterOf
  <2>7. ASSUME NEW e \in Consumers, pc'[e] \notin {"waiting", "making"}
        PROVE  /\ vote'[e].score <=> VoterOf(e)' # Author
               /\ prev'[e] # None => (prev'[e].score <=> VoterOf(e)' # Author)
    <3>1. CASE e = c
      <4>1. vote'[c].score <=> u # Author
        BY <2>3, <2>5
      <4>2. prev'[c] # None => (prev'[c].score <=> u # Author)
        BY <2>3, <2>4
      <4> QED BY <2>2, <3>1, <4>1, <4>2
    <3>2. CASE e # c
      <4>1. /\ vote[e].score <=> VoterOf(e) # Author
            /\ prev[e] # None => (prev[e].score <=> VoterOf(e) # Author)
        BY <2>6, <2>7, <3>2 DEF ScoreInv
      <4> QED BY <2>6, <3>2, <4>1
    <3> QED BY <3>1, <3>2
  <2>8. \A w \in Voters : details'[w] # None => (details'[w].score <=> w # Author)
    BY <2>1 DEF ScoreInv
  <2> QED BY <2>7, <2>8 DEF ScoreInv
<1>2. ASSUME NEW c \in Consumers, WriteDetails(c) PROVE ScoreInv'
  <2> DEFINE u == VoterOf(c)
  <2>1. /\ held[c] # <<>> /\ u \in Voters /\ UNCHANGED <<log, held, vote, prev>>
        /\ pc[c] = "detailing"
    BY <1>0, <1>2, InHand DEF WriteDetails, Goto, BusyInv, delivery
  <2>2. details' = [details EXCEPT ![u] = vote[c]]
    BY <1>2 DEF WriteDetails
  <2>3. vote[c].score <=> u # Author
    BY <2>1 DEF ScoreInv
  <2>4. ASSUME NEW w \in Voters, details'[w] # None PROVE details'[w].score <=> w # Author
    <3>1. CASE w = u
      <4>1. details'[w] = vote[c]
        BY <1>0, <2>2, <3>1 DEF TypeOK
      <4> QED BY <2>3, <3>1, <4>1
    <3>2. CASE w # u
      <4>1. details'[w] = details[w]
        BY <1>0, <2>2, <3>2 DEF TypeOK
      <4>2. details[w].score <=> w # Author
        BY <2>4, <4>1 DEF ScoreInv
      <4> QED BY <4>1, <4>2
    <3> QED BY <3>1, <3>2
  <2>5. ASSUME NEW e \in Consumers, pc'[e] \notin {"waiting", "making"}
        PROVE  /\ vote'[e].score <=> VoterOf(e)' # Author
               /\ prev'[e] # None => (prev'[e].score <=> VoterOf(e)' # Author)
    <3>1. pc[e] \notin {"waiting", "making"} /\ VoterOf(e)' = VoterOf(e)
      BY <1>0, <1>2, <2>1, <2>5 DEF WriteDetails, Goto, TypeOK, VoterOf
    <3>2. /\ vote[e].score <=> VoterOf(e) # Author
          /\ prev[e] # None => (prev[e].score <=> VoterOf(e) # Author)
      BY <3>1 DEF ScoreInv
    <3> QED BY <2>1, <3>1, <3>2
  <2> QED BY <2>4, <2>5 DEF ScoreInv
<1>3. CASE \A c \in Consumers : ~Make(c) /\ ~WriteDetails(c)
  <2>1. UNCHANGED details
    BY <1>3 DEF Next, Process, Start, Undo, Add, Reward, FindNoKarma, SetKarma,
       WriteRelation, UpdateLiked, QueueUpdate, UpdateListing, Ack, Deliver, CastVote, TimeOut, Raise, Kill,
       Publish, LockExpires, Sticky, UpdateQueries, ReadUpdate, SortListing, SortingFails, vars, records
  <2>2. ASSUME NEW c \in Consumers, pc'[c] \notin {"waiting", "making"}
        PROVE  /\ pc[c] \notin {"waiting", "making"}
               /\ vote'[c] = vote[c] /\ prev'[c] = prev[c]
               /\ ~Ack(c) /\ ~TimeOut(c) /\ ~Raise(c) /\ ~Kill(c)
    <3>1. ~Ack(c) /\ ~Requeue(c)
      BY <1>0, <2>2 DEF Ack, Requeue, Goto, TypeOK
    <3>2. ~TimeOut(c) /\ ~Raise(c) /\ ~Kill(c)
      BY <3>1 DEF TimeOut, Raise, Kill, Dies
    <3>3. CASE \E e \in Consumers : Ack(e) \/ TimeOut(e) \/ Raise(e) \/ Kill(e)
      <4>1. PICK e \in Consumers : Ack(e) \/ Requeue(e)
        BY <3>3 DEF TimeOut, Raise, Kill, Dies
      <4>2. e # c
        BY <3>1, <4>1
      <4> QED BY <1>0, <2>2, <3>1, <3>2, <4>1, <4>2 DEF Ack, Requeue, Forget, Goto, TypeOK
    <3>4. CASE \E e \in Consumers :
             Start(e) \/ Undo(e) \/ Add(e) \/ Reward(e) \/ FindNoKarma(e) \/ SetKarma(e)
             \/ WriteRelation(e) \/ UpdateLiked(e) \/ QueueUpdate(e)
      BY <1>0, <2>2, <3>1, <3>2, <3>4 DEF Start, Undo, Add, Reward, FindNoKarma, SetKarma,
         WriteRelation, UpdateLiked, QueueUpdate, UpdateListing, Goto, TypeOK
    <3>5. CASE UNCHANGED <<pc, vote, prev>>
      BY <2>2, <3>1, <3>2, <3>5
    <3>6. (\E e \in Consumers : Deliver(e) \/ Publish(e)) \/ Sticky \/ UpdateQueries
          \/ (\E v \in Voters, d \in Directions : CastVote(v, d))
          \/ (\E v \in Voters : LockExpires(v)) \/ UNCHANGED vars => UNCHANGED <<pc, vote, prev>>
      BY DEF Deliver, Publish, Sticky, UpdateQueries, ReadUpdate, SortListing, SortingFails, CastVote, LockExpires, vars, work
    <3> QED BY <1>3, <3>3, <3>4, <3>5, <3>6 DEF Next, Process
  <2>3. \A c \in Consumers : pc'[c] \notin {"waiting", "making"} => VoterOf(c)' = VoterOf(c)
    BY <1>0, <2>2, SameVoter DEF BusyInv
  <2> QED BY <2>1, <2>2, <2>3, ScoreKept
<1> QED BY <1>1, <1>2, <1>3

\* A vote that counts stays waiting while no message moves and none gets done.
LEMMA WaitsKept ==
    ASSUME Waits, UNCHANGED <<log, ready, held>>,
           \A c \in Consumers : pc'[c] = "acking" => pc[c] = "acking"
    PROVE  Waits'
BY DEF Waits

\* A message put back, sent ahead, published or acknowledged after another keeps the
\* votes that count waiting.
LEMMA WaitsMoved ==
    ASSUME BaseInv, Waits, NEW c \in Consumers,
           Ack(c) \/ Requeue(c) \/ Deliver(c)
    PROVE  Waits'
<1>0. TypeOK /\ BusyInv /\ held[c] \in Seq(1 .. Len(log)) /\ log' = log
  BY DEF BaseInv, TypeOK, Ack, Requeue, Deliver
<1>1. \A e \in Consumers : e # c => held'[e] = held[e] /\ pc'[e] = pc[e]
  BY <1>0 DEF Ack, Requeue, Deliver, Goto, TypeOK, work
<1>2. CASE \E e \in Consumers : e # c /\ \E k \in 1 .. Len(held[e]) :
              log[held[e][k]].voter # Author /\ (k = 1 => pc[e] # "acking")
  BY <1>0, <1>1, <1>2 DEF Waits
<1>3. ASSUME NEW i \in ready, log[i].voter # Author PROVE Waits'
  <2>1. CASE i \in ready'
    BY <1>0, <1>3, <2>1 DEF Waits
  <2>2. CASE i \notin ready'
    <3>1. Deliver(c) /\ i = Min(ready)
      BY <1>3, <2>2 DEF Ack, Requeue, Deliver
    <3>2. i \in 1 .. Len(log) /\ held'[c] = Append(held[c], i) /\ pc'[c] = pc[c]
      BY <1>0, <1>3, <3>1 DEF Deliver, TypeOK, work
    <3> DEFINE k == Len(held[c]) + 1
    <3>3. k \in 1 .. Len(held'[c]) /\ held'[c][k] = i
      BY <1>0, <3>2, AppendProperties
    <3>4. k = 1 => pc'[c] # "acking"
      <4>1. k = 1 => held[c] = <<>>
        BY <1>0
      <4> QED BY <1>0, <3>2, <4>1 DEF BusyInv
    <3> QED BY <1>0, <1>3, <3>3, <3>4 DEF Waits
  <2> QED BY <2>1, <2>2
<1>4. ASSUME NEW k \in 1 .. Len(held[c]), log[held[c][k]].voter # Author, k = 1 => pc[c] # "acking"
      PROVE  Waits'
  <2>1. CASE Deliver(c)
    <3>1. Min(ready) \in 1 .. Len(log)
      <4>1. ready \in SUBSET Nat /\ ready # {} /\ ready \subseteq 1 .. Len(log)
        BY <1>0, <2>1 DEF Deliver, TypeOK
      <4> QED BY <4>1, ReadyMin
    <3>2. held'[c] = Append(held[c], Min(ready)) /\ pc'[c] = pc[c]
      BY <1>0, <2>1 DEF Deliver, TypeOK, work
    <3>3. k \in 1 .. Len(held'[c]) /\ held'[c][k] = held[c][k]
      BY <1>0, <3>1, <3>2, AppendProperties
    <3> QED BY <1>0, <1>4, <3>2, <3>3 DEF Waits
  <2>2. CASE Requeue(c)
    <3>1. held[c][k] \in ready'
      BY <2>2 DEF Requeue, Indices
    <3> QED BY <1>0, <1>4, <3>1 DEF Waits
  <2>3. CASE Ack(c)
    <3>1. k # 1 /\ pc'[c] = "waiting" /\ held'[c] = Tail(held[c])
      BY <1>0, <1>4, <2>3 DEF Ack, Goto, TypeOK
    <3>2. k - 1 \in 1 .. Len(held'[c]) /\ held'[c][k - 1] = held[c][k]
      <4>1. held[c] # <<>>
        BY <1>0
      <4>2. Len(Tail(held[c])) = Len(held[c]) - 1
            /\ \A j \in 1 .. Len(Tail(held[c])) : Tail(held[c])[j] = held[c][j + 1]
        BY <1>0, <4>1, HeadTailProperties
      <4>3. k \in Nat /\ Len(held[c]) \in Nat /\ k - 1 \in 1 .. Len(held[c]) - 1 /\ (k - 1) + 1 = k
        BY <1>0, <3>1
      <4> QED BY <3>1, <4>2, <4>3
    <3> QED BY <1>0, <1>4, <3>1, <3>2 DEF Waits
  <2> QED BY <2>1, <2>2, <2>3
<1> QED BY <1>2, <1>3, <1>4 DEF Waits

\* Every step keeps an update on its way.
LEMMA FollowInductive == BaseInv /\ ScoreInv /\ FollowInv /\ [Next]_vars => FollowInv'
<1> SUFFICES ASSUME BaseInv, ScoreInv, FollowInv, [Next]_vars PROVE FollowInv'
  OBVIOUS
<1>q. queue' = queue
  <2>1. \A c \in Consumers : Process(c) => queue' = queue
    BY DEF Process, Start, Make, Undo, Add, Reward, FindNoKarma, SetKarma,
       WriteRelation, WriteDetails, UpdateLiked, QueueUpdate, UpdateListing, Ack, delivery
  <2>2. \A c \in Consumers : Deliver(c) \/ Publish(c) \/ TimeOut(c) \/ Raise(c) \/ Kill(c)
                             => queue' = queue
    BY DEF Deliver, TimeOut, Raise, Kill, Dies, Requeue, Publish, delivery
  <2>3. (\E u \in Voters, d \in Directions : CastVote(u, d)) \/ (\E u \in Voters : LockExpires(u))
        \/ Sticky \/ UpdateQueries \/ UNCHANGED vars => queue' = queue
    BY DEF CastVote, LockExpires, Sticky, UpdateQueries, ReadUpdate, SortListing, SortingFails, vars, delivery
  <2> QED BY <2>1, <2>2, <2>3 DEF Next
<1>n. NoUpdates'
  <2> SUFFICES ASSUME queue.kind = "comment" PROVE unsent' = {} /\ ~updates' /\ reading' = None
    BY <1>q DEF NoUpdates
  <2>1. unsent = {} /\ ~updates /\ reading = None
    BY DEF FollowInv, NoUpdates
  <2>2. ASSUME NEW c \in Consumers, Process(c) PROVE UNCHANGED <<unsent, updates, reading>>
    BY <2>1, <2>2 DEF Process, Start, Make, Undo, Add, Reward, FindNoKarma, SetKarma, WriteRelation,
       WriteDetails, UpdateLiked, QueueUpdate, UpdateListing, Ack, listings
  <2>3. \A c \in Consumers : Deliver(c) \/ TimeOut(c) => UNCHANGED <<unsent, updates, reading>>
    BY DEF Deliver, TimeOut, listings
  <2>4. ASSUME NEW c \in Consumers, Raise(c) \/ Kill(c)
        PROVE  unsent' = {} /\ ~updates' /\ reading' = None
    <3>0. c \notin unsent
      BY <2>1
    <3>1. /\ unsent' = unsent \ {c} /\ reading' = reading
          /\ updates' = updates \/ updates' = (updates \/ c \in unsent)
      BY <2>4, Zenon DEF Raise, Kill
    <3>2. ~updates'
      BY <2>1, <3>0, <3>1, Zenon
    <3>3. unsent' = {} /\ reading' = None
      BY <2>1, <3>1
    <3> QED BY <3>2, <3>3
  <2>5. \A c \in Consumers : ~Publish(c)
    BY <2>1 DEF Publish
  <2>6. ~UpdateQueries
    BY <2>1 DEF UpdateQueries, ReadUpdate, SortListing, SortingFails
  <2>7. (\E u \in Voters, d \in Directions : CastVote(u, d)) \/ (\E u \in Voters : LockExpires(u))
        \/ Sticky \/ UNCHANGED vars => UNCHANGED <<unsent, updates, reading>>
    BY DEF CastVote, LockExpires, Sticky, vars, listings
  <2>8. CASE UNCHANGED <<unsent, updates, reading>>
    BY <2>1, <2>8, Zenon
  <2>9. CASE \E c \in Consumers : Raise(c) \/ Kill(c)
    BY <2>4, <2>9, Zenon
  <2> QED
    BY <2>2, <2>3, <2>5, <2>6, <2>7, <2>8, <2>9, Zenon DEF Next
<1> SUFFICES ASSUME "kill" \notin queue.faults
             PROVE  Catching'
  BY <1>q, <1>n DEF FollowInv
<1>0. TypeOK /\ BusyInv /\ Catching /\ NoUpdates
  BY DEF BaseInv, FollowInv
\* A message in hand waits until its update is queued.
<1>1. ASSUME NEW c \in Consumers, pc[c] # "waiting", VoterOf(c) # Author,
             UNCHANGED <<log, held>>, pc'[c] # "acking"
      PROVE  Waits'
  <2>1. /\ VoterOf(c) = log[held[c][1]].voter /\ 1 \in 1 .. Len(held[c])
    BY <1>0, <1>1, InHand DEF BusyInv
  <2> QED BY <1>1, <2>1 DEF Waits
<1>2. ASSUME NEW c \in Consumers, Undo(c) \/ Add(c)
      PROVE  Catching'
  <2>1. /\ UNCHANGED <<log, ready, held, updates, unsent, skipped>> /\ Coming' = Coming
        /\ pc[c] \in {"undoing", "adding"} /\ pc' = [pc EXCEPT ![c] = pc'[c]]
        /\ pc'[c] \in {"adding", "rewarding"}
    BY <1>0, <1>2 DEF Undo, Add, Goto, delivery, listings, TypeOK, Coming
  <2>2. CASE VoterOf(c) # Author
    BY <1>1, <2>1, <2>2 DEF Catching
  <2>3. CASE VoterOf(c) = Author
    <3>1. ~vote[c].score /\ (prev[c] # None => ~prev[c].score)
      BY <2>1, <2>3 DEF ScoreInv
    <3>2. \A a \in {"up", "down"} : ~Counted(vote[c], a) /\ ~Counted(prev[c], a)
      BY <3>1 DEF Counted
    <3>3. count' = count
      <4>1. \A a \in {"up", "down"} : count[a] \in Int
        BY <1>0 DEF TypeOK, Counts
      <4>2. count' = [a \in {"up", "down"} |-> count[a]]
        <5>1. CASE Undo(c)
          BY <3>2, <4>1, <5>1 DEF Undo
        <5>2. CASE Add(c)
          BY <3>2, <4>1, <5>2 DEF Add
        <5> QED BY <1>2, <5>1, <5>2
      <4> QED BY <1>0, <4>2 DEF TypeOK, Counts
    <3>4. Waits => Waits'
      BY <1>0, <2>1, WaitsKept DEF TypeOK
    <3> QED BY <1>0, <2>1, <3>3, <3>4 DEF Catching
  <2> QED BY <2>2, <2>3
<1>3. ASSUME NEW c \in Consumers, QueueUpdate(c)
      PROVE  Catching'
  <2>1. /\ UNCHANGED <<log, ready, held, count, updates, reading>> /\ pc[c] = "queueing"
        /\ \A e \in Consumers : e # c => pc'[e] = pc[e]
    BY <1>0, <1>3 DEF QueueUpdate, Goto, delivery, TypeOK
  <2>2. queue.kind \in {"link", "comment"}
    BY <1>0, Parts DEF TypeOK
  <2>3. CASE VoteValid(c) /\ skipped'
    BY <2>3 DEF Catching
  <2>4. CASE VoteValid(c) /\ UpdateListing(c) /\ queue.kind = "link"
    <3>1. c \in unsent'
      BY <2>4 DEF UpdateListing
    <3> QED BY <3>1 DEF Catching
  <2>5. CASE VoteValid(c) /\ UpdateListing(c) /\ queue.kind = "comment"
    <3>1. sorted' = count /\ unsent' = unsent
      BY <2>5 DEF UpdateListing
    <3> QED BY <1>0, <2>1, <2>5, <3>1 DEF Catching, Coming, NoUpdates
  <2>6. CASE ~VoteValid(c)
    <3>1. UNCHANGED <<unsent, sorted, skipped>>
      BY <1>3, <2>6 DEF QueueUpdate
    <3>2. VoterOf(c) = Author
      BY <2>1, <2>6 DEF ScoreInv, VoteValid
    <3>3. VoterOf(c) = log[held[c][1]].voter
      BY <1>0, <2>1, InHand DEF BusyInv
    <3>4. Waits => Waits'
      BY <1>0, <2>1, <3>2, <3>3, <1>3 DEF Waits, QueueUpdate, Goto, TypeOK
    <3> QED BY <1>0, <2>1, <3>1, <3>4 DEF Catching, Coming
  <2> QED BY <1>3, <2>2, <2>3, <2>4, <2>5, <2>6 DEF QueueUpdate
<1>4. ASSUME NEW c \in Consumers, Ack(c) \/ TimeOut(c) \/ Deliver(c)
      PROVE  Catching'
  <2>1. UNCHANGED <<count, listings>>
    BY <1>4 DEF Ack, TimeOut, Deliver, listings
  <2>2. Ack(c) \/ Requeue(c) \/ Deliver(c)
    BY <1>4 DEF TimeOut
  <2>3. Waits => Waits'
    BY <2>2, WaitsMoved
  <2> QED BY <1>0, <2>1, <2>3 DEF Catching, Coming, listings
<1>5. ASSUME NEW c \in Consumers, Raise(c)
      PROVE  Catching'
  <2>1. Requeue(c) /\ UNCHANGED <<count, reading, sorted, skipped>>
        /\ unsent' = unsent \ {c} /\ updates' = (updates \/ c \in unsent)
    BY <1>5 DEF Raise, Dies
  <2>2. Waits => Waits'
    BY <2>1, WaitsMoved
  <2> QED BY <1>0, <2>1, <2>2 DEF Catching, Coming
<1>6. CASE \/ ReadUpdate \/ SortListing \/ SortingFails
           \/ \E c \in Consumers : Publish(c)
  <2>1. CASE SortingFails \/ \E c \in Consumers : Publish(c)
    BY <2>1 DEF SortingFails, Publish, Catching
  <2>2. CASE ReadUpdate
    <3>1. count # None
      BY <1>0, NoneIsNoVote DEF TypeOK
    <3> QED BY <2>2, <3>1 DEF ReadUpdate, Catching, Coming
  <2>3. CASE SortListing
    <3>1. UNCHANGED <<log, ready, held, pc, count, updates, unsent, skipped>> /\ Coming' = Coming
      BY <2>3 DEF SortListing, delivery, work, Coming
    <3>2. Waits => Waits'
      BY <3>1, WaitsKept
    <3> QED BY <1>0, <3>1, <3>2 DEF Catching
  <2> QED BY <1>6, <2>1, <2>2, <2>3
<1>7. ASSUME NEW u \in Voters, NEW d \in Directions, CastVote(u, d)
      PROVE  Catching'
  <2>1. UNCHANGED <<held, pc, count, listings>> /\ ready \subseteq ready'
    BY <1>7 DEF CastVote, work
  <2>2. \A i \in 1 .. Len(log) : log'[i] = log[i]
    BY <1>0, <1>7, AppendProperties DEF CastVote, TypeOK
  <2>3. \A c \in Consumers : \A k \in 1 .. Len(held[c]) : held[c][k] \in 1 .. Len(log)
    BY <1>0 DEF TypeOK
  <2>4. ready \subseteq 1 .. Len(log)
    BY <1>0 DEF TypeOK
  <2>5. Waits => Waits'
    BY <2>1, <2>2, <2>3, <2>4 DEF Waits
  <2> QED BY <1>0, <2>1, <2>5 DEF Catching, Coming, listings
<1>8. CASE \/ \E c \in Consumers :
                 Start(c) \/ Make(c) \/ Reward(c) \/ FindNoKarma(c) \/ SetKarma(c)
                 \/ WriteRelation(c) \/ WriteDetails(c) \/ UpdateLiked(c)
           \/ (\E u \in Voters : LockExpires(u)) \/ Sticky \/ UNCHANGED vars
  <2>1. UNCHANGED <<log, ready, held, count, listings>>
    BY <1>8 DEF Start, Make, Reward, FindNoKarma, SetKarma, WriteRelation, WriteDetails,
       UpdateLiked, LockExpires, Sticky, vars, delivery
  <2>2. \A c \in Consumers : pc'[c] = "acking" => pc[c] = "acking"
    BY <1>0, <1>8 DEF Start, Make, Reward, FindNoKarma, SetKarma, WriteRelation, WriteDetails,
       UpdateLiked, LockExpires, Sticky, vars, work, Goto, TypeOK
  <2>3. Waits => Waits'
    BY <2>1, <2>2, WaitsKept
  <2> QED BY <1>0, <2>1, <2>3 DEF Catching, Coming, listings
<1>9. \A c \in Consumers : ~Kill(c)
  BY DEF Kill
<1> QED
  BY <1>2, <1>3, <1>4, <1>5, <1>6, <1>7, <1>8, <1>9 DEF Next, Process, UpdateQueries

\* Once all is done the author's listing is sorted by the thing's counters, also if
\* consumers raised between counting a vote and queueing the update, or its own
\* consumer had read older counters or failed (voting.py:175-180, :218-252): for any
\* number of consumers, voters and votes, as long as none is killed.
THEOREM ListingsCatchUp == Spec => []ListingsFollow
<1>1. Init => ScoreInv /\ FollowInv
  BY DEF Init, ScoreInv, FollowInv, NoUpdates, Catching, Coming
<1>2. BaseInv /\ FollowInv => ListingsFollow
  <2> SUFFICES ASSUME BaseInv, FollowInv, "kill" \notin queue.faults, Settled, unsent = {}, ~updates,
                      reading = None, ~skipped
               PROVE  sorted = count
    BY DEF ListingsFollow
  <2>1. \A c \in Consumers : Len(held[c]) = 0
    BY DEF Settled
  <2>2. ~Waits
    BY <2>1 DEF Settled, Waits
  <2> QED BY <2>2 DEF FollowInv, Catching, Coming
<1> QED BY BaseInit, BaseInductive, ScoreInductive, FollowInductive, <1>1, <1>2, PTL DEF Spec

\* No queue of comments has a second consumer: they take no lock.
LoneComments == \A q \in Queues : q.kind = "comment" => \E c \in Consumers : q.staff = {c}

\* A consumer of links holds its voter's lock, and what a consumer has read is still
\* what is recorded.
ExclusiveInv == \A c \in Consumers :
    /\ queue.kind = "link" /\ pc[c] \in Locked => lock[VoterOf(c)] = c
    /\ pc[c] \in Midway => prev[c] = details[VoterOf(c)]

\* Two consumers never work on votes of the same account.
LEMMA OneEach ==
    ASSUME LoneComments, BaseInv, ExclusiveInv, NEW c \in Consumers, NEW e \in Consumers,
           pc[c] \in Locked, pc[e] \in Locked, VoterOf(c) = VoterOf(e)
    PROVE  c = e
<1>1. CASE queue.kind = "link"
  BY <1>1 DEF ExclusiveInv
<1>2. CASE queue.kind = "comment"
  <2>1. PICK w \in Consumers : queue.staff = {w}
    BY <1>2 DEF LoneComments, BaseInv, TypeOK
  <2>2. pc[c] # "waiting" /\ pc[e] # "waiting"
    BY DEF Locked, Midway
  <2> QED BY <2>1, <2>2, OnlyOneWorks
<1> QED BY <1>1, <1>2, Parts DEF BaseInv, TypeOK

\* Whoever is under the lock after a step works on the message it had before.
LEMMA LockedVoter ==
    ASSUME BaseInv, [Next]_vars, NEW c \in Consumers, pc'[c] \in Locked
    PROVE  VoterOf(c)' = VoterOf(c) /\ VoterOf(c) \in Voters /\ held[c] # <<>>
<1>0. TypeOK /\ BusyInv /\ pc'[c] # "waiting"
  BY DEF BaseInv, Locked, Midway
<1>1. ~Ack(c) /\ ~Requeue(c)
  BY <1>0 DEF Ack, Requeue, Goto, TypeOK
<1>2. ~TimeOut(c) /\ ~Raise(c) /\ ~Kill(c)
  BY <1>1 DEF TimeOut, Raise, Kill, Dies
<1>3. held[c] # <<>>
  <2>1. CASE pc[c] # "waiting"
    BY <1>0, <2>1 DEF BusyInv
  <2>2. CASE Start(c)
    BY <2>2 DEF Start
  <2>3. ASSUME pc[c] = "waiting", ~Start(c) PROVE pc'[c] = "waiting"
    <3>1. ASSUME NEW e \in Consumers, e # c, Process(e) \/ Requeue(e) PROVE pc'[c] = pc[c]
      BY <1>0, <3>1 DEF Process, Start, Make, Undo, Add, Reward, FindNoKarma, SetKarma,
         WriteRelation, WriteDetails, UpdateLiked, QueueUpdate, UpdateListing, Ack, Requeue, Goto, TypeOK
    <3>2. ~Process(c)
      BY <2>3 DEF Process, Make, Undo, Add, Reward, FindNoKarma, SetKarma,
         WriteRelation, WriteDetails, UpdateLiked, QueueUpdate, UpdateListing, Ack, Goto
    <3>3. \A e \in Consumers : TimeOut(e) \/ Raise(e) \/ Kill(e) => Requeue(e)
      BY DEF TimeOut, Raise, Kill, Dies
    <3>4. (\E e \in Consumers : Deliver(e) \/ Publish(e)) \/ Sticky \/ UpdateQueries
          \/ (\E v \in Voters, d \in Directions : CastVote(v, d))
          \/ (\E v \in Voters : LockExpires(v)) \/ UNCHANGED vars => pc' = pc
      BY DEF Deliver, Publish, Sticky, UpdateQueries, ReadUpdate, SortListing, SortingFails, CastVote, LockExpires, vars, work
    <3> QED BY <1>1, <2>3, <3>1, <3>2, <3>3, <3>4 DEF Next
  <2> QED BY <1>0, <2>1, <2>2, <2>3
<1> QED BY <1>0, <1>1, <1>2, <1>3, SameVoter, InHand

\* Every step keeps the work on one account's votes apart.
LEMMA ExclusiveInductive ==
    ASSUME LoneComments, BaseInv, ExclusiveInv, [Next]_vars
    PROVE  ExclusiveInv'
<1>0. TypeOK /\ BusyInv
  BY DEF BaseInv
<1>q. queue' = queue
  BY DEF Next, Process, Start, Make, Undo, Add, Reward, FindNoKarma, SetKarma,
     WriteRelation, WriteDetails, UpdateLiked, QueueUpdate, UpdateListing, Ack, Deliver, CastVote, TimeOut,
     Raise, Kill, Publish, Requeue, Dies, LockExpires, Sticky, UpdateQueries, ReadUpdate, SortListing, SortingFails, vars, delivery
<1> DEFINE Mine(c) == queue.kind = "link" => lock'[VoterOf(c)] = c
           Fresh(c) == prev'[c] = details'[VoterOf(c)]
<1> SUFFICES ASSUME NEW e \in Consumers
             PROVE  /\ pc'[e] \in Locked => Mine(e)
                    /\ pc'[e] \in Midway => Fresh(e)
  <2>1. \A c \in Consumers : pc'[c] \in Locked => VoterOf(c)' = VoterOf(c)
    BY LockedVoter
  <2>2. Midway \subseteq Locked
    BY DEF Locked
  <2> QED BY <1>q, <2>1, <2>2 DEF ExclusiveInv
<1>v. /\ pc'[e] \in Locked => VoterOf(e) \in Voters
      /\ pc[e] \in Locked /\ queue.kind = "link" => lock[VoterOf(e)] = e
      /\ pc[e] \in Midway => prev[e] = details[VoterOf(e)] /\ pc[e] \in Locked
      /\ pc'[e] \in Midway => pc'[e] \in Locked
      /\ None \notin Consumers /\ Orphan \notin Consumers
  BY LockedVoter, VotingAssumption DEF ExclusiveInv, Locked
<1>1. ASSUME NEW c \in Consumers, Start(c)
      PROVE  (pc'[e] \in Locked => Mine(e)) /\ (pc'[e] \in Midway => Fresh(e))
  <2>1. /\ UNCHANGED <<prev, details>> /\ pc'[c] = "making"
        /\ \A x \in Consumers : x # c => pc'[x] = pc[x]
        /\ VoterOf(c) \in Voters
        /\ queue.kind = "link" =>
              lock[VoterOf(c)] = None /\ lock' = [lock EXCEPT ![VoterOf(c)] = c]
        /\ queue.kind # "link" => lock' = lock
    BY <1>0, <1>1, InHand DEF Start, Goto, TypeOK, records
  <2>2. CASE e = c
    BY <1>0, <2>1, <2>2 DEF Midway, TypeOK
  <2>3. CASE e # c
    <3>1. queue.kind = "link" /\ pc[e] \in Locked => VoterOf(e) # VoterOf(c)
      BY <1>v, <2>1
    <3> QED BY <1>0, <1>v, <2>1, <2>3, <3>1 DEF TypeOK
  <2> QED BY <2>2, <2>3
<1>2. ASSUME NEW c \in Consumers, Make(c)
      PROVE  (pc'[e] \in Locked => Mine(e)) /\ (pc'[e] \in Midway => Fresh(e))
  <2>1. /\ UNCHANGED <<lock, details>> /\ pc[c] = "making" /\ pc[c] \in Locked
        /\ prev'[c] = details[VoterOf(c)]
        /\ \A x \in Consumers : x # c => pc'[x] = pc[x] /\ prev'[x] = prev[x]
    BY <1>0, <1>2 DEF Make, Goto, TypeOK, records, Locked
  <2>2. CASE e = c
    BY <1>v, <2>1, <2>2
  <2>3. CASE e # c
    BY <1>v, <2>1, <2>3
  <2> QED BY <2>2, <2>3
<1>3. ASSUME NEW c \in Consumers, WriteDetails(c)
      PROVE  (pc'[e] \in Locked => Mine(e)) /\ (pc'[e] \in Midway => Fresh(e))
  <2>1. /\ UNCHANGED <<lock, prev>> /\ pc[c] \in Locked /\ pc'[c] = "listing"
        /\ details' = [details EXCEPT ![VoterOf(c)] = vote[c]]
        /\ \A x \in Consumers : x # c => pc'[x] = pc[x]
    BY <1>0, <1>3 DEF WriteDetails, Goto, TypeOK, Locked, Midway
  <2>2. CASE e = c
    BY <1>v, <2>1, <2>2 DEF Midway
  <2>3. CASE e # c
    <3>1. pc[e] \in Locked => VoterOf(e) # VoterOf(c)
      BY <2>1, <2>3, OneEach
    <3> QED BY <1>0, <1>v, <2>1, <2>3, <3>1 DEF TypeOK
  <2> QED BY <2>2, <2>3
<1>4. ASSUME NEW c \in Consumers, UpdateLiked(c) \/ Raise(c) \/ Kill(c)
      PROVE  (pc'[e] \in Locked => Mine(e)) /\ (pc'[e] \in Midway => Fresh(e))
  <2>1. /\ details' = details /\ pc'[c] \notin Locked
        /\ \A x \in Consumers : x # c => pc'[x] = pc[x] /\ prev'[x] = prev[x]
    BY <1>0, <1>4 DEF UpdateLiked, Raise, Kill, Dies, Requeue, Forget, Goto, TypeOK, records,
       Locked, Midway
  <2>2. \A u \in Voters : lock[u] # c => lock'[u] = lock[u]
    BY <1>0, <1>4 DEF UpdateLiked, Raise, Kill, Unlock, TypeOK
  <2>3. CASE e = c
    BY <1>v, <2>1, <2>3
  <2>4. CASE e # c
    BY <1>v, <2>1, <2>2, <2>4
  <2> QED BY <2>3, <2>4
<1>5. ASSUME NEW u \in Voters, LockExpires(u)
      PROVE  (pc'[e] \in Locked => Mine(e)) /\ (pc'[e] \in Midway => Fresh(e))
  <2>1. /\ UNCHANGED <<pc, prev, details>> /\ lock[u] = Orphan
        /\ lock' = [lock EXCEPT ![u] = None]
    BY <1>5 DEF LockExpires, work, records
  <2>2. queue.kind = "link" /\ pc[e] \in Locked => u # VoterOf(e)
    BY <1>v, <2>1
  <2> QED BY <1>0, <1>v, <2>1, <2>2 DEF TypeOK
<1>6. ASSUME UNCHANGED <<lock, details>>, pc'[e] \in Locked => pc[e] \in Locked,
             pc'[e] \in Midway => pc[e] \in Midway /\ prev'[e] = prev[e]
      PROVE  (pc'[e] \in Locked => Mine(e)) /\ (pc'[e] \in Midway => Fresh(e))
  BY <1>v, <1>6
<1>7. ASSUME NEW c \in Consumers,
             Undo(c) \/ Add(c) \/ Reward(c) \/ FindNoKarma(c) \/ SetKarma(c)
             \/ WriteRelation(c) \/ QueueUpdate(c) \/ Ack(c) \/ TimeOut(c)
      PROVE  /\ UNCHANGED <<lock, details>> /\ (pc'[e] \in Locked => pc[e] \in Locked)
             /\ (pc'[e] \in Midway => pc[e] \in Midway /\ prev'[e] = prev[e])
  <2>1. CASE Undo(c) \/ Add(c) \/ Reward(c) \/ FindNoKarma(c) \/ SetKarma(c)
             \/ WriteRelation(c) \/ QueueUpdate(c)
    BY <1>0, <2>1 DEF Undo, Add, Reward, FindNoKarma, SetKarma, WriteRelation, QueueUpdate, UpdateListing,
       Goto, TypeOK, records, Locked, Midway
  <2>2. CASE Ack(c) \/ TimeOut(c)
    <3>1. /\ UNCHANGED <<lock, details>> /\ pc'[c] = "waiting"
          /\ \A x \in Consumers : x # c => pc'[x] = pc[x] /\ prev'[x] = prev[x]
      BY <1>0, <2>2 DEF Ack, TimeOut, Requeue, Forget, Goto, TypeOK, records
    <3>2. "waiting" \notin Locked /\ "waiting" \notin Midway
      BY DEF Locked, Midway
    <3> QED BY <3>1, <3>2
  <2> QED BY <1>7, <2>1, <2>2
<1>8. (\E c \in Consumers : Deliver(c) \/ Publish(c)) \/ Sticky \/ UpdateQueries
      \/ (\E v \in Voters, d \in Directions : CastVote(v, d)) \/ UNCHANGED vars
      => UNCHANGED <<lock, details, pc, prev>>
  BY DEF Deliver, Publish, Sticky, UpdateQueries, ReadUpdate, SortListing, SortingFails, CastVote, vars, work, records
<1> QED
  BY <1>1, <1>2, <1>3, <1>4, <1>5, <1>6, <1>7, <1>8 DEF Next, Process

\* Where the thing has lost the effects of the voter's last vote, and where it has
\* those of the new one.
Taken == {"adding"}
Given == {"rewarding", "setting", "recording", "detailing"}

At(u, steps) == {c \in Consumers : pc[c] \in steps /\ VoterOf(c) = u}

\* The voters whose point the thing's counter a has.
Applied(a) == {u \in Voters :
    \/ \E c \in At(u, Given) : Counted(vote[c], a)
    \/ At(u, Taken \cup Given) = {} /\ Counted(details[u], a)}

DriftInv == \A a \in {"up", "down"} :
    count[a] - Cardinality(Applied(a)) \in -retries .. retries

\* A step of c on v's vote leaves the points of the other voters.
LEMMA OthersKeep ==
    ASSUME NEW c \in Consumers, NEW v \in Voters, NEW a \in {"up", "down"},
           \A u \in Voters : u # v => details'[u] = details[u],
           \A e \in Consumers : e # c => pc'[e] = pc[e] /\ vote'[e] = vote[e],
           \A e \in Consumers : e # c /\ pc[e] \in Taken \cup Given => VoterOf(e)' = VoterOf(e),
           pc[c] \in Taken \cup Given => VoterOf(c) = v,
           pc'[c] \in Taken \cup Given => VoterOf(c)' = v
    PROVE  \A u \in Voters : u # v => (u \in Applied(a)' <=> u \in Applied(a))
<1> SUFFICES ASSUME NEW u \in Voters, u # v PROVE u \in Applied(a)' <=> u \in Applied(a)
  OBVIOUS
<1>1. At(u, Given)' = At(u, Given) /\ At(u, Taken \cup Given)' = At(u, Taken \cup Given)
  BY DEF At
<1>2. \A e \in At(u, Given) : vote'[e] = vote[e]
  <2>1. c \notin At(u, Given)
    BY DEF At
  <2> QED BY <2>1 DEF At
<1>3. (\E e \in At(u, Given) : Counted(vote'[e], a)) <=> (\E e \in At(u, Given) : Counted(vote[e], a))
  BY <1>2
<1>4. u \in Applied(a)' <=> \/ \E e \in At(u, Given)' : Counted(vote'[e], a)
                            \/ At(u, Taken \cup Given)' = {} /\ Counted(details'[u], a)
  BY DEF Applied
<1>5. u \in Applied(a) <=> \/ \E e \in At(u, Given) : Counted(vote[e], a)
                           \/ At(u, Taken \cup Given) = {} /\ Counted(details[u], a)
  BY DEF Applied
<1> QED BY <1>1, <1>3, <1>4, <1>5

\* The point of the voter whose vote c works on.
LEMMA OwnPoint ==
    ASSUME NEW c \in Consumers, NEW a \in {"up", "down"}, VoterOf(c) \in Voters,
           \A e \in Consumers : e # c /\ pc[e] \in Taken \cup Given => VoterOf(e) # VoterOf(c)
    PROVE  /\ pc[c] \in Given => (VoterOf(c) \in Applied(a) <=> Counted(vote[c], a))
           /\ pc[c] \in Taken => VoterOf(c) \notin Applied(a)
           /\ pc[c] \notin Taken \cup Given =>
                 (VoterOf(c) \in Applied(a) <=> Counted(details[VoterOf(c)], a))
<1> DEFINE v == VoterOf(c)
<1>1. At(v, Given) \subseteq {c} /\ At(v, Taken \cup Given) \subseteq {c}
  BY DEF At
<1>2. c \in At(v, Given) <=> pc[c] \in Given
  BY DEF At
<1>3. c \in At(v, Taken \cup Given) <=> pc[c] \in Taken \cup Given
  BY DEF At
<1>4. v \in Applied(a) <=> \/ \E e \in At(v, Given) : Counted(vote[e], a)
                           \/ At(v, Taken \cup Given) = {} /\ Counted(details[v], a)
  BY DEF Applied
<1>5. pc[c] \in Taken => pc[c] \notin Given
  BY DEF Taken, Given
<1>6. CASE pc[c] \in Given
  BY <1>1, <1>2, <1>3, <1>4, <1>5, <1>6
<1>7. CASE pc[c] \in Taken
  BY <1>1, <1>2, <1>3, <1>4, <1>5, <1>7
<1>8. CASE pc[c] \notin Taken \cup Given
  BY <1>1, <1>2, <1>3, <1>4, <1>8
<1> QED BY <1>6, <1>7, <1>8

\* A step that takes nobody over the points where a counter has changed, and no vote
\* there to another voter, leaves the points.
LEMMA PointsKept ==
    ASSUME UNCHANGED <<details, count, retries>>, DriftInv,
           \A e \in Consumers :
              \/ pc[e] \notin Taken \cup Given /\ pc'[e] \notin Taken \cup Given
              \/ /\ pc[e] \in Given <=> pc'[e] \in Given
                 /\ pc[e] \in Taken <=> pc'[e] \in Taken
                 /\ vote'[e] = vote[e] /\ VoterOf(e)' = VoterOf(e)
    PROVE  DriftInv'
<1>1. \A u \in Voters : /\ At(u, Given)' = At(u, Given)
                        /\ At(u, Taken \cup Given)' = At(u, Taken \cup Given)
                        /\ \A e \in At(u, Given) : vote'[e] = vote[e]
  BY DEF At
<1>2. ASSUME NEW a \in {"up", "down"} PROVE Applied(a)' = Applied(a)
  <2>1. ASSUME NEW u \in Voters PROVE u \in Applied(a)' <=> u \in Applied(a)
    <3>1. u \in Applied(a)' <=> \/ \E e \in At(u, Given)' : Counted(vote'[e], a)
                                \/ At(u, Taken \cup Given)' = {} /\ Counted(details'[u], a)
      BY DEF Applied
    <3>2. u \in Applied(a) <=> \/ \E e \in At(u, Given) : Counted(vote[e], a)
                               \/ At(u, Taken \cup Given) = {} /\ Counted(details[u], a)
      BY DEF Applied
    <3>3. (\E e \in At(u, Given) : Counted(vote'[e], a))
          <=> (\E e \in At(u, Given) : Counted(vote[e], a))
      BY <1>1
    <3> QED BY <1>1, <3>1, <3>2, <3>3
  <2>2. Applied(a) \subseteq Voters /\ Applied(a)' \subseteq Voters
    BY DEF Applied
  <2> QED BY <2>1, <2>2
<1> QED BY <1>2 DEF DriftInv

\* How many points there are when one voter's is taken off or put on.
LEMMA OnePoint ==
    ASSUME IsFiniteSet(Voters), NEW a \in {"up", "down"}, NEW v \in Voters,
           \A u \in Voters : u # v => (u \in Applied(a)' <=> u \in Applied(a))
    PROVE  /\ Cardinality(Applied(a)) \in Nat /\ Cardinality(Applied(a))' \in Nat
           /\ (v \in Applied(a)' <=> v \in Applied(a)) =>
                 Cardinality(Applied(a))' = Cardinality(Applied(a))
           /\ v \in Applied(a) /\ v \notin Applied(a)' =>
                 Cardinality(Applied(a))' = Cardinality(Applied(a)) - 1
           /\ v \notin Applied(a) /\ v \in Applied(a)' =>
                 Cardinality(Applied(a))' = Cardinality(Applied(a)) + 1
<1> DEFINE S == Applied(a)
           T == Applied(a)'
<1>1. S \subseteq Voters /\ T \subseteq Voters
  BY DEF Applied
<1>2. IsFiniteSet(S) /\ IsFiniteSet(T)
  BY <1>1, FS_Subset
<1>3. Cardinality(S) \in Nat /\ Cardinality(T) \in Nat
  BY <1>2, FS_CardinalityType
<1>4. (v \in T <=> v \in S) => T = S
  BY <1>1
<1>5. v \in S /\ v \notin T => T = S \ {v}
  BY <1>1
<1>6. v \notin S /\ v \in T => T = S \cup {v}
  BY <1>1
<1>7. v \in S => Cardinality(S \ {v}) = Cardinality(S) - 1
  BY <1>2, FS_RemoveElement
<1>8. v \notin S => Cardinality(S \cup {v}) = Cardinality(S) + 1
  BY <1>2, FS_AddElement
<1> QED BY <1>3, <1>4, <1>5, <1>6, <1>7, <1>8

\* The same after the step, for a voter who is the voter of c's vote then.
LEMMA OwnPointAfter ==
    ASSUME NEW c \in Consumers, NEW a \in {"up", "down"}, NEW v \in Voters,
           pc'[c] \in Taken \cup Given => VoterOf(c)' = v,
           \A e \in Consumers : e # c /\ pc'[e] \in Taken \cup Given => VoterOf(e)' # v
    PROVE  /\ pc'[c] \in Given => (v \in Applied(a)' <=> Counted(vote'[c], a))
           /\ pc'[c] \in Taken => v \notin Applied(a)'
           /\ pc'[c] \notin Taken \cup Given => (v \in Applied(a)' <=> Counted(details'[v], a))
<1>1. At(v, Given)' \subseteq {c} /\ At(v, Taken \cup Given)' \subseteq {c}
  BY DEF At
<1>2. c \in At(v, Given)' <=> pc'[c] \in Given
  BY DEF At
<1>3. c \in At(v, Taken \cup Given)' <=> pc'[c] \in Taken \cup Given
  BY DEF At
<1>4. v \in Applied(a)' <=> \/ \E e \in At(v, Given)' : Counted(vote'[e], a)
                            \/ At(v, Taken \cup Given)' = {} /\ Counted(details'[v], a)
  BY DEF Applied
<1>5. pc'[c] \in Taken => pc'[c] \notin Given
  BY DEF Taken, Given
<1>6. CASE pc'[c] \in Given
  BY <1>1, <1>2, <1>3, <1>4, <1>5, <1>6
<1>7. CASE pc'[c] \in Taken
  BY <1>1, <1>2, <1>3, <1>4, <1>5, <1>7
<1>8. CASE pc'[c] \notin Taken \cup Given
  BY <1>1, <1>2, <1>3, <1>4, <1>8
<1> QED BY <1>6, <1>7, <1>8

\* A counter and its points move together, or one death lets them part by one.
LEMMA DriftBounds ==
    ASSUME NEW n \in Int, NEW m \in Int, NEW k \in Nat, NEW l \in Nat, NEW r \in Nat, NEW s \in Nat,
           n - k \in -r .. r,
           \/ m - l = n - k /\ s = r
           \/ m = n /\ l - k \in -1 .. 1 /\ s = r + 1
    PROVE  m - l \in -s .. s
OBVIOUS

\* Every step keeps each counter near its points.
LEMMA DriftInductive ==
    ASSUME IsFiniteSet(Voters), LoneComments, BaseInv, BaseInv', ExclusiveInv, DriftInv,
           [Next]_vars
    PROVE  DriftInv'
<1>0. TypeOK /\ BusyInv /\ TypeOK'
  BY DEF BaseInv
<1>t. \A s : s \in Taken \cup Given => s \in Locked
  BY DEF Taken, Given, Locked, Midway
\* What the steps on one account's vote have in common.
<1>1. ASSUME NEW c \in Consumers, pc[c] \in Locked, VoterOf(c) \in Voters,
             UNCHANGED <<log, held>>,
             \A e \in Consumers : e # c => pc'[e] = pc[e] /\ vote'[e] = vote[e],
             \A u \in Voters : u # VoterOf(c) => details'[u] = details[u]
      PROVE  /\ \A e \in Consumers : e # c /\ pc[e] \in Taken \cup Given => VoterOf(e) # VoterOf(c)
             /\ VoterOf(c)' = VoterOf(c)
             /\ \A e \in Consumers :
                   e # c /\ pc'[e] \in Taken \cup Given => VoterOf(e)' # VoterOf(c)
             /\ \A a \in {"up", "down"}, u \in Voters :
                   u # VoterOf(c) => (u \in Applied(a)' <=> u \in Applied(a))
  <2>1. \A e \in Consumers : e # c /\ pc[e] \in Taken \cup Given => VoterOf(e) # VoterOf(c)
    BY <1>1, <1>t, OneEach
  <2>2. \A e \in Consumers : VoterOf(e)' = VoterOf(e)
    BY <1>1 DEF VoterOf
  <2>3. ASSUME NEW a \in {"up", "down"}
        PROVE  \A u \in Voters : u # VoterOf(c) => (u \in Applied(a)' <=> u \in Applied(a))
    BY <1>1, <2>2, OthersKeep
  <2> QED BY <1>1, <2>1, <2>2, <2>3
<1>2. ASSUME NEW c \in Consumers, Undo(c) PROVE DriftInv'
  <2> DEFINE v == VoterOf(c)
  <2>1. /\ pc[c] = "undoing" /\ pc[c] \in Midway /\ pc[c] \in Locked
        /\ pc[c] \notin Taken \cup Given /\ pc'[c] \in Taken
        /\ UNCHANGED <<log, held, vote, details, retries>>
        /\ \A e \in Consumers : e # c => pc'[e] = pc[e]
    BY <1>0, <1>2 DEF Undo, Goto, TypeOK, delivery, records, Midway, Locked, Taken, Given
  <2>2. v \in Voters
    BY <1>0, <2>1, InHand DEF BusyInv
  <2>3. /\ \A e \in Consumers : e # c /\ pc[e] \in Taken \cup Given => VoterOf(e) # v
        /\ VoterOf(c)' = v
        /\ \A e \in Consumers : e # c /\ pc'[e] \in Taken \cup Given => VoterOf(e)' # v
        /\ \A a \in {"up", "down"}, u \in Voters : u # v => (u \in Applied(a)' <=> u \in Applied(a))
    BY <1>1, <2>1, <2>2
  <2>4. prev[c] = details[v]
    BY <2>1 DEF ExclusiveInv
  <2>5. ASSUME NEW a \in {"up", "down"}
        PROVE  count'[a] - Cardinality(Applied(a)') \in -retries' .. retries'
    <3>1. v \in Applied(a) <=> Counted(prev[c], a)
      BY <2>1, <2>2, <2>3, <2>4, OwnPoint
    <3>2. v \notin Applied(a)'
      BY <2>1, <2>2, <2>3, OwnPointAfter
    <3>3. count'[a] = count[a] - (IF Counted(prev[c], a) THEN 1 ELSE 0)
      BY <1>2 DEF Undo
    <3>4. Cardinality(Applied(a)) \in Nat /\ Cardinality(Applied(a)') \in Nat
          /\ Cardinality(Applied(a)') =
                Cardinality(Applied(a)) - (IF Counted(prev[c], a) THEN 1 ELSE 0)
      BY <2>2, <2>3, <3>1, <3>2, OnePoint
    <3>5. count[a] \in Int /\ count'[a] \in Int /\ retries \in Nat
      BY <1>0 DEF TypeOK, Counts
    <3>6. count[a] - Cardinality(Applied(a)) \in -retries .. retries
      BY DEF DriftInv
    <3>7. count'[a] - Cardinality(Applied(a)') = count[a] - Cardinality(Applied(a))
      BY <3>3, <3>4, <3>5
    <3> QED BY <2>1, <3>6, <3>7
  <2> QED BY <2>5 DEF DriftInv
<1>3. ASSUME NEW c \in Consumers, Add(c) PROVE DriftInv'
  <2> DEFINE v == VoterOf(c)
  <2>1. /\ pc[c] \in Taken /\ pc[c] \in Locked /\ pc'[c] \in Given
        /\ UNCHANGED <<log, held, vote, details, retries>> /\ pc[c] # "waiting"
        /\ \A e \in Consumers : e # c => pc'[e] = pc[e]
    BY <1>0, <1>3 DEF Add, Goto, TypeOK, delivery, records, Midway, Locked, Taken, Given
  <2>2. v \in Voters
    BY <1>0, <2>1, InHand DEF BusyInv
  <2>3. /\ \A e \in Consumers : e # c /\ pc[e] \in Taken \cup Given => VoterOf(e) # v
        /\ VoterOf(c)' = v
        /\ \A e \in Consumers : e # c /\ pc'[e] \in Taken \cup Given => VoterOf(e)' # v
        /\ \A a \in {"up", "down"}, u \in Voters : u # v => (u \in Applied(a)' <=> u \in Applied(a))
    BY <1>1, <2>1, <2>2
  <2>5. ASSUME NEW a \in {"up", "down"}
        PROVE  count'[a] - Cardinality(Applied(a)') \in -retries' .. retries'
    <3>1. v \notin Applied(a)
      BY <2>1, <2>2, <2>3, OwnPoint
    <3>2. v \in Applied(a)' <=> Counted(vote[c], a)
      BY <2>1, <2>2, <2>3, OwnPointAfter
    <3>3. count'[a] = count[a] + (IF Counted(vote[c], a) THEN 1 ELSE 0)
      BY <1>3 DEF Add
    <3>4. Cardinality(Applied(a)) \in Nat /\ Cardinality(Applied(a)') \in Nat
          /\ Cardinality(Applied(a)') =
                Cardinality(Applied(a)) + (IF Counted(vote[c], a) THEN 1 ELSE 0)
      BY <2>2, <2>3, <3>1, <3>2, OnePoint
    <3>5. count[a] \in Int /\ count'[a] \in Int /\ retries \in Nat
      BY <1>0 DEF TypeOK, Counts
    <3>6. count[a] - Cardinality(Applied(a)) \in -retries .. retries
      BY DEF DriftInv
    <3>7. count'[a] - Cardinality(Applied(a)') = count[a] - Cardinality(Applied(a))
      BY <3>3, <3>4, <3>5
    <3> QED BY <2>1, <3>6, <3>7
  <2> QED BY <2>5 DEF DriftInv
<1>4. ASSUME NEW c \in Consumers, WriteDetails(c) PROVE DriftInv'
  <2> DEFINE v == VoterOf(c)
  <2>1. /\ pc[c] \in Given /\ pc[c] \in Locked /\ pc'[c] \notin Taken \cup Given
        /\ UNCHANGED <<log, held, vote, count, retries>> /\ pc[c] # "waiting"
        /\ \A e \in Consumers : e # c => pc'[e] = pc[e]
        /\ details' = [details EXCEPT ![v] = vote[c]]
    BY <1>0, <1>4 DEF WriteDetails, Goto, TypeOK, delivery, Midway, Locked, Taken, Given
  <2>2. v \in Voters
    BY <1>0, <2>1, InHand DEF BusyInv
  <2>3. details'[v] = vote[c] /\ \A u \in Voters : u # v => details'[u] = details[u]
    BY <1>0, <2>1, <2>2 DEF TypeOK
  <2>4. /\ \A e \in Consumers : e # c /\ pc[e] \in Taken \cup Given => VoterOf(e) # v
        /\ VoterOf(c)' = v
        /\ \A e \in Consumers : e # c /\ pc'[e] \in Taken \cup Given => VoterOf(e)' # v
        /\ \A a \in {"up", "down"}, u \in Voters : u # v => (u \in Applied(a)' <=> u \in Applied(a))
    BY <1>1, <2>1, <2>2, <2>3
  <2>5. ASSUME NEW a \in {"up", "down"}
        PROVE  count'[a] - Cardinality(Applied(a)') \in -retries' .. retries'
    <3>1. v \in Applied(a) <=> Counted(vote[c], a)
      BY <2>1, <2>2, <2>4, OwnPoint
    <3>2. v \in Applied(a)' <=> Counted(vote[c], a)
      BY <2>1, <2>2, <2>3, <2>4, OwnPointAfter
    <3>3. Cardinality(Applied(a)') = Cardinality(Applied(a))
      BY <2>2, <2>4, <3>1, <3>2, OnePoint
    <3> QED BY <2>1, <3>3 DEF DriftInv
  <2> QED BY <2>5 DEF DriftInv
<1>5. ASSUME NEW c \in Consumers, Raise(c) \/ Kill(c) PROVE DriftInv'
  <2> DEFINE v == VoterOf(c)
  <2>1. /\ pc[c] # "waiting" /\ pc'[c] = "waiting"
        /\ UNCHANGED <<log, count, details>> /\ retries' = retries + 1
        /\ \A e \in Consumers : e # c => pc'[e] = pc[e] /\ vote'[e] = vote[e] /\ held'[e] = held[e]
    BY <1>0, <1>5 DEF Raise, Kill, Dies, Requeue, Forget, TypeOK, records
  <2>2. v \in Voters /\ pc'[c] \notin Taken \cup Given
    BY <1>0, <2>1, InHand DEF BusyInv, Taken, Given
  <2>3. \A e \in Consumers : e # c => VoterOf(e)' = VoterOf(e)
    BY <2>1 DEF VoterOf
  <2>4. ASSUME NEW a \in {"up", "down"}
        PROVE  count'[a] - Cardinality(Applied(a)') \in -retries' .. retries'
    <3>1. \A u \in Voters : u # v => (u \in Applied(a)' <=> u \in Applied(a))
      BY <2>1, <2>2, <2>3, OthersKeep
    <3>2. /\ Cardinality(Applied(a)) \in Nat /\ Cardinality(Applied(a)') \in Nat
          /\ Cardinality(Applied(a)') - Cardinality(Applied(a)) \in -1 .. 1
      <4>1. /\ Cardinality(Applied(a)) \in Nat /\ Cardinality(Applied(a)') \in Nat
            /\ (v \in Applied(a)' <=> v \in Applied(a)) =>
                  Cardinality(Applied(a)') = Cardinality(Applied(a))
            /\ v \in Applied(a) /\ v \notin Applied(a)' =>
                  Cardinality(Applied(a)') = Cardinality(Applied(a)) - 1
            /\ v \notin Applied(a) /\ v \in Applied(a)' =>
                  Cardinality(Applied(a)') = Cardinality(Applied(a)) + 1
        BY <2>2, <3>1, OnePoint
      <4> QED BY <4>1
    <3>3. count[a] \in Int /\ count'[a] = count[a] /\ retries \in Nat
      BY <1>0, <2>1 DEF TypeOK, Counts
    <3>4. count[a] - Cardinality(Applied(a)) \in -retries .. retries
      BY DEF DriftInv
    <3> QED BY <2>1, <3>2, <3>3, <3>4, DriftBounds
  <2> QED BY <2>4 DEF DriftInv
<1>6. ASSUME NEW c \in Consumers,
             Start(c) \/ Make(c) \/ Reward(c) \/ FindNoKarma(c) \/ SetKarma(c)
             \/ WriteRelation(c) \/ UpdateLiked(c) \/ QueueUpdate(c)
      PROVE  DriftInv'
  <2>1. /\ UNCHANGED <<log, held, details, count, retries>>
        /\ \A e \in Consumers : e # c => pc'[e] = pc[e] /\ vote'[e] = vote[e]
    BY <1>0, <1>6 DEF Start, Make, Reward, FindNoKarma, SetKarma, WriteRelation, UpdateLiked,
       QueueUpdate, UpdateListing, Goto, TypeOK, delivery, records
  <2>2. \/ pc[c] \notin Taken \cup Given /\ pc'[c] \notin Taken \cup Given
        \/ /\ pc[c] \in Given /\ pc'[c] \in Given /\ vote'[c] = vote[c]
           /\ pc[c] \notin Taken /\ pc'[c] \notin Taken
    BY <1>0, <1>6 DEF Start, Make, Reward, FindNoKarma, SetKarma, WriteRelation, UpdateLiked,
       QueueUpdate, UpdateListing, Goto, TypeOK, Taken, Given
  <2>3. \A e \in Consumers : VoterOf(e)' = VoterOf(e)
    BY <2>1 DEF VoterOf
  <2> QED BY <2>1, <2>2, <2>3, PointsKept
<1>7. ASSUME NEW c \in Consumers, Ack(c) \/ TimeOut(c) PROVE DriftInv'
  <2>1. /\ UNCHANGED <<log, details, count, retries>>
        /\ pc'[c] = "waiting" /\ pc[c] \in {"waiting", "acking"}
        /\ \A e \in Consumers : e # c => pc'[e] = pc[e] /\ vote'[e] = vote[e] /\ held'[e] = held[e]
    BY <1>0, <1>7 DEF Ack, TimeOut, Requeue, Forget, Goto, TypeOK, records
  <2>2. pc[c] \notin Taken \cup Given /\ pc'[c] \notin Taken \cup Given
    BY <2>1 DEF Taken, Given
  <2>3. \A e \in Consumers : e # c => VoterOf(e)' = VoterOf(e)
    BY <2>1 DEF VoterOf
  <2> QED BY <2>1, <2>2, <2>3, PointsKept
<1>8. CASE \/ \E c \in Consumers : Deliver(c) \/ Publish(c)
           \/ \E u \in Voters, d \in Directions : CastVote(u, d)
           \/ \E u \in Voters : LockExpires(u)
           \/ Sticky \/ UpdateQueries \/ UNCHANGED vars
  <2>1. UNCHANGED <<pc, vote, details, count, retries>>
    BY <1>8 DEF Deliver, Publish, CastVote, LockExpires, Sticky, UpdateQueries, ReadUpdate, SortListing, SortingFails, vars, work,
       records
  <2>2. ASSUME NEW e \in Consumers, pc[e] \in Taken \cup Given PROVE VoterOf(e)' = VoterOf(e)
    <3>1. pc'[e] \in Locked
      BY <1>t, <2>1, <2>2
    <3> QED BY <3>1, LockedVoter
  <2> QED BY <2>1, <2>2, PointsKept
<1> QED
  BY <1>2, <1>3, <1>4, <1>5, <1>6, <1>7, <1>8 DEF Next, Process

\* Where no effect is partly applied, each of the thing's counters is the number of
\* recorded votes that count, off by no more than the number of consumers that died:
\* for any finite number of voters, any number of consumers of a link's votes and one
\* of a comment's.
THEOREM CountersAreVotes ==
    ASSUME IsFiniteSet(Voters), LoneComments
    PROVE  Spec => []DriftIsBounded
<1>1. Init => ExclusiveInv /\ DriftInv
  <2> SUFFICES ASSUME Init PROVE ExclusiveInv /\ DriftInv
    OBVIOUS
  <2>1. /\ \A c \in Consumers : pc[c] = "waiting"
        /\ \A u \in Voters : details[u] = None
        /\ \A a \in {"up", "down"} : count[a] = 0
        /\ retries = 0
    BY DEF Init
  <2>2. \A a \in {"up", "down"} : Applied(a) = {}
    BY <2>1 DEF Applied, At, Taken, Given, Counted
  <2>3. \A a \in {"up", "down"} : Cardinality(Applied(a)) = 0
    BY <2>2, FS_EmptySet
  <2> QED BY <2>1, <2>3 DEF ExclusiveInv, DriftInv, Locked, Midway
<1>2. DriftInv => DriftIsBounded
  <2> SUFFICES ASSUME DriftInv, Between, NEW a \in {"up", "down"}
               PROVE  count[a] - Cardinality(Recorded(a)) \in -retries .. retries
    BY DEF DriftIsBounded
  <2>1. \A c \in Consumers : pc[c] \notin Taken \cup Given
    BY DEF Between, Taken, Given
  <2>2. \A u \in Voters : At(u, Given) = {} /\ At(u, Taken \cup Given) = {}
    BY <2>1 DEF At
  <2>3. Applied(a) = Recorded(a)
    BY <2>2 DEF Applied, Recorded
  <2> QED BY <2>3 DEF DriftInv
<1>3. BaseInv /\ BaseInv' /\ ExclusiveInv /\ DriftInv /\ [Next]_vars => ExclusiveInv' /\ DriftInv'
  BY ExclusiveInductive, DriftInductive
<1> QED BY BaseInit, BaseInductive, <1>1, <1>2, <1>3, PTL DEF Spec

-----------------------------------------------------------------------------
\* The sum of a function's values over a finite set.

OneOf(s) == CHOOSE x \in s : TRUE

\* f[s] is the sum of g's values over s, for the subsets s of S.
IsSum(f, g, S) ==
    f = [s \in SUBSET S |-> IF s = {} THEN 0 ELSE g[OneOf(s)] + f[s \ {OneOf(s)}]]

\* A nonempty subset loses one element to the sum.
LEMMA Smaller ==
    ASSUME NEW S, IsFiniteSet(S), NEW s \in SUBSET S
    PROVE  /\ Cardinality(s) \in Nat /\ Cardinality(s) <= Cardinality(S)
           /\ s # {} => /\ OneOf(s) \in s /\ s \ {OneOf(s)} \in SUBSET S
                        /\ Cardinality(s \ {OneOf(s)}) = Cardinality(s) - 1
<1>1. IsFiniteSet(s) /\ Cardinality(s) <= Cardinality(S)
  BY FS_Subset
<1>2. s # {} => OneOf(s) \in s
  BY DEF OneOf
<1> QED BY <1>1, <1>2, FS_CardinalityType, FS_RemoveElement

\* What holds of {} and of a set when it holds of the set without one element, holds
\* of every subset: P is the set of the subsets it holds of.
LEMMA SubsetInduction ==
    ASSUME NEW S, IsFiniteSet(S), NEW P,
           {} \in P,
           \A s \in SUBSET S : s # {} /\ s \ {OneOf(s)} \in P => s \in P
    PROVE  \A s \in SUBSET S : s \in P
<1> DEFINE T == {n \in Nat : \E s \in SUBSET S : s \notin P /\ Cardinality(s) = n}
<1>1. SUFFICES ASSUME T # {} PROVE FALSE
  <2>1. SUFFICES ASSUME NEW s \in SUBSET S, s \notin P PROVE T # {}
    BY <2>1
  <2>2. Cardinality(s) \in T
    BY <2>1, Smaller
  <2> QED BY <2>2
<1>2. T \subseteq Nat
  OBVIOUS
<1> HIDE DEF T
<1>3. PICK n \in T : \A k \in T : <<k, n>> \notin OpToRel(<, Nat)
  BY <1>1, <1>2, WFMin, NatLessThanWellFounded, Zenon
<1>l. \A k \in T : ~(k < n)
  BY <1>2, <1>3 DEF OpToRel
<1> USE DEF T
<1>4. PICK s \in SUBSET S : s \notin P /\ Cardinality(s) = n
  BY <1>3
<1>5. s # {} /\ s \ {OneOf(s)} \in SUBSET S /\ Cardinality(s \ {OneOf(s)}) = n - 1
  BY <1>4, Smaller
<1>n. n \in Nat /\ n - 1 \in Nat
  <2>1. \A t \in SUBSET S : Cardinality(t) \in Nat
    BY Smaller
  <2> HIDE DEF T
  <2> QED BY <1>4, <1>5, <2>1
<1>6. n - 1 \notin T
  BY <1>l, <1>n
<1>7. s \ {OneOf(s)} \in P
  BY <1>5, <1>6, <1>n
<1> QED BY <1>4, <1>5, <1>7

\* There is such a function.
LEMMA SumExists ==
    ASSUME NEW S, IsFiniteSet(S), NEW g
    PROVE  \E f : IsSum(f, g, S)
<1> DEFINE Small(n) == {s \in SUBSET S : Cardinality(s) <= n}
           Upto(f, n) == f = [s \in Small(n) |->
                               IF s = {} THEN 0 ELSE g[OneOf(s)] + f[s \ {OneOf(s)}]]
           T == {n \in Nat : ~ \E f : Upto(f, n)}
<1>1. \A s \in SUBSET S : Cardinality(s) \in Nat
  BY Smaller
<1>2. Small(0) = {{}}
  <2>1. \A s \in SUBSET S : Cardinality(s) <= 0 <=> s = {}
    BY <1>1, FS_EmptySet, FS_Subset
  <2> QED BY <2>1
<1>3. 0 \notin T
  <2>1. Upto([s \in {{}} |-> 0], 0)
    BY <1>2
  <2> QED BY <2>1
<1>4. ASSUME NEW n \in Nat, n \notin T PROVE n + 1 \notin T
  <2>1. PICK f : Upto(f, n)
    BY <1>4
  <2> DEFINE h == [s \in Small(n + 1) |->
                     IF s \in Small(n) THEN f[s] ELSE g[OneOf(s)] + f[s \ {OneOf(s)}]]
  <2>2. ASSUME NEW s \in Small(n + 1)
        PROVE  h[s] = IF s = {} THEN 0 ELSE g[OneOf(s)] + h[s \ {OneOf(s)}]
    <3>0. {} \in Small(n)
      BY <1>4, FS_EmptySet
    <3>1. s # {} => s \ {OneOf(s)} \in Small(n) /\ s \ {OneOf(s)} \in Small(n + 1)
      BY <1>1, <1>4, Smaller
    <3>2. s # {} => h[s \ {OneOf(s)}] = f[s \ {OneOf(s)}]
      BY <3>1
    <3>3. s \in Small(n) => f[s] = IF s = {} THEN 0 ELSE g[OneOf(s)] + f[s \ {OneOf(s)}]
      BY <2>1
    <3>4. h[s] = IF s \in Small(n) THEN f[s] ELSE g[OneOf(s)] + f[s \ {OneOf(s)}]
      OBVIOUS
    <3> QED BY <3>0, <3>2, <3>3, <3>4
  <2>3. Upto(h, n + 1)
    BY <2>2
  <2> QED BY <2>3
<1>5. T = {}
  <2>1. T \subseteq Nat
    OBVIOUS
  <2> HIDE DEF T
  <2>2. SUFFICES ASSUME T # {} PROVE FALSE
    OBVIOUS
  <2>3. PICK n \in T : \A k \in T : <<k, n>> \notin OpToRel(<, Nat)
    BY <2>1, <2>2, WFMin, NatLessThanWellFounded, Zenon
  <2>4. n \in Nat /\ n # 0
    BY <1>3, <2>1, <2>3
  <2>l. \A k \in T : ~(k < n)
    BY <2>1, <2>3 DEF OpToRel
  <2>5. n - 1 \in Nat /\ n - 1 \notin T
    BY <2>4, <2>l
  <2>6. (n - 1) + 1 \notin T /\ (n - 1) + 1 = n
    BY <1>4, <2>4, <2>5
  <2> QED BY <2>3, <2>6
<1>6. Cardinality(S) \in Nat /\ Small(Cardinality(S)) = SUBSET S
  <2>1. \A s \in SUBSET S : Cardinality(s) <= Cardinality(S)
    BY Smaller
  <2> QED BY <2>1, FS_CardinalityType
<1>7. PICK f : Upto(f, Cardinality(S))
  BY <1>5, <1>6
<1> QED BY <1>6, <1>7 DEF IsSum


\* Zeros add up to zero.
LEMMA SumOfZeros ==
    ASSUME NEW S, IsFiniteSet(S), NEW g, \A u \in S : g[u] = 0,
           NEW f, IsSum(f, g, S)
    PROVE  f[S] = 0
<1> DEFINE P == {s \in SUBSET S : f[s] = 0}
<1>1. \A s \in SUBSET S :
         f[s] = IF s = {} THEN 0 ELSE g[OneOf(s)] + f[s \ {OneOf(s)}]
  BY DEF IsSum
<1>2. {} \in P
  BY <1>1
<1>3. ASSUME NEW s \in SUBSET S, s # {}, s \ {OneOf(s)} \in P PROVE s \in P
  <2>1. OneOf(s) \in S
    BY <1>3, Smaller
  <2>2. f[s] = g[OneOf(s)] + f[s \ {OneOf(s)}]
    BY <1>1, <1>3
  <2> QED BY <1>3, <2>1, <2>2
<1> HIDE DEF P
<1>4. \A s \in SUBSET S : s \in P
  BY <1>2, <1>3, SubsetInduction
<1> QED BY <1>4 DEF P

\* A change of one value changes the sum by as much.
LEMMA SumChanges ==
    ASSUME NEW S, IsFiniteSet(S), NEW g \in [S -> Int], NEW h \in [S -> Int],
           NEW v \in S, NEW d \in Int,
           h[v] = g[v] + d, \A u \in S : u # v => h[u] = g[u],
           NEW f, IsSum(f, g, S), NEW k, IsSum(k, h, S)
    PROVE  f[S] \in Int /\ k[S] = f[S] + d
<1> DEFINE P == {s \in SUBSET S : f[s] \in Int /\ k[s] = f[s] + (IF v \in s THEN d ELSE 0)}
<1>1. \A s \in SUBSET S :
         /\ f[s] = IF s = {} THEN 0 ELSE g[OneOf(s)] + f[s \ {OneOf(s)}]
         /\ k[s] = IF s = {} THEN 0 ELSE h[OneOf(s)] + k[s \ {OneOf(s)}]
  BY DEF IsSum
<1>2. {} \in P
  <2>1. f[{}] = 0 /\ k[{}] = 0
    BY <1>1
  <2> QED BY <2>1
<1>3. ASSUME NEW s \in SUBSET S, s # {}, s \ {OneOf(s)} \in P PROVE s \in P
  <2> DEFINE x == OneOf(s)
             r == s \ {x}
  <2>1. x \in s /\ x \in S
    BY <1>3, Smaller
  <2>2. f[s] = g[x] + f[r] /\ k[s] = h[x] + k[r]
    BY <1>1, <1>3
  <2>3. f[r] \in Int /\ k[r] = f[r] + (IF v \in r THEN d ELSE 0)
    BY <1>3
  <2> HIDE DEF x, r
  <2>4. g[x] \in Int /\ h[x] = g[x] + (IF x = v THEN d ELSE 0)
    BY <2>1
  <2>5. v \in s <=> v \in r \/ x = v
    BY <2>1 DEF r
  <2>6. ~(v \in r /\ x = v)
    BY DEF r
  <2>7. f[s] \in Int
    BY <2>2, <2>3, <2>4
  <2>8. k[s] = f[s] + (IF v \in s THEN d ELSE 0)
    BY <2>2, <2>3, <2>4, <2>5, <2>6
  <2> QED BY <2>7, <2>8
<1> HIDE DEF P
<1>4. \A s \in SUBSET S : s \in P
  BY <1>2, <1>3, SubsetInduction
<1> QED BY <1>4 DEF P

-----------------------------------------------------------------------------
\* Karma.

\* What is recorded of a vote agrees with the karma n its voter has given: no vote has
\* given none, and a vote that moves karma is all that its voter has given.
Agrees(n, p) == (p = None => n = 0) /\ (p # None /\ p.karma => n = KarmaOf(p))

Rewarded == {"recording", "detailing"}

PointsGiven ==
    /\ \A u \in Voters : given[u] \in {-1, 0, 1}
    /\ \A u \in Voters :
          (\A c \in Consumers : pc[c] \in Rewarded => VoterOf(c) # u) =>
              Agrees(given[u], details[u])
    /\ \A c \in Consumers :
          /\ pc[c] \in Rewarded => Agrees(given[VoterOf(c)], vote[c])
          /\ pc[c] \in Midway /\ vote[c].karma /\ prev[c] # None => prev[c].karma

\* While no consumer has died.
PointInv == retries = 0 => PointsGiven

\* A vote's karma is a point at most.
LEMMA OnePointEach ==
    ASSUME TypeOK, NEW c \in Consumers
    PROVE  /\ KarmaOf(vote[c]) \in {-1, 0, 1} /\ KarmaOf(prev[c]) \in {-1, 0, 1}
           /\ KarmaChange(c) \in Int
           /\ vote[c].karma => KarmaChange(c) = KarmaOf(vote[c]) - KarmaOf(prev[c])
           /\ ~vote[c].karma => KarmaChange(c) = 0
           /\ vote[c] # None /\ vote[c].karma \in BOOLEAN
           /\ KarmaOf(None) = 0
<1>1. \A p : KarmaOf(p) \in {-1, 0, 1}
  BY DEF KarmaOf
<1>2. vote[c] \in Vote
  BY DEF TypeOK
<1> QED BY <1>1, <1>2, NoneIsNoVote, Parts DEF KarmaChange, KarmaOf

\* A step that changes neither the points nor the records keeps this.
LEMMA PointInvKept ==
    ASSUME PointsGiven, BaseInv, [Next]_vars, UNCHANGED <<given, details>>,
           \A e \in Consumers :
              /\ pc'[e] \in Rewarded <=> pc[e] \in Rewarded
              /\ pc'[e] \in Rewarded => vote'[e] = vote[e]
              /\ pc'[e] \in Midway /\ vote'[e].karma /\ prev'[e] # None =>
                    \/ prev'[e].karma
                    \/ pc[e] \in Midway /\ vote'[e] = vote[e] /\ prev'[e] = prev[e]
    PROVE  PointsGiven'
<1>1. \A e \in Consumers : pc'[e] \in Rewarded => VoterOf(e)' = VoterOf(e)
  <2>1. Rewarded \subseteq Locked
    BY DEF Rewarded, Locked, Midway
  <2> QED BY <2>1, LockedVoter
<1>2. \A u \in Voters :
         (\A c \in Consumers : pc'[c] \in Rewarded => VoterOf(c)' # u) =>
             Agrees(given'[u], details'[u])
  BY <1>1 DEF PointsGiven
<1>3. \A e \in Consumers :
         /\ pc'[e] \in Rewarded => Agrees(given'[VoterOf(e)'], vote'[e])
         /\ pc'[e] \in Midway /\ vote'[e].karma /\ prev'[e] # None => prev'[e].karma
  BY <1>1 DEF PointsGiven
<1>4. \A n, p : Agrees(n, p)' <=> Agrees(n, p)
  BY DEF Agrees, KarmaOf
<1> QED BY <1>2, <1>3 DEF PointsGiven, Agrees, KarmaOf

\* Every step keeps the points given what the records say.
LEMMA PointInductive ==
    ASSUME LoneComments, BaseInv, BaseInv', ExclusiveInv, PointInv, [Next]_vars
    PROVE  PointInv'
<1>0. TypeOK /\ BusyInv /\ TypeOK'
  BY DEF BaseInv
<1>1. SUFFICES ASSUME retries' = 0 PROVE PointsGiven'
  BY DEF PointInv
<1>2. ASSUME NEW c \in Consumers, Raise(c) \/ Kill(c) PROVE FALSE
  BY <1>0, <1>1, <1>2 DEF Raise, Kill, Dies, TypeOK
<1>3. retries = 0 /\ PointsGiven
  <2>1. (\A c \in Consumers : ~Raise(c) /\ ~Kill(c)) => retries' = retries
    BY DEF Next, Process, Start, Make, Undo, Add, Reward, FindNoKarma, SetKarma,
       WriteRelation, WriteDetails, UpdateLiked, QueueUpdate, UpdateListing, Ack, Deliver, CastVote, TimeOut,
       Publish, LockExpires, Sticky, UpdateQueries, ReadUpdate, SortListing, SortingFails, vars
  <2> QED BY <1>1, <1>2, <2>1 DEF PointInv
<1>s. Rewarded \subseteq Locked /\ Rewarded \subseteq Midway /\ Midway \subseteq Locked
  BY DEF Rewarded, Locked, Midway
\* What a step that ends in, or comes from, the rewarded votes has to show.
<1>4. ASSUME NEW c \in Consumers, pc[c] \in Midway, UNCHANGED <<log, held, vote, prev>>,
             \A e \in Consumers : e # c => pc'[e] = pc[e],
             \A u \in Voters : u # VoterOf(c) => given'[u] = given[u] /\ details'[u] = details[u],
             given'[VoterOf(c)] \in {-1, 0, 1},
             pc'[c] \in Rewarded => Agrees(given'[VoterOf(c)], vote[c]),
             pc'[c] \notin Rewarded => Agrees(given'[VoterOf(c)], details'[VoterOf(c)])
      PROVE  PointsGiven'
  <2>1. \A e \in Consumers : VoterOf(e)' = VoterOf(e)
    BY <1>4 DEF VoterOf
  <2>2. \A e \in Consumers : e # c /\ pc[e] \in Rewarded => VoterOf(e) # VoterOf(c)
    BY <1>4, <1>s, OneEach
  <2>3. \A e \in Consumers : pc[e] \in Rewarded => VoterOf(e) \in Voters
    BY <1>0, <1>s, InHand DEF BusyInv, Rewarded
  <2>4. ASSUME NEW u \in Voters,
               \A e \in Consumers : pc'[e] \in Rewarded => VoterOf(e) # u
        PROVE  Agrees(given'[u], details'[u])
    <3>1. CASE u = VoterOf(c)
      BY <1>4, <2>4, <3>1
    <3>2. CASE u # VoterOf(c)
      <4>1. \A e \in Consumers : pc[e] \in Rewarded => VoterOf(e) # u
        BY <1>4, <2>4, <3>2
      <4> QED BY <1>3, <1>4, <3>2, <4>1 DEF PointsGiven
    <3> QED BY <3>1, <3>2
  <2>5. ASSUME NEW e \in Consumers
        PROVE  /\ pc'[e] \in Rewarded => Agrees(given'[VoterOf(e)], vote'[e])
               /\ pc'[e] \in Midway /\ vote'[e].karma /\ prev'[e] # None => prev'[e].karma
    <3>1. CASE e = c
      BY <1>3, <1>4, <3>1 DEF PointsGiven
    <3>2. CASE e # c
      BY <1>3, <1>4, <2>2, <2>3, <3>2 DEF PointsGiven
    <3> QED BY <3>1, <3>2
  <2>6. \A u \in Voters : given'[u] \in {-1, 0, 1}
    BY <1>3, <1>4 DEF PointsGiven
  <2> QED BY <2>1, <2>4, <2>5, <2>6 DEF PointsGiven, Agrees, KarmaOf
<1>5. ASSUME NEW c \in Consumers, Reward(c) \/ SetKarma(c) PROVE PointsGiven'
  <2> DEFINE v == VoterOf(c)
  <2>1. /\ pc[c] \in {"rewarding", "setting"} /\ pc'[c] = "recording"
        /\ UNCHANGED <<log, held, vote, prev, details>>
        /\ \A e \in Consumers : e # c => pc'[e] = pc[e]
        /\ given' = [given EXCEPT ![v] = @ + KarmaChange(c)]
    BY <1>0, <1>5 DEF Reward, SetKarma, Goto, TypeOK, delivery, records
  <2>2. /\ pc[c] \in Midway /\ pc[c] \notin Rewarded /\ pc'[c] \in Rewarded
        /\ v \in Voters /\ prev[c] = details[v]
    BY <1>0, <2>1, InHand DEF Midway, Rewarded, BusyInv, ExclusiveInv
  <2>3. Agrees(given[v], prev[c]) /\ given[v] \in {-1, 0, 1}
    <3>1. \A e \in Consumers : pc[e] \in Rewarded => VoterOf(e) # v
      BY <1>s, <2>2, OneEach
    <3> QED BY <1>3, <2>2, <3>1 DEF PointsGiven
  <2>4. vote[c].karma => given[v] = KarmaOf(prev[c])
    <3>1. vote[c].karma /\ prev[c] # None => prev[c].karma
      BY <1>3, <2>2 DEF PointsGiven
    <3> QED BY <1>0, <2>3, <3>1, OnePointEach DEF Agrees
  <2>5. /\ given'[v] = given[v] + KarmaChange(c)
        /\ \A u \in Voters : u # v => given'[u] = given[u]
    BY <1>0, <2>1, <2>2 DEF TypeOK
  <2>6. /\ vote[c].karma => given'[v] = KarmaOf(vote[c])
        /\ ~vote[c].karma => given'[v] = given[v]
    BY <1>0, <2>3, <2>4, <2>5, OnePointEach
  <2>7. given'[v] \in {-1, 0, 1} /\ Agrees(given'[v], vote[c])
    BY <1>0, <2>3, <2>6, OnePointEach DEF Agrees
  <2> QED BY <1>4, <2>1, <2>2, <2>5, <2>7
<1>6. ASSUME NEW c \in Consumers, WriteDetails(c) PROVE PointsGiven'
  <2> DEFINE v == VoterOf(c)
  <2>1. /\ pc[c] = "detailing" /\ pc'[c] = "listing"
        /\ UNCHANGED <<log, held, vote, prev, given>>
        /\ \A e \in Consumers : e # c => pc'[e] = pc[e]
        /\ details' = [details EXCEPT ![v] = vote[c]]
    BY <1>0, <1>6 DEF WriteDetails, Goto, TypeOK, delivery
  <2>2. /\ pc[c] \in Midway /\ pc[c] \in Rewarded /\ pc'[c] \notin Rewarded /\ v \in Voters
    BY <1>0, <2>1, InHand DEF Midway, Rewarded, BusyInv
  <2>3. /\ details'[v] = vote[c]
        /\ \A u \in Voters : u # v => details'[u] = details[u]
    BY <1>0, <2>1, <2>2 DEF TypeOK
  <2>4. given[v] \in {-1, 0, 1} /\ Agrees(given[v], vote[c])
    BY <1>3, <2>2 DEF PointsGiven
  <2> QED BY <1>4, <2>1, <2>2, <2>3, <2>4
<1>7. ASSUME NEW c \in Consumers, Make(c) PROVE PointsGiven'
  <2>1. /\ UNCHANGED <<given, details>> /\ pc[c] = "making" /\ pc'[c] \in {"listing", "undoing"}
        /\ \A e \in Consumers : e # c => pc'[e] = pc[e] /\ vote'[e] = vote[e] /\ prev'[e] = prev[e]
        /\ prev'[c] = details[VoterOf(c)]
        /\ vote'[c].karma = AffectsKarma(VoterOf(c), details[VoterOf(c)])
    BY <1>0, <1>7 DEF Make, Goto, TypeOK, records
  <2>2. vote'[c].karma /\ prev'[c] # None => prev'[c].karma
    BY <2>1 DEF AffectsKarma
  <2> QED BY <1>3, <2>1, <2>2, PointInvKept DEF Rewarded
<1>8. ASSUME NEW c \in Consumers,
             Start(c) \/ Undo(c) \/ Add(c) \/ FindNoKarma(c) \/ WriteRelation(c)
             \/ UpdateLiked(c) \/ QueueUpdate(c) \/ Ack(c) \/ TimeOut(c)
      PROVE  PointsGiven'
  <2>1. /\ UNCHANGED <<given, details>>
        /\ \A e \in Consumers : e # c => pc'[e] = pc[e] /\ vote'[e] = vote[e] /\ prev'[e] = prev[e]
    BY <1>0, <1>8 DEF Start, Undo, Add, FindNoKarma, WriteRelation, UpdateLiked, QueueUpdate, UpdateListing,
       Ack, TimeOut, Requeue, Forget, Goto, TypeOK, records
  <2>2. \/ pc[c] \notin Rewarded /\ pc'[c] \notin Rewarded /\ pc'[c] \notin Midway
        \/ /\ pc[c] \in Midway /\ pc'[c] \in Midway /\ vote'[c] = vote[c] /\ prev'[c] = prev[c]
           /\ pc[c] \in Rewarded <=> pc'[c] \in Rewarded
    BY <1>0, <1>8 DEF Start, Undo, Add, FindNoKarma, WriteRelation, UpdateLiked, QueueUpdate, UpdateListing,
       Ack, TimeOut, Requeue, Goto, TypeOK, Rewarded, Midway
  <2> QED BY <1>3, <1>s, <2>1, <2>2, PointInvKept
<1>9. CASE \/ \E c \in Consumers : Deliver(c) \/ Publish(c)
           \/ \E u \in Voters, d \in Directions : CastVote(u, d)
           \/ \E u \in Voters : LockExpires(u)
           \/ Sticky \/ UpdateQueries \/ UNCHANGED vars
  <2>1. UNCHANGED <<pc, vote, prev, details, given>>
    BY <1>9 DEF Deliver, Publish, CastVote, LockExpires, Sticky, UpdateQueries, ReadUpdate, SortListing, SortingFails, vars, work,
       records
  <2> QED BY <1>3, <2>1, PointInvKept
<1> QED
  BY <1>2, <1>5, <1>6, <1>7, <1>8, <1>9 DEF Next, Process

-----------------------------------------------------------------------------
\* The sum.

\* What the voters have given.
Points == MapThenSumSet(LAMBDA u : given[u], Voters)

\* Nobody has given anything.
LEMMA NoPoints ==
    ASSUME IsFiniteSet(Voters), \A u \in Voters : given[u] = 0
    PROVE  Points = 0
<1> DEFINE f == CHOOSE x : IsSum(x, given, Voters)
<1>1. IsSum(f, given, Voters)
  BY SumExists
<1>2. Points = f[Voters]
  BY DEF Points, MapThenSumSet, MapThenFoldSet, IsSum, OneOf
<1> HIDE DEF f
<1> QED BY <1>1, <1>2, SumOfZeros

\* A voter gives d more.
LEMMA PointsMoved ==
    ASSUME IsFiniteSet(Voters), given \in [Voters -> Int], NEW v \in Voters, NEW d \in Int,
           given' \in [Voters -> Int], given'[v] = given[v] + d,
           \A u \in Voters : u # v => given'[u] = given[u]
    PROVE  Points \in Int /\ Points' = Points + d
<1> DEFINE f == CHOOSE x : IsSum(x, given, Voters)
           k == CHOOSE x : IsSum(x, given', Voters)
<1>2. IsSum(f, given, Voters)
  BY SumExists
<1>3. IsSum(k, given', Voters)
  BY SumExists
<1>4. Points = f[Voters]
  BY DEF Points, MapThenSumSet, MapThenFoldSet, IsSum, OneOf
<1>5. Points' = k[Voters]
  BY DEF Points, MapThenSumSet, MapThenFoldSet, IsSum, OneOf
<1> HIDE DEF f, k
<1> QED BY <1>2, <1>3, <1>4, <1>5, SumChanges

\* With one consumer: while the vault has no karma nobody has given any, and nobody
\* sets it once it is there.
SumInv == OneConsumer =>
    /\ karma = None => \A u \in Voters : given[u] = 0
    /\ \A c \in Consumers : pc[c] = "setting" => karma = None
    /\ karma # None => karma = DefaultKarma + Points

\* Every step keeps the sum.
LEMMA SumInductive ==
    ASSUME IsFiniteSet(Voters), BaseInv, BaseInv', SumInv, [Next]_vars
    PROVE  SumInv'
<1>0. TypeOK /\ BusyInv /\ TypeOK' /\ DefaultKarma \in Int /\ None \notin Int
  BY VotingAssumption DEF BaseInv
<1>q. queue' = queue
  BY DEF Next, Process, Start, Make, Undo, Add, Reward, FindNoKarma, SetKarma,
     WriteRelation, WriteDetails, UpdateLiked, QueueUpdate, UpdateListing, Ack, Deliver, CastVote, TimeOut,
     Raise, Kill, Publish, Requeue, Dies, LockExpires, Sticky, UpdateQueries, ReadUpdate, SortListing, SortingFails, vars, delivery
<1>1. SUFFICES ASSUME NEW w \in Consumers, queue.staff = {w}
               PROVE  /\ karma' = None => \A u \in Voters : given'[u] = 0
                      /\ \A c \in Consumers : pc'[c] = "setting" => karma' = None
                      /\ karma' # None => karma' = DefaultKarma + Points'
  BY <1>q DEF SumInv, OneConsumer
<1>2. /\ karma = None => \A u \in Voters : given[u] = 0
      /\ \A c \in Consumers : pc[c] = "setting" => karma = None
      /\ karma # None => karma = DefaultKarma + Points
  BY <1>1 DEF SumInv, OneConsumer
<1>3. \A c, e \in Consumers : pc[c] # "waiting" /\ pc[e] # "waiting" => c = e
  BY <1>1, OnlyOneWorks
<1> DEFINE Goal == /\ karma' = None => \A u \in Voters : given'[u] = 0
                   /\ \A c \in Consumers : pc'[c] = "setting" => karma' = None
                   /\ karma' # None => karma' = DefaultKarma + Points'
<1>4. ASSUME NEW c \in Consumers, Reward(c) \/ SetKarma(c) PROVE Goal
  <2> DEFINE v == VoterOf(c)
             d == KarmaChange(c)
  <2>1. /\ pc[c] # "waiting" /\ pc'[c] = "recording"
        /\ \A e \in Consumers : e # c => pc'[e] = pc[e]
        /\ given' = [given EXCEPT ![v] = @ + d]
    BY <1>0, <1>4 DEF Reward, SetKarma, Goto, TypeOK
  <2>2. v \in Voters /\ d \in Int
    BY <1>0, <2>1, InHand, OnePointEach DEF BusyInv
  <2>3. /\ given \in [Voters -> Int] /\ given' \in [Voters -> Int]
        /\ given'[v] = given[v] + d
        /\ \A u \in Voters : u # v => given'[u] = given[u]
    BY <1>0, <2>1, <2>2 DEF TypeOK
  <2>4. Points \in Int /\ Points' = Points + d
    <3> HIDE DEF v, d
    <3> QED BY <2>2, <2>3, PointsMoved
  <2>5. \A e \in Consumers : pc'[e] # "setting"
    BY <1>3, <2>1
  <2>6. CASE SetKarma(c)
    <3>1. karma = None /\ karma' = DefaultKarma + d
      BY <1>2, <2>6 DEF SetKarma, Goto
    <3>2. Points = 0
      BY <1>2, <3>1, NoPoints
    <3> HIDE DEF d
    <3> QED BY <1>0, <2>2, <2>4, <2>5, <3>1, <3>2
  <2>7. CASE Reward(c) /\ karma = None
    <3>1. karma' = None /\ d = 0
      BY <2>7 DEF Reward
    <3>2. \A u \in Voters : given'[u] = 0
      BY <1>2, <2>2, <2>3, <2>7, <3>1
    <3> QED BY <2>5, <3>1, <3>2
  <2>8. CASE Reward(c) /\ karma # None
    <3>1. karma \in Int /\ karma' = karma + d
      <4>1. karma \in Int
        BY <1>0, <2>8 DEF TypeOK
      <4> QED BY <2>2, <2>8, <4>1 DEF Reward
    <3>2. karma = DefaultKarma + Points
      BY <1>2, <2>8
    <3> HIDE DEF d
    <3> QED BY <1>0, <2>2, <2>4, <2>5, <3>1, <3>2
  <2> QED BY <1>4, <2>6, <2>7, <2>8
<1>5. ASSUME UNCHANGED <<karma, given>>,
             \A e \in Consumers : pc'[e] = "setting" => pc[e] = "setting" \/ karma = None
      PROVE  Goal
  <2>1. Points' = Points
    BY <1>5 DEF Points, MapThenSumSet, MapThenFoldSet
  <2> QED BY <1>2, <1>5, <2>1
<1>6. ASSUME NEW c \in Consumers,
             \/ Start(c) \/ Make(c) \/ Undo(c) \/ Add(c) \/ FindNoKarma(c) \/ WriteRelation(c)
             \/ WriteDetails(c) \/ UpdateLiked(c) \/ QueueUpdate(c) \/ Ack(c) \/ TimeOut(c)
             \/ Raise(c) \/ Kill(c) \/ Deliver(c) \/ Publish(c)
      PROVE  Goal
  <2>1. /\ UNCHANGED <<karma, given>>
        /\ \A e \in Consumers : pc'[e] = "setting" => pc[e] = "setting" \/ karma = None
    BY <1>0, <1>6 DEF Start, Make, Undo, Add, FindNoKarma, WriteRelation, WriteDetails,
       UpdateLiked, QueueUpdate, UpdateListing, Ack, TimeOut, Raise, Kill, Dies, Requeue, Deliver, Publish,
       Goto, TypeOK, work
  <2> QED BY <1>5, <2>1
<1>7. CASE \/ \E u \in Voters, d \in Directions : CastVote(u, d)
           \/ \E u \in Voters : LockExpires(u)
           \/ Sticky \/ UpdateQueries \/ UNCHANGED vars
  <2>1. UNCHANGED <<pc, karma, given>>
    BY <1>7 DEF CastVote, LockExpires, Sticky, UpdateQueries, ReadUpdate, SortListing, SortingFails, vars, work
  <2> QED BY <1>5, <2>1
<1> QED
  BY <1>4, <1>6, <1>7 DEF Next, Process

\* While no consumer has died, a voter moves the author's karma by one point at most,
\* also when the comment becomes or stops being the sticky between two of its votes;
\* and with one consumer the karma is the default and all the points given, whatever
\* was delivered again: for any finite number of voters.
THEOREM KarmaIsGiven ==
    ASSUME IsFiniteSet(Voters), LoneComments
    PROVE  Spec => []KarmaAddsUp
<1>1. Init => ExclusiveInv /\ PointInv /\ SumInv
  <2> SUFFICES ASSUME Init PROVE ExclusiveInv /\ PointInv /\ SumInv
    OBVIOUS
  <2>1. /\ \A c \in Consumers : pc[c] = "waiting"
        /\ \A u \in Voters : details[u] = None /\ given[u] = 0
        /\ karma = None
    BY DEF Init
  <2> QED BY <2>1 DEF ExclusiveInv, PointInv, PointsGiven, Agrees, Rewarded, SumInv, Locked,
             Midway
<1>2. PointInv /\ SumInv => KarmaAddsUp
  BY DEF PointInv, PointsGiven, SumInv, Points, KarmaAddsUp
<1>3. BaseInv /\ BaseInv' /\ ExclusiveInv /\ PointInv /\ SumInv /\ [Next]_vars
         => ExclusiveInv' /\ PointInv' /\ SumInv'
  BY ExclusiveInductive, PointInductive, SumInductive
<1> QED BY BaseInit, BaseInductive, <1>1, <1>2, <1>3, PTL DEF Spec

=============================================================================
