------------------------------- MODULE Voting -------------------------------
(***************************************************************************)
(* The votes on one link or one comment: r2/lib/voting.py on               *)
(* r2/models/vote.py.                                                      *)
(*                                                                         *)
(* A request only queues its vote.  The consumers of vote_link_q (or       *)
(* vote_comment_q) read the voter's recorded vote, take its effects off    *)
(* the thing, put the new one's on, change the author's karma, record the  *)
(* vote and, for a link, update the voter's liked and disliked listings.   *)
(* An exception ends the consumer and RabbitMQ delivers its messages       *)
(* again.  One increment of a thing is one step here: ThingStore shows why *)
(* that is so.  Of the three listings a link's vote has updated, each by a *)
(* queue and a consumer of its own, the author's is modelled.              *)
(***************************************************************************)
EXTENDS Integers, Sequences, FiniteSets, FiniteSetsExt

CONSTANTS
    Voters,         \* accounts that vote on the thing
    Author,         \* who posted it
    Consumers,      \* processes that may consume its queue
    None,           \* no vote recorded, no lock held, no karma in this vault
    Orphan,         \* the lock's owner is dead
    DefaultKarma,   \* what Account.karma answers before the first change
    Queues          \* the queues the thing's votes may go to

\* A queue: of links or of comments, its consumers, how many messages RabbitMQ
\* sends ahead to one, how a consumer may end, and, as bounds, how many votes are
\* cast and how many consumers die while they work.
Queue == [kind : {"link", "comment"}, staff : SUBSET Consumers, prefetch : Nat \ {0},
          faults : SUBSET {"raise", "kill"}, votes : Nat, deaths : Nat]

ASSUME VotingAssumption ==
    /\ Author \in Voters /\ None \notin Consumers /\ Orphan \notin Consumers
    /\ Orphan # None /\ None \notin Int
    /\ \A q \in Queues : q \in Queue
    /\ DefaultKarma \in Nat

VARIABLES
    queue,      \* the queue its votes go to, the same all along
    log,        \* history: the votes published so far, in the queue's order
    ready,      \* indices of log RabbitMQ has not delivered
    held,       \* held[c]: indices delivered to c and not acknowledged, as delivered
    lock,       \* lock[u]: who holds make_lock("voting", "vote-u-thing")
    pc,         \* where c is with its first message
    prev,       \* prev[c]: vote.previous_vote
    vote,       \* vote[c]: the vote c is processing
    count,      \* count[a]: votes counted on the thing (its _ups and _downs,
                \* without the one point it is created with)
    karma,      \* the author's karma in the thing's vault
    sticky,     \* the comment is the link's sticky
    rel,        \* rel[u]: u's column of VotesByAccount
    details,    \* details[u]: u's column of VoteDetailsByThing
    listed,     \* listed[d]: voters whose liked / disliked listing has the thing
    unsent,     \* consumers whose worker thread has yet to publish an update
    updates,    \* author_query_q holds an update for the thing
    reading,    \* the counts its consumer has read and not yet sorted by, or None
    sorted,     \* the counts the author's listing last sorted the thing by
    skipped,    \* history: the last vote that should have updated the listing did
                \* not, because it saw the thing removed
    retries,    \* consumers that died while they worked
    given       \* history: given[u] is what u's votes added to karma

delivery == <<queue, log, ready, held>>
work == <<pc, prev, vote>>
records == <<rel, details>>
listings == <<unsent, updates, reading, sorted, skipped>>
vars == <<delivery, lock, work, count, karma, sticky, records, listed, listings,
          retries, given>>

Directions == {"up", "down", "unvote"}
Vote == [dir : Directions, score : BOOLEAN, karma : BOOLEAN]
Blank == [dir |-> "unvote", score |-> FALSE, karma |-> FALSE]
Message == [voter : Voters, dir : Directions]

Counts == [{"up", "down"} -> Int]

ASSUME NoneIsNoVote == None \notin Vote /\ None \notin Counts

\* Submitting the thing casts its author's vote (link.py:292, :1463).
Init ==
    /\ queue \in Queues
    /\ log = << [voter |-> Author, dir |-> "up"] >>
    /\ ready = {1}
    /\ held = [c \in Consumers |-> <<>>]
    /\ lock = [u \in Voters |-> None]
    /\ pc = [c \in Consumers |-> "waiting"]
    /\ prev = [c \in Consumers |-> None]
    /\ vote = [c \in Consumers |-> Blank]
    /\ count = [a \in {"up", "down"} |-> 0]
    /\ karma = None
    /\ sticky = FALSE
    /\ rel = [u \in Voters |-> None]
    /\ details = [u \in Voters |-> None]
    /\ listed = [d \in {"up", "down"} |-> {}]
    /\ unsent = {} /\ updates = FALSE /\ reading = None
    /\ sorted = count
    /\ skipped = FALSE
    /\ retries = 0
    /\ given = [u \in Voters |-> 0]

Goto(c, from, to) == pc[c] = from /\ pc' = [pc EXCEPT ![c] = to]

VoterOf(c) == log[Head(held[c])].voter

-----------------------------------------------------------------------------
\* The request, the queue, and the moderators.

\* Mutant: the message is numbered after it is published.
CastVote_Late(u, d) ==
    /\ Len(log) < queue.votes
    /\ log' = Append(log, [voter |-> u, dir |-> d])
    /\ ready' = ready \cup {Len(log') + 1}
    /\ UNCHANGED <<queue, held, lock, work, count, karma, sticky, records, listed, listings,
                   retries, given>>

\* cast_vote: the message is published; the copy of the direction kept in
\* memcached for the voter's own pages is left out.
CastVote(u, d) ==
    /\ Len(log) < queue.votes
    /\ log' = Append(log, [voter |-> u, dir |-> d])
    /\ ready' = ready \cup {Len(log) + 1}
    /\ UNCHANGED <<queue, held, lock, work, count, karma, sticky, records, listed, listings,
                   retries, given>>

\* RabbitMQ sends its oldest message; a consumer works in the order of delivery.
Deliver(c) ==
    /\ c \in queue.staff /\ ready # {} /\ Len(held[c]) < queue.prefetch
    /\ held' = [held EXCEPT ![c] = Append(@, Min(ready))]
    /\ ready' = ready \ {Min(ready)}
    /\ UNCHANGED <<queue, log, lock, work, count, karma, sticky, records, listed, listings,
                   retries, given>>

\* A moderator makes the comment the link's sticky, or another one.
Sticky ==
    /\ queue.kind = "comment"
    /\ sticky' = ~sticky
    /\ UNCHANGED <<delivery, lock, work, count, karma, records, listed, listings,
                   retries, given>>

-----------------------------------------------------------------------------
\* The consumer.

\* Mutant: links are processed without the lock too.
Start_Unlocked(c) ==
    /\ held[c] # <<>>
    /\ Goto(c, "waiting", "making")
    /\ UNCHANGED <<delivery, lock, prev, vote, count, karma, sticky, records, listed,
                   listings, retries, given>>

\* The consumer of links works under a lock per voter and thing.
Start(c) ==
    /\ held[c] # <<>>
    /\ Goto(c, "waiting", "making")
    /\ IF queue.kind = "link"
       THEN lock[VoterOf(c)] = None /\ lock' = [lock EXCEPT ![VoterOf(c)] = c]
       ELSE UNCHANGED lock
    /\ UNCHANGED <<delivery, prev, vote, count, karma, sticky, records, listed, listings,
                   retries, given>>

\* VoteEffects.determine_affects_score, without a validator.
AffectsScore(u, p) == ~(u = Author /\ p = None) /\ (p # None => p.score)

\* Mutant: only the present state of the comment decides.
AffectsKarma_Present(u, p) == AffectsScore(u, p) /\ ~sticky

\* VoteEffects.determine_affects_karma.
AffectsKarma(u, p) ==
    AffectsScore(u, p) /\ (p # None => p.karma) /\ ~sticky

\* Vote.__init__ reads the previous vote; commit() returns at once if it has
\* the same direction.
Make(c) ==
    LET u == VoterOf(c)
        p == details[u]
        d == log[Head(held[c])].dir
    IN  /\ Goto(c, "making", IF p # None /\ p.dir = d THEN "listing" ELSE "undoing")
        /\ prev' = [prev EXCEPT ![c] = p]
        /\ vote' = [vote EXCEPT ![c] =
                      [dir |-> d, score |-> AffectsScore(u, p), karma |-> AffectsKarma(u, p)]]
        /\ UNCHANGED <<delivery, lock, count, karma, sticky, records, listed, listings,
                       retries, given>>

\* Vote.affected_thing_attr
Counted(v, a) == v # None /\ v.score /\ v.dir = a

\* apply_effects, one _incr after the other.
Undo(c) ==
    /\ Goto(c, "undoing", "adding")
    /\ count' = [a \in {"up", "down"} |-> count[a] - (IF Counted(prev[c], a) THEN 1 ELSE 0)]
    /\ UNCHANGED <<delivery, lock, prev, vote, karma, sticky, records, listed, listings,
                   retries, given>>

Add(c) ==
    /\ Goto(c, "adding", "rewarding")
    /\ count' = [a \in {"up", "down"} |-> count[a] + (IF Counted(vote[c], a) THEN 1 ELSE 0)]
    /\ UNCHANGED <<delivery, lock, prev, vote, karma, sticky, records, listed, listings,
                   retries, given>>

\* VoteEffects.karma_change
KarmaOf(v) ==
    IF v = None \/ ~v.karma THEN 0
    ELSE CASE v.dir = "up" -> 1 [] v.dir = "down" -> -1 [] OTHER -> 0

KarmaChange(c) == IF vote[c].karma THEN KarmaOf(vote[c]) - KarmaOf(prev[c]) ELSE 0

\* No change of karma, or one to a karma the author has: an increment.
Reward(c) ==
    /\ KarmaChange(c) = 0 \/ karma # None
    /\ Goto(c, "rewarding", "recording")
    /\ karma' = IF KarmaChange(c) = 0 THEN karma ELSE karma + KarmaChange(c)
    /\ given' = [given EXCEPT ![VoterOf(c)] = @ + KarmaChange(c)]
    /\ UNCHANGED <<delivery, lock, prev, vote, count, sticky, records, listed, listings,
                   retries>>

\* Account.incr_karma found no karma in this vault: it sets the property from
\* the default and commits it.
FindNoKarma(c) ==
    /\ KarmaChange(c) # 0 /\ karma = None
    /\ Goto(c, "rewarding", "setting")
    /\ UNCHANGED <<delivery, lock, prev, vote, count, karma, sticky, records, listed,
                   listings, retries, given>>

SetKarma(c) ==
    /\ Goto(c, "setting", "recording")
    /\ karma' = DefaultKarma + KarmaChange(c)
    /\ given' = [given EXCEPT ![VoterOf(c)] = @ + KarmaChange(c)]
    /\ UNCHANGED <<delivery, lock, prev, vote, count, sticky, records, listed, listings,
                   retries>>

\* VotesByAccount.write_vote: the relation's row, then its view.
WriteRelation(c) ==
    /\ Goto(c, "recording", "detailing")
    /\ rel' = [rel EXCEPT ![VoterOf(c)] = vote[c].dir]
    /\ UNCHANGED <<delivery, lock, prev, vote, count, karma, sticky, details, listed,
                   listings, retries, given>>

WriteDetails(c) ==
    /\ Goto(c, "detailing", "listing")
    /\ details' = [details EXCEPT ![VoterOf(c)] = vote[c]]
    /\ UNCHANGED <<delivery, lock, prev, vote, count, karma, sticky, rel, listed, listings,
                   retries, given>>

\* Mutant: the old listing keeps the thing.
ListingAfter_Keeps(c, d) ==
    IF vote[c].dir = d THEN listed[d] \cup {VoterOf(c)} ELSE listed[d]

\* update_user_liked, on one of the two listings: the deletion and the insertion
\* are in one batch, with one timestamp, so where both name the same column
\* Cassandra keeps the deletion.
ListingAfter(c, d) ==
    IF prev[c] # None /\ prev[c].dir = d THEN listed[d] \ {VoterOf(c)}
    ELSE IF vote[c].dir = d THEN listed[d] \cup {VoterOf(c)}
    ELSE listed[d]

Unlock(c) == lock' = [u \in Voters |-> IF lock[u] = c THEN None ELSE lock[u]]

\* The end of the locked part; a comment has no such listings.
UpdateLiked(c) ==
    /\ Goto(c, "listing", "queueing")
    /\ listed' = IF queue.kind = "link" THEN [d \in {"up", "down"} |-> ListingAfter(c, d)]
                 ELSE listed
    /\ Unlock(c)
    /\ UNCHANGED <<delivery, prev, vote, count, karma, sticky, records, listings, retries,
                   given>>

\* voting.py:175, :395
VoteValid(c) == vote[c].score \/ (VoterOf(c) = Author /\ prev[c] = None)

\* A link's listing is updated by the consumer of another queue, to which the worker
\* thread is handed a message; a comment's is updated here.
UpdateListing(c) ==
    /\ unsent' = IF queue.kind = "link" THEN unsent \cup {c} ELSE unsent
    /\ sorted' = IF queue.kind = "comment" THEN count ELSE sorted
    /\ skipped' = FALSE

\* link_valid, comment_invalid: a removed or deleted thing's listing is left alone.
\* Moderators remove and restore a thing when they like, and the consumer looks at
\* the copy it has in hand, which may say either.
QueueUpdate(c) ==
    /\ Goto(c, "queueing", "acking")
    /\ IF VoteValid(c)
       THEN \/ UpdateListing(c)
            \/ skipped' = TRUE /\ UNCHANGED <<unsent, sorted>>
       ELSE UNCHANGED <<unsent, sorted, skipped>>
    /\ UNCHANGED <<delivery, lock, prev, vote, count, karma, sticky, records, listed,
                   updates, reading, retries, given>>

\* The worker thread publishes the update.
Publish(c) ==
    /\ c \in unsent
    /\ unsent' = unsent \ {c}
    /\ updates' = TRUE
    /\ UNCHANGED <<delivery, lock, work, count, karma, sticky, records, listed, reading,
                   sorted, skipped, retries, given>>

\* The consumer of author_query_q takes what there is and reads the thing ...
ReadUpdate ==
    /\ updates /\ reading = None
    /\ updates' = FALSE
    /\ reading' = count
    /\ UNCHANGED <<delivery, lock, work, count, karma, sticky, records, listed, unsent,
                   sorted, skipped, retries, given>>

\* ... puts it where it belongs in the listing, and acknowledges.
SortListing ==
    /\ reading # None
    /\ sorted' = reading
    /\ reading' = None
    /\ UNCHANGED <<delivery, lock, work, count, karma, sticky, records, listed, unsent,
                   updates, skipped, retries, given>>

\* Mutant: the messages are acknowledged before they are processed.
SortingFails_Acked ==
    /\ queue.faults # {} /\ reading # None
    /\ reading' = None
    /\ sorted' \in {sorted, reading}
    /\ UNCHANGED <<delivery, lock, work, count, karma, sticky, records, listed, unsent,
                   updates, skipped, retries, given>>

\* It fails or is killed before it has acknowledged: the messages go back.
SortingFails ==
    /\ queue.faults # {} /\ reading # None
    /\ updates' = TRUE
    /\ reading' = None
    /\ sorted' \in {sorted, reading}
    /\ UNCHANGED <<delivery, lock, work, count, karma, sticky, records, listed, unsent,
                   skipped, retries, given>>

UpdateQueries == ReadUpdate \/ SortListing \/ SortingFails

Forget(c) ==
    /\ prev' = [prev EXCEPT ![c] = None]
    /\ vote' = [vote EXCEPT ![c] = Blank]

\* Mutant: multiple = True, which acknowledges what was sent ahead too.
Ack_All(c) ==
    /\ Goto(c, "acking", "waiting")
    /\ held' = [held EXCEPT ![c] = <<>>]
    /\ Forget(c)
    /\ UNCHANGED <<queue, log, ready, lock, count, karma, sticky, records, listed, listings,
                   retries, given>>

Ack(c) ==
    /\ Goto(c, "acking", "waiting")
    /\ held' = [held EXCEPT ![c] = Tail(@)]
    /\ Forget(c)
    /\ UNCHANGED <<queue, log, ready, lock, count, karma, sticky, records, listed, listings,
                   retries, given>>

-----------------------------------------------------------------------------
\* How a consumer ends.  RabbitMQ puts its messages back where they were.

Indices(c) == {held[c][i] : i \in 1 .. Len(held[c])}

Requeue(c) ==
    /\ ready' = ready \cup Indices(c)
    /\ held' = [held EXCEPT ![c] = <<>>]
    /\ pc' = [pc EXCEPT ![c] = "waiting"]
    /\ Forget(c)
    /\ UNCHANGED <<queue, log>>

\* The lock's five seconds are over: TimeoutExpired ends the process.
TimeOut(c) ==
    /\ queue.kind = "link" /\ pc[c] = "waiting" /\ held[c] # <<>>
    /\ lock[VoterOf(c)] \notin {None, c}
    /\ Requeue(c)
    /\ UNCHANGED <<lock, count, karma, sticky, records, listed, listings, retries, given>>

\* One of the two partitions of update_user_liked's batch, or none, is written.
Half(c) ==
    IF queue.kind = "link" /\ pc[c] = "listing"
    THEN {[listed EXCEPT ![d] = ListingAfter(c, d)] : d \in {"up", "down"}}
    ELSE {}

Dies(c) ==
    /\ pc[c] # "waiting" /\ retries < queue.deaths
    /\ retries' = retries + 1
    /\ Requeue(c)
    /\ listed' \in {listed} \cup Half(c)

\* An exception: the lock's block is left, and consume_items waits for the
\* worker thread.
Raise(c) ==
    /\ "raise" \in queue.faults
    /\ Dies(c)
    /\ Unlock(c)
    /\ unsent' = unsent \ {c}
    /\ updates' = (updates \/ c \in unsent)
    /\ UNCHANGED <<count, karma, sticky, records, reading, sorted, skipped, given>>

\* The process is killed, with what its worker thread has not published.
Kill(c) ==
    /\ "kill" \in queue.faults
    /\ Dies(c)
    /\ lock' = [u \in Voters |-> IF lock[u] = c THEN Orphan ELSE lock[u]]
    /\ unsent' = unsent \ {c}
    /\ UNCHANGED <<count, karma, sticky, records, updates, reading, sorted, skipped, given>>

\* The TTL of a dead consumer's lock ends.
LockExpires(u) ==
    /\ lock[u] = Orphan
    /\ lock' = [lock EXCEPT ![u] = None]
    /\ UNCHANGED <<delivery, work, count, karma, sticky, records, listed, listings,
                   retries, given>>

-----------------------------------------------------------------------------

Process(c) ==
    \/ Start(c) \/ Make(c) \/ Undo(c) \/ Add(c) \/ Reward(c) \/ FindNoKarma(c)
    \/ SetKarma(c) \/ WriteRelation(c) \/ WriteDetails(c) \/ UpdateLiked(c)
    \/ QueueUpdate(c) \/ Ack(c)

Next ==
    \/ \E u \in Voters, d \in Directions : CastVote(u, d)
    \/ \E c \in Consumers :
          Deliver(c) \/ Process(c) \/ Publish(c) \/ TimeOut(c) \/ Raise(c) \/ Kill(c)
    \/ \E u \in Voters : LockExpires(u)
    \/ Sticky \/ UpdateQueries

Spec == Init /\ [][Next]_vars

-----------------------------------------------------------------------------

TypeOK ==
    /\ queue \in Queues
    /\ log \in Seq(Message)
    /\ ready \subseteq 1 .. Len(log)
    /\ held \in [Consumers -> Seq(1 .. Len(log))]
    /\ lock \in [Voters -> Consumers \cup {None, Orphan}]
    /\ pc \in [Consumers -> {"waiting", "making", "undoing", "adding", "rewarding",
                             "setting", "recording", "detailing", "listing",
                             "queueing", "acking"}]
    /\ prev \in [Consumers -> Vote \cup {None}]
    /\ vote \in [Consumers -> Vote]
    /\ count \in Counts
    /\ karma \in Int \cup {None}
    /\ sticky \in BOOLEAN
    /\ rel \in [Voters -> Directions \cup {None}]
    /\ details \in [Voters -> Vote \cup {None}]
    /\ listed \in [{"up", "down"} -> SUBSET Voters]
    /\ unsent \subseteq Consumers
    /\ updates \in BOOLEAN /\ skipped \in BOOLEAN
    /\ reading \in Counts \cup {None}
    /\ sorted \in Counts
    /\ retries \in Nat
    /\ given \in [Voters -> Int]

\* No message is in hand with its effects partly applied.
Between == \A c \in Consumers : pc[c] \in {"waiting", "making", "listing", "queueing", "acking"}

\* Every message is acknowledged.
Settled == ready = {} /\ \A c \in Consumers : held[c] = <<>>

Recorded(a) == {u \in Voters : Counted(details[u], a)}

OneConsumer == \E c \in Consumers : queue.staff = {c}

\* The thing's counters are the recorded votes that count, each voter once and
\* under the direction voted last, however often the vote was changed
\* (vote.py:148-154).  A message delivered again may be counted again, and no
\* more than that: each time a consumer dies, each counter moves away by at
\* most one.
DriftIsBounded ==
    Between => \A a \in {"up", "down"} :
        count[a] - Cardinality(Recorded(a)) \in -retries .. retries

\* Karma adds up.  One voter never moves the author's karma by more than one
\* point for this thing, also when the comment becomes or stops being the sticky
\* between two votes of the same account; and with one consumer the karma is the
\* default and the points given, although the first point finds no karma to
\* increment and sets it (account.py:300).
KarmaAddsUp ==
    /\ retries = 0 => \A u \in Voters : given[u] \in {-1, 0, 1}
    /\ OneConsumer /\ karma # None =>
          karma = DefaultKarma + MapThenSumSet(LAMBDA u : given[u], Voters)

\* With one consumer the last vote of an account that got into the queue is the
\* one on record, in both column families, whatever was delivered again.
LastVoteStands ==
    OneConsumer /\ Settled => \A i \in 1 .. Len(log) :
        LET u == log[i].voter
        IN  (\A j \in i + 1 .. Len(log) : log[j].voter # u) =>
                /\ rel[u] = log[i].dir
                /\ details[u] # None /\ details[u].dir = rel[u]

\* The thing is in an account's liked (disliked) listing only if the account's
\* vote on record is up (down), whenever nobody holds the lock that is there
\* for this (voting.py:149-150) and no consumer has died in the middle.
ListedAreVotes ==
    retries = 0 => \A u \in Voters, d \in {"up", "down"} :
        u \in listed[d] /\ lock[u] = None => details[u] # None /\ details[u].dir = d

\* And the other way round: "create the vote and update the voter's
\* liked/disliked under lock so that the vote state and cached query are
\* consistent" (voting.py:149-150).
VotesAreListed ==
    \A u \in Voters, d \in {"up", "down"} :
        details[u] # None /\ details[u].dir = d /\ lock[u] = None => u \in listed[d]

\* Once all is done the author's listing is sorted by the thing's counters, also if
\* a consumer raised between counting a vote and queueing the update, or the listing's
\* consumer had read older counters or failed.  A consumer of votes that is killed
\* takes with it what its worker thread has not published; and votes on a thing that
\* is removed show when the next one comes.
ListingsFollow ==
    "kill" \notin queue.faults /\ Settled /\ unsent = {} /\ ~updates /\ reading = None
    /\ ~skipped => sorted = count
=============================================================================
